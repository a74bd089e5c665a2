----------------------- MODULE SearchAndTransfer_proofs -----------------------
(***************************************************************************)
(* Proofs about a search and about a campaign.                             *)
(*                                                                         *)
(* evaluate_rse: for every registry, guard set, coverage report and set of *)
(* running workflows, an RSE_VERIFIED answer is a promise about every      *)
(* future of the running system, and every answer is the one the reachable *)
(* states define, with a shortest run as its witness.                      *)
(*                                                                         *)
(* The open transfer campaign: however many disturbances there are, its    *)
(* exceptions forget no container, the verifier passes one core, a record  *)
(* is bound to the evidence of its own case, and an erasure it reports is  *)
(* real.  Its pruned plan search returns what the brute force returns.     *)
(***************************************************************************)
EXTENDS RegenerationSearch, TransferCampaign, DataInduction, SequenceTheorems

-----------------------------------------------------------------------------
(* evaluate_rse.                                                            *)

\* A transition leads from fact sets to fact sets.
LEMMA ResultType ==
  ASSUME NEW c \in Case, NEW t \in TransitionIds, NEW s \in SUBSET Facts
  PROVE  Result(c.workflows[t], s) \in SUBSET Facts
BY DEF Case, Transition, Result

\* The facts and ids of a case are facts and ids.
LEMMA CaseFacts ==
  ASSUME NEW c \in Case
  PROVE  /\ c.snapshot \in SUBSET Facts
         /\ c.running \subseteq TransitionIds
         /\ Unguarded(c) \subseteq TransitionIds
BY DEF Case, Unguarded

\* Complete coverage means that no workflow runs outside the registry: each
\* one is in the scope of a required sensor, that sensor has reported, so the
\* workflow was observed, and complete coverage has no unregistered observation.
LEMMA RunningIsRegistered ==
  ASSUME NEW c \in Case, SensorsAreExhaustive(c), CoverageComplete(c)
  PROVE  c.running \subseteq c.registered
<1>. SUFFICES ASSUME NEW t \in c.running
              PROVE  t \in c.registered
  OBVIOUS
<1>1. SensorOf[t] \in c.requiredSensors
  BY CaseFacts DEF SensorsAreExhaustive
<1>2. SensorOf[t] \in ReportingSensors(c)
  BY <1>1 DEF CoverageComplete
<1>3. PICK o \in c.observations : o.transition = t
  BY <1>2, CaseFacts DEF SensorsAreExhaustive
<1>4. o.transition \in c.registered
  BY <1>3 DEF CoverageComplete
<1>. QED  BY <1>3, <1>4

-----------------------------------------------------------------------------
(* The type invariant.                                                     *)

\* The number of states seen is a natural number as long as the set of facts
\* is finite; sets of states then are finite too.
LEMMA VisitedFinite ==
  ASSUME NEW V \in SUBSET (SUBSET Facts)
  PROVE  Cardinality(V) \in Nat
BY FactsAreFinite, FS_SUBSET, FS_Subset, FS_CardinalityType

\* Init and every step keep the variables in their types.
LEMMA InitTypeOK == Init => TypeOK
<1>. SUFFICES ASSUME Init PROVE TypeOK
  OBVIOUS
<1>1. case \in Case /\ SensorsAreExhaustive(case) /\ world \in SUBSET Facts
  BY CasesAssumption, CaseFacts DEF Init
<1>2. NoWitness \in Entry
  BY DEF NoWitness, Entry
<1>3. report \in [verdict : Verdicts \union {"NONE", "RAISED"},
                  count : Nat, witness : Entry]
  BY <1>2 DEF Init, Running
<1>. QED  BY <1>1, <1>2, <1>3 DEF Init, TypeOK

\* Every step keeps the variables in their types: the paths grow by ids and
\* the states by facts.
LEMMA StepTypeOK == TypeOK /\ [Next]_vars => TypeOK'
<1>. SUFFICES ASSUME TypeOK, [Next]_vars
              PROVE  TypeOK'
  OBVIOUS
<1>. USE DEF TypeOK
<1>0. /\ case \in Case
      /\ case.snapshot \in SUBSET Facts
      /\ case.running \subseteq TransitionIds
      /\ Unguarded(case) \subseteq TransitionIds
  BY CaseFacts
<1>a. NoWitness \in Entry
  BY DEF NoWitness, Entry
<1>b. Cardinality(visited) \in Nat
  BY VisitedFinite
<1>d. ASSUME NEW t \in TransitionIds
      PROVE  NextState(t) \in SUBSET Facts
  <2>. DEFINE s == current.state
  <2>1. s \in SUBSET Facts
    BY DEF Entry
  <2>. HIDE DEF s
  <2>2. Result(case.workflows[t], s) \in SUBSET Facts
    BY <1>0, <2>1, ResultType
  <2>. QED  BY <2>2 DEF NextState, s
<1>c. ASSUME NEW t \in TransitionIds
      PROVE  [state |-> NextState(t), path |-> Append(current.path, t)] \in Entry
  <2>1. NextState(t) \in SUBSET Facts
    BY <1>d
  <2>2. Append(current.path, t) \in Seq(TransitionIds)
    BY DEF Entry
  <2>. QED  BY <2>1, <2>2 DEF Entry
<1>1. CASE RejectUnknownGuard
  BY <1>1, <1>a DEF RejectUnknownGuard, Return, Raised
<1>2. CASE ReportDirtySnapshot
  <2>1. [state |-> case.snapshot, path |-> <<>>] \in Entry
    BY <1>0 DEF Entry
  <2>. QED  BY <1>2, <2>1 DEF ReportDirtySnapshot, Return, Verdicts
<1>3. CASE StartSearch
  <2>1. [state |-> case.snapshot, path |-> <<>>] \in Entry
    BY <1>0 DEF Entry
  <2>2. queue' \in Seq(Entry) /\ visited' \in SUBSET (SUBSET Facts)
    BY <1>3, <2>1, <1>0 DEF StartSearch
  <2>. QED  BY <1>3, <2>2 DEF StartSearch
<1>4. CASE Dequeue
  BY <1>4, <1>0 DEF Dequeue
<1>5. ASSUME NEW t \in TransitionIds, Skip(t)
      PROVE  TypeOK'
  BY <1>5 DEF Skip
<1>6. ASSUME NEW t \in TransitionIds, FindRegeneration(t)
      PROVE  TypeOK'
  <2>1. /\ Cardinality(visited) + 1 \in Nat
        /\ [state |-> NextState(t), path |-> Append(current.path, t)] \in Entry
    BY <1>6, <1>b, <1>c
  <2>2. report' \in [verdict : Verdicts \union {"NONE", "RAISED"},
                     count : Nat, witness : Entry]
    BY <1>6, <2>1 DEF FindRegeneration, Return, Verdicts
  <2>. QED  BY <1>6, <2>2 DEF FindRegeneration, Return
<1>7. ASSUME NEW t \in TransitionIds, Discover(t)
      PROVE  TypeOK'
  <2>1. queue' \in Seq(Entry)
    BY <1>7, <1>c DEF Discover
  <2>2. visited' \in SUBSET (SUBSET Facts)
    BY <1>7, <1>d DEF Discover
  <2>. QED  BY <1>7, <2>1, <2>2 DEF Discover
<1>8. ASSUME NEW t \in TransitionIds, ExceedLimit(t)
      PROVE  TypeOK'
  BY <1>8, <1>d, <1>a DEF ExceedLimit, Return, Raised
<1>9. CASE Exhaust
  BY <1>9, <1>a, <1>b DEF Exhaust, Return, Verdicts
<1>10. ASSUME NEW t \in TransitionIds, RunWorkflow(t)
       PROVE  TypeOK'
  <2>1. Result(case.workflows[t], world) \in SUBSET Facts
    BY <1>0, ResultType
  <2>. QED  BY <1>10, <2>1 DEF RunWorkflow
<1>11. CASE UNCHANGED vars
  BY <1>11 DEF vars
<1>. QED
  BY <1>1, <1>2, <1>3, <1>4, <1>5, <1>6, <1>7, <1>8, <1>9, <1>10, <1>11
     DEF Next, SearchStep

\* Type correctness of every behaviour.
THEOREM TypeCorrect == Spec => []TypeOK
<1>1. Init /\ [][Next]_vars => []TypeOK
  BY InitTypeOK, StepTypeOK, PTL
<1>. QED  BY <1>1, PTL DEF Spec

-----------------------------------------------------------------------------
(* The safety invariant.                                                   *)

\* Taking the head off the queue loses no other entry.
LEMMA StatesOfTail ==
  ASSUME NEW q \in Seq(Entry), q # <<>>
  PROVE  States(q) \subseteq States(Tail(q)) \union {Head(q).state}
<1>. SUFFICES ASSUME NEW i \in 1..Len(q), i # 1
              PROVE  \E j \in 1..Len(Tail(q)) : Tail(q)[j] = q[i]
  BY DEF States
<1>. QED  BY i - 1 \in 1..Len(Tail(q)), Tail(q)[i-1] = q[i]

\* Appending keeps the entries and adds one.
LEMMA StatesOfAppend ==
  ASSUME NEW q \in Seq(Entry), NEW e \in Entry
  PROVE  States(Append(q, e)) = States(q) \union {e.state}
<1>1. /\ Len(Append(q, e)) = Len(q) + 1
      /\ \A i \in 1..Len(q) : Append(q, e)[i] = q[i]
      /\ Append(q, e)[Len(q) + 1] = e
      /\ Len(q) \in Nat
  OBVIOUS
<1>. QED  BY <1>1 DEF States

\* The empty queue holds no state, a singleton one.
LEMMA StatesOfShort ==
  /\ States(<<>>) = {}
  /\ \A e \in Entry : States(<<e>>) = {e.state}
BY DEF States

\* The start: nothing visited, the world at the snapshot.
LEMMA InitIInv == Init => IInv
BY InitTypeOK DEF Init, IInv, Frontier, VisitedIsClean, Finished, Running,
                  WorldIsReachable

\* Every visited state keeps its place in the frontier.
LEMMA StepFrontier == IInv /\ [Next]_vars => Frontier'
<1>. SUFFICES ASSUME IInv, [Next]_vars
              PROVE  Frontier'
  OBVIOUS
<1>. USE DEF IInv
<1>0. /\ queue \in Seq(Entry)
      /\ Unguarded(case) \subseteq TransitionIds
  BY CaseFacts DEF TypeOK
<1>1. ASSUME pc # "returned"
      PROVE  report.verdict = "NONE"
  BY <1>1 DEF Finished, Running
<1>2. CASE RejectUnknownGuard
  BY <1>2 DEF RejectUnknownGuard, Return, Raised, Frontier
<1>3. CASE ReportDirtySnapshot
  BY <1>3 DEF ReportDirtySnapshot, Return, Frontier
<1>4. CASE StartSearch
  <2>1. [state |-> case.snapshot, path |-> <<>>] \in Entry
    BY CaseFacts DEF Entry, TypeOK
  <2>2. Queued' = {case.snapshot}
    BY <1>4, <2>1, StatesOfShort DEF StartSearch, Queued
  <2>. QED  BY <1>4, <2>2 DEF StartSearch, Frontier
<1>5. CASE Dequeue
  <2>1. /\ queue # <<>> /\ pending = {} /\ pc = "search"
        /\ current' = Head(queue) /\ queue' = Tail(queue)
        /\ pending' = Unguarded(case)
        /\ UNCHANGED <<case, pc, visited, report>>
    BY <1>5 DEF Dequeue
  <2>2. Queued \subseteq Queued' \union {current'.state}
    BY <2>1, <1>0, StatesOfTail DEF Queued
  <2>3. report.verdict = "NONE"
    BY <1>1, <2>1
  <2>4. ASSUME NEW s \in visited
        PROVE  \/ s \in Queued' \/ s = current'.state \/ Expanded(s)
    BY <2>1, <2>2, <2>3 DEF Frontier, Expanded
  <2>5. \A s : Expanded(s)' <=> Expanded(s)
    BY <2>1 DEF Expanded, Unguarded
  <2>6. Unguarded(case)' \ pending' = {}
    BY <2>1 DEF Unguarded
  <2>. QED  BY <2>1, <2>3, <2>4, <2>5, <2>6 DEF Frontier
<1>6. ASSUME NEW t \in TransitionIds, Skip(t)
      PROVE  Frontier'
  <2>1. /\ pc = "search" /\ pending' = pending \ {t} /\ ~ IsNew(t)
        /\ UNCHANGED <<case, pc, queue, visited, current, report>>
    BY <1>6 DEF Skip, IsNext
  <2>2. report.verdict = "NONE"
    BY <1>1, <2>1
  <2>3. ASSUME current.state \in visited,
               Enables(case.workflows[t], current.state)
        PROVE  Result(case.workflows[t], current.state) \in visited
    BY <2>1, <2>3 DEF IsNew, Moves, NextState
  <2>. QED  BY <2>1, <2>2, <2>3 DEF Frontier, Queued, Expanded, Unguarded
<1>7. ASSUME NEW t \in TransitionIds, FindRegeneration(t)
      PROVE  Frontier'
  <2>1. /\ pc = "search"
        /\ UNCHANGED <<case, queue, visited, current, pending>>
    BY <1>7 DEF FindRegeneration, IsNext, Return
  <2>2. report.verdict = "NONE"
    BY <1>1, <2>1
  <2>. QED  BY <2>1, <2>2 DEF Frontier, Queued, Expanded, Unguarded
<1>8. ASSUME NEW t \in TransitionIds, Discover(t)
      PROVE  Frontier'
  <2>. DEFINE n == NextState(t)
              e == [state |-> n, path |-> Append(current.path, t)]
  <2>1. /\ pc = "search" /\ pending' = pending \ {t}
        /\ visited' = visited \union {n} /\ queue' = Append(queue, e)
        /\ UNCHANGED <<case, pc, current, report>>
    BY <1>8 DEF Discover, IsNext
  <2>2. report.verdict = "NONE"
    BY <1>1, <2>1
  <2>3. e \in Entry
    <3>1. n \in SUBSET Facts
      <4>. DEFINE s == current.state
      <4>1. s \in SUBSET Facts
        BY DEF Entry, TypeOK
      <4>. HIDE DEF s
      <4>2. Result(case.workflows[t], s) \in SUBSET Facts
        BY <4>1, ResultType, CaseFacts DEF TypeOK
      <4>. QED  BY <4>2 DEF NextState, s
    <3>2. Append(current.path, t) \in Seq(TransitionIds)
      BY DEF Entry, TypeOK
    <3>. HIDE DEF n
    <3>. QED  BY <3>1, <3>2 DEF Entry
  <2>. HIDE DEF e
  <2>4. Queued' = Queued \union {n}
    BY <2>1, <2>3, <1>0, StatesOfAppend DEF Queued, e
  <2>5. n = Result(case.workflows[t], current.state)
    BY DEF NextState
  <2>. HIDE DEF n
  <2>. QED  BY <2>1, <2>2, <2>4, <2>5 DEF Frontier, Expanded, Unguarded
<1>9. ASSUME NEW t \in TransitionIds, ExceedLimit(t)
      PROVE  Frontier'
  BY <1>9 DEF ExceedLimit, Return, Raised, Frontier
<1>10. CASE Exhaust
  <2>1. /\ pc = "search"
        /\ UNCHANGED <<case, queue, visited, current, pending>>
    BY <1>10 DEF Exhaust, Return
  <2>2. report.verdict = "NONE"
    BY <1>1, <2>1
  <2>. QED  BY <2>1, <2>2 DEF Frontier, Queued, Expanded, Unguarded
<1>11. ASSUME NEW t \in TransitionIds, RunWorkflow(t)
       PROVE  Frontier'
  BY <1>11 DEF RunWorkflow, Frontier, Queued, Expanded, Unguarded
<1>12. CASE UNCHANGED vars
  BY <1>12 DEF vars, Frontier, Queued, Expanded, Unguarded
<1>. QED
  BY <1>2, <1>3, <1>4, <1>5, <1>6, <1>7, <1>8, <1>9, <1>10, <1>11, <1>12
     DEF Next, SearchStep

\* Only states free of subject data are ever marked visited.
LEMMA StepVisitedIsClean == IInv /\ [Next]_vars => VisitedIsClean'
<1>. SUFFICES ASSUME VisitedIsClean, [Next]_vars
              PROVE  VisitedIsClean'
  BY DEF IInv
<1>1. CASE StartSearch
  BY <1>1 DEF StartSearch, VisitedIsClean
<1>2. ASSUME NEW t \in TransitionIds, Discover(t) \/ ExceedLimit(t)
      PROVE  VisitedIsClean'
  <2>1. visited' = visited \union {NextState(t)} /\ ~ HoldsSubjectData(NextState(t))
    BY <1>2 DEF Discover, ExceedLimit
  <2>. QED  BY <2>1 DEF VisitedIsClean
<1>3. CASE visited' = visited
  BY <1>3 DEF VisitedIsClean
<1>. QED
  BY <1>1, <1>2, <1>3 DEF Next, SearchStep, vars, RejectUnknownGuard,
     ReportDirtySnapshot, Dequeue, Skip, FindRegeneration, Exhaust, RunWorkflow

\* A clean verdict is returned only with nothing left to expand.
LEMMA StepFinished == IInv /\ [Next]_vars => Finished'
<1>. SUFFICES ASSUME Finished, [Next]_vars
              PROVE  Finished'
  BY DEF IInv
<1>. USE DEF Finished, Running
<1>1. CASE RejectUnknownGuard \/ ReportDirtySnapshot
  BY <1>1 DEF RejectUnknownGuard, ReportDirtySnapshot, Return, Raised
<1>2. CASE StartSearch \/ Dequeue \/ \E t \in TransitionIds : Skip(t)
  BY <1>2 DEF StartSearch, Dequeue, Skip, IsNext
<1>3. ASSUME NEW t \in TransitionIds,
             FindRegeneration(t) \/ Discover(t) \/ ExceedLimit(t)
      PROVE  Finished'
  BY <1>3 DEF FindRegeneration, Discover, ExceedLimit, IsNext, Return, Raised
<1>4. CASE Exhaust
  BY <1>4 DEF Exhaust, Return
<1>5. CASE UNCHANGED vars \/ \E t \in TransitionIds : RunWorkflow(t)
  BY <1>5 DEF vars, RunWorkflow
<1>. QED
  BY <1>1, <1>2, <1>3, <1>4, <1>5 DEF Next, SearchStep

\* A workflow that runs keeps the world inside every closed set of states.
LEMMA StepWorldIsReachable == IInv /\ [Next]_vars => WorldIsReachable'
<1>. SUFFICES ASSUME WorldIsReachable, [Next]_vars
              PROVE  WorldIsReachable'
  BY DEF IInv
<1>1. ASSUME NEW t \in TransitionIds, RunWorkflow(t)
      PROVE  WorldIsReachable'
  <2>1. /\ t \in case.running \ case.guarded
        /\ Enables(case.workflows[t], world)
        /\ world' = Result(case.workflows[t], world)
        /\ case' = case
    BY <1>1 DEF RunWorkflow, Moves
  <2>. SUFFICES ASSUME NEW states \in SUBSET (SUBSET Facts),
                       case.snapshot \in states, ClosedUnderRunning(states)
                PROVE  world' \in states
    BY <2>1 DEF WorldIsReachable, ClosedUnderRunning
  <2>2. world \in states
    BY DEF WorldIsReachable
  <2>. QED  BY <2>1, <2>2 DEF ClosedUnderRunning
<1>2. CASE SearchStep \/ UNCHANGED vars
  <2>1. UNCHANGED <<case, world>>
    BY <1>2 DEF SearchStep, vars, RejectUnknownGuard, ReportDirtySnapshot,
                StartSearch, Dequeue, Skip, FindRegeneration, Discover,
                ExceedLimit, Exhaust, Return
  <2>. QED  BY <2>1 DEF WorldIsReachable, ClosedUnderRunning
<1>. QED  BY <1>1, <1>2 DEF Next

\* The invariant carries the promise.  After RSE_VERIFIED the visited states
\* hold the snapshot and are closed under the unguarded transitions; complete
\* coverage makes those all the workflows that run; so the world is a visited
\* state, and visited states are clean.
LEMMA IInvImpliesSafe == IInv => VerifiedNeverRegenerates
<1>. SUFFICES ASSUME IInv, report.verdict = "RSE_VERIFIED"
              PROVE  ~ HoldsSubjectData(world)
  BY DEF VerifiedNeverRegenerates
<1>. USE DEF IInv
<1>1. /\ pc # "check" /\ queue = <<>> /\ pending = {}
      /\ CoverageComplete(case)
  BY DEF Finished, Running
<1>2. Queued = {}
  BY <1>1, StatesOfShort DEF Queued
<1>3. case.snapshot \in visited /\ \A s \in visited : Expanded(s)
  BY <1>1, <1>2 DEF Frontier, Expanded
<1>4. case.running \ case.guarded \subseteq Unguarded(case)
  BY <1>1, RunningIsRegistered DEF TypeOK, Unguarded
<1>5. ClosedUnderRunning(visited)
  BY <1>3, <1>4 DEF ClosedUnderRunning, Expanded
<1>6. world \in visited
  BY <1>3, <1>5 DEF WorldIsReachable, TypeOK
<1>. QED  BY <1>6 DEF VisitedIsClean

\* A verdict of RSE_VERIFIED excludes every future regeneration.
THEOREM VerifiedIsSafe == Spec => []VerifiedNeverRegenerates
<1>1. IInv /\ [Next]_vars => IInv'
  BY StepTypeOK, StepFrontier, StepVisitedIsClean, StepFinished,
     StepWorldIsReachable DEF IInv
<1>2. Init /\ [][Next]_vars => []IInv
  BY InitIInv, <1>1, PTL
<1>. QED  BY <1>2, IInvImpliesSafe, PTL DEF Spec

-----------------------------------------------------------------------------
(* What is reachable, and how.                                             *)

\* The successors of more states are more states.
LEMMA SuccessorsType ==
  ASSUME NEW c \in Case
  PROVE  /\ \A S \in SUBSET (SUBSET Facts) : Successors(c, S) \subseteq SUBSET Facts
         /\ \A R, S \in SUBSET (SUBSET Facts) :
              R \subseteq S => Successors(c, R) \subseteq Successors(c, S)
<1>1. ASSUME NEW t \in Unguarded(c), NEW s \in SUBSET Facts
      PROVE  Result(c.workflows[t], s) \in SUBSET Facts
  BY CaseFacts, ResultType
<1>. QED  BY <1>1 DEF Successors

\* The reachable states are the least set that has the snapshot and no way out.
LEMMA ReachableIsLeast ==
  ASSUME NEW c \in Case
  PROVE  /\ Reachable(c) \in SUBSET (SUBSET Facts)
         /\ c.snapshot \in Reachable(c)
         /\ Successors(c, Reachable(c)) \subseteq Reachable(c)
         /\ \A S \in SUBSET (SUBSET Facts) :
              c.snapshot \in S /\ Successors(c, S) \subseteq S => Reachable(c) \subseteq S
<1>. DEFINE D == SUBSET Facts
            step == [states \in SUBSET D |-> Successors(c, states)]
            Is(f) == f = [states \in SUBSET D |->
                            LET grown == states \union Successors(c, states)
                            IN  IF grown = states THEN states ELSE f[grown]]
            closure == CHOOSE f : Is(f)
            start == {c.snapshot}
<1>1. IsFiniteSet(D)
  BY FactsAreFinite, FS_SUBSET
<1>2. \A S \in SUBSET D : step[S] \subseteq D /\ step[S] = Successors(c, S)
  BY SuccessorsType
<1>3. \A R, S \in SUBSET D : R \subseteq S => step[R] \subseteq step[S]
  BY SuccessorsType
<1>4. ASSUME NEW f PROVE Is(f) <=> Closes(D, step, f)
  BY DEF Closes
<1>5. \E f : Closes(D, step, f)
  <2>. HIDE DEF D, step
  <2>. QED  BY <1>2, <1>3, ClosureExists
<1>6. Closes(D, step, closure)
  <2>. HIDE DEF D, step, Is
  <2>. QED  BY <1>4, <1>5
<1>7. Reachable(c) = closure[start]
  BY DEF Reachable
<1>8. start \in SUBSET D
  BY CaseFacts
<1>9. /\ closure[start] \in SUBSET D /\ start \subseteq closure[start]
      /\ step[closure[start]] \subseteq closure[start]
      /\ \A t \in SUBSET D : start \subseteq t /\ step[t] \subseteq t => closure[start] \subseteq t
  <2>. HIDE DEF D, step, closure, start
  <2>. QED  BY ONLY <1>1, <1>2, <1>3, <1>6, <1>8, ClosureIsLeast
<1>. HIDE DEF closure, step
<1>10. ASSUME NEW S \in SUBSET D, c.snapshot \in S, Successors(c, S) \subseteq S
       PROVE  closure[start] \subseteq S
  BY <1>2, <1>9, <1>10
<1>11. /\ closure[start] \in SUBSET D /\ c.snapshot \in closure[start]
       /\ Successors(c, closure[start]) \subseteq closure[start]
  BY <1>2, <1>9
<1>12. \A S \in SUBSET D :
         c.snapshot \in S /\ Successors(c, S) \subseteq S => closure[start] \subseteq S
  BY <1>10
<1>. HIDE DEF start
<1>. QED  BY ONLY <1>7, <1>11, <1>12

\* The levels: the snapshot, and what one more step reaches.
LEMMA Levels ==
  ASSUME NEW c \in Case, NEW n \in Nat
  PROVE  /\ ReachableWithin(c, 0) = {c.snapshot}
         /\ ReachableWithin(c, n + 1) =
              ReachableWithin(c, n) \union Successors(c, ReachableWithin(c, n))
<1>. DEFINE D == SUBSET (SUBSET Facts)
            start == {c.snapshot}
            Grow(known) == known \union Successors(c, known)
            Is(m, f) == f = [k \in 0..m |-> IF k = 0 THEN start ELSE LET known == f[k-1] IN Grow(known)]
            level(m) == CHOOSE f : Is(m, f)
<1>1. ASSUME NEW m \in Nat
      PROVE  /\ level(m)[0] = start
             /\ \A k \in 1..m : level(m)[k] = Grow(level(m)[k-1])
  <2>. DEFINE step == [k \in 1..m |-> [known \in D |-> Grow(known)]]
  <2>1. step \in [1..m -> [D -> D]] /\ start \in D
    BY SuccessorsType, CaseFacts
  <2>2. PICK f \in [0..m -> D] : f[0] = start /\ \A k \in 1..m : f[k] = step[k][f[k-1]]
    <3>. HIDE DEF D, step, start
    <3>1. PICK f : Iterates(D, start, m, step, f)
      BY <2>1, IteratesExist
    <3>. QED  BY <3>1 DEF Iterates
  <2>3. ASSUME NEW k \in 1..m PROVE f[k] = Grow(f[k-1])
    <3>1. f[k-1] \in D /\ f[k] = step[k][f[k-1]]
      <4>1. k - 1 \in 0..m
        OBVIOUS
      <4>. HIDE DEF step, D
      <4>. QED  BY <2>2, <4>1
    <3>2. \A known \in D : step[k][known] = Grow(known)
      OBVIOUS
    <3>. HIDE DEF step, Grow, D
    <3>. QED  BY <3>1, <3>2
  <2>4. Is(m, f)
    <3>1. \A k \in 0..m : k = 0 \/ k \in 1..m
      OBVIOUS
    <3>2. f = [k \in 0..m |-> f[k]]
      OBVIOUS
    <3>3. \A k \in 0..m : f[k] = IF k = 0 THEN start ELSE LET known == f[k-1] IN Grow(known)
      <4>. HIDE DEF Grow, start
      <4>. QED  BY <2>2, <2>3, <3>1
    <3>. HIDE DEF Grow, start
    <3>. QED  BY <3>2, <3>3
  <2>5. Is(m, level(m))
    <3>. HIDE DEF Is
    <3>. QED  BY <2>4
  <2>. HIDE DEF level, Grow, start
  <2>. QED  BY <2>5
<1>2. \A m \in Nat : ReachableWithin(c, m) = level(m)[m]
  BY DEF ReachableWithin
<1>. HIDE DEF level, Grow, start
<1>3. \A k \in 0..n : level(n)[k] = level(n + 1)[k]
  <2>. DEFINE f == level(n)  g == level(n + 1)
  <2>1. f[0] = g[0] /\ \A k \in 1..n : f[k] = Grow(f[k-1]) /\ g[k] = Grow(g[k-1])
    BY <1>1, \A k \in 1..n : k \in 1..(n + 1)
  <2>. HIDE DEF f, g
  <2>2. \A k \in 1..n : f[k-1] = g[k-1] => f[k] = g[k]
    BY <2>1
  <2>3. GoAlike(n, f, g)
    BY <2>1, <2>2 DEF GoAlike
  <2>4. AreAlike(n, f, g)
    BY <2>3, IteratesAgree
  <2>. QED  BY <2>4 DEF f, g, AreAlike
<1>4. level(n + 1)[n + 1] = Grow(level(n + 1)[n])
  BY <1>1, n + 1 \in 1..(n + 1), (n + 1) - 1 = n
<1>5. level(n + 1)[n] = level(n)[n]
  BY <1>3, n \in 0..n
<1>6. ReachableWithin(c, 0) = start
  BY <1>1, <1>2
<1>7. ReachableWithin(c, n + 1) = Grow(ReachableWithin(c, n))
  BY <1>2, <1>4, <1>5
<1>. QED  BY <1>6, <1>7 DEF start, Grow

\* A path can be replayed on a case.
LEMMA ReplayExists ==
  ASSUME NEW c \in Case, NEW path \in Seq(TransitionIds)
  PROVE  \E f \in [0..Len(path) -> SUBSET Facts] :
           /\ f[0] = c.snapshot
           /\ \A k \in 1..Len(path) : f[k] = Result(c.workflows[path[k]], f[k-1])
<1>. DEFINE m == Len(path)
            D == SUBSET Facts
            start == c.snapshot
            step == [k \in 1..m |-> [s \in D |-> Result(c.workflows[path[k]], s)]]
<1>1. m \in Nat /\ start \in D /\ \A k \in 1..m : path[k] \in TransitionIds
  BY CaseFacts
<1>2. step \in [1..m -> [D -> D]]
  BY <1>1, ResultType
<1>3. PICK f \in [0..m -> D] : f[0] = start /\ \A k \in 1..m : f[k] = step[k][f[k-1]]
  <2>. HIDE DEF D, step, m, start
  <2>1. PICK f : Iterates(D, start, m, step, f)
    BY <1>1, <1>2, IteratesExist
  <2>. QED  BY <2>1 DEF Iterates
<1>4. ASSUME NEW k \in 1..m PROVE f[k] = Result(c.workflows[path[k]], f[k-1])
  <2>1. f[k-1] \in D /\ f[k] = step[k][f[k-1]]
    <3>1. k - 1 \in 0..m
      BY <1>1
    <3>. HIDE DEF step, D, m
    <3>. QED  BY <1>3, <3>1
  <2>2. \A s \in D : step[k][s] = Result(c.workflows[path[k]], s)
    OBVIOUS
  <2>. HIDE DEF step, D, m
  <2>. QED  BY <2>1, <2>2
<1>. QED  BY <1>3, <1>4

\* Replaying a path starts at the snapshot and applies its workflows in turn.
LEMMA Replays ==
  ASSUME case \in Case, NEW path \in Seq(TransitionIds)
  PROVE  /\ Replay(path)[0] = case.snapshot
         /\ \A k \in 1..Len(path) :
              Replay(path)[k] = Result(case.workflows[path[k]], Replay(path)[k-1])
<1>. DEFINE m == Len(path)
            Is(f) == f = [k \in 0..m |-> IF k = 0 THEN case.snapshot
                                         ELSE Result(case.workflows[path[k]], f[k-1])]
            after == CHOOSE f : Is(f)
<1>1. m \in Nat
  OBVIOUS
<1>2. PICK f \in [0..m -> SUBSET Facts] :
        /\ f[0] = case.snapshot
        /\ \A k \in 1..m : f[k] = Result(case.workflows[path[k]], f[k-1])
  BY ReplayExists
<1>3. Is(f)
  <2>1. f = [k \in 0..m |-> f[k]] /\ \A k \in 0..m : k = 0 \/ k \in 1..m
    BY <1>1
  <2>2. \A k \in 0..m : f[k] = IF k = 0 THEN case.snapshot
                                 ELSE Result(case.workflows[path[k]], f[k-1])
    <3>. HIDE DEF m
    <3>. QED  BY <1>2, <2>1
  <2>. HIDE DEF m
  <2>. QED  BY <2>1, <2>2
<1>4. Is(after)
  <2>. HIDE DEF Is
  <2>. QED  BY <1>3
<1>5. Replay(path) = after
  BY DEF Replay
<1>. HIDE DEF after
<1>. QED  BY <1>1, <1>4, <1>5

\* The path is a run from the snapshot to the state, through clean states.
Leads(path, state) ==
  LET after == Replay(path)
  IN  /\ after[Len(path)] = state
      /\ \A k \in 1..Len(path) :
           /\ path[k] \in Unguarded(case)
           /\ Moves(case.workflows[path[k]], after[k-1])
           /\ ~ HoldsSubjectData(after[k-1])

\* One more workflow leads one state further.
LEMMA LeadsOn ==
  ASSUME case \in Case, NEW path \in Seq(TransitionIds), NEW state, Leads(path, state),
         NEW t \in Unguarded(case), Moves(case.workflows[t], state), ~ HoldsSubjectData(state)
  PROVE  Leads(Append(path, t), Result(case.workflows[t], state))
<1>. DEFINE longer == Append(path, t)
            n == Len(path)
            f == Replay(path)
            g == Replay(longer)
<1>1. /\ n \in Nat /\ longer \in Seq(TransitionIds) /\ Len(longer) = n + 1
      /\ longer[n + 1] = t /\ \A k \in 1..n : longer[k] = path[k]
  BY CaseFacts
<1>. HIDE DEF longer, n
<1>2. /\ f[0] = case.snapshot
      /\ \A k \in 1..n : f[k] = Result(case.workflows[path[k]], f[k-1])
  BY Replays DEF n
<1>3. /\ g[0] = case.snapshot
      /\ \A k \in 1..(n + 1) : g[k] = Result(case.workflows[longer[k]], g[k-1])
  BY <1>1, Replays
<1>. HIDE DEF f, g
<1>4. \A k \in 0..n : f[k] = g[k]
  <2>1. f[0] = g[0]
    BY <1>2, <1>3
  <2>2. ASSUME NEW k \in 1..n, f[k-1] = g[k-1] PROVE f[k] = g[k]
    <3>1. k \in 1..(n + 1)
      BY <1>1
    <3>. QED  BY <1>1, <1>2, <1>3, <2>2, <3>1
  <2>3. \A k \in 1..n : f[k-1] = g[k-1] => f[k] = g[k]
    BY <2>2
  <2>4. GoAlike(n, f, g)
    BY <2>1, <2>3 DEF GoAlike
  <2>5. AreAlike(n, f, g)
    BY <1>1, <2>4, IteratesAgree
  <2>. QED  BY <2>5 DEF AreAlike
<1>5. /\ f[n] = state
      /\ \A k \in 1..n : /\ path[k] \in Unguarded(case)
                          /\ Moves(case.workflows[path[k]], f[k-1])
                          /\ ~ HoldsSubjectData(f[k-1])
  BY DEF Leads, f, n
<1>6. g[n] = state
  BY <1>1, <1>4, <1>5
<1>7. g[n + 1] = Result(case.workflows[t], state)
  <2>1. n + 1 \in 1..(n + 1) /\ (n + 1) - 1 = n
    BY <1>1
  <2>. QED  BY <1>1, <1>3, <1>6, <2>1
<1>8. ASSUME NEW k \in 1..(n + 1)
      PROVE  /\ longer[k] \in Unguarded(case)
             /\ Moves(case.workflows[longer[k]], g[k-1])
             /\ ~ HoldsSubjectData(g[k-1])
  <2>1. CASE k = n + 1
    <3>1. k - 1 = n
      BY <1>1, <2>1
    <3>. QED  BY <1>1, <1>6, <2>1, <3>1
  <2>2. CASE k # n + 1
    <3>1. k \in 1..n /\ k - 1 \in 0..n
      BY <1>1, <2>2
    <3>. QED  BY <1>1, <1>4, <1>5, <3>1
  <2>. QED  BY <2>1, <2>2
<1>. QED  BY <1>1, <1>7, <1>8 DEF Leads, longer, g

\* No step leads nowhere: the empty path leads to the snapshot.
LEMMA EmptyLeads == case \in Case => Leads(<<>>, case.snapshot)
<1>. SUFFICES ASSUME case \in Case PROVE Leads(<<>>, case.snapshot)
  OBVIOUS
<1>1. <<>> \in Seq(TransitionIds) /\ Len(<<>>) = 0 /\ 1..Len(<<>>) = {}
  OBVIOUS
<1>2. Replay(<<>>)[0] = case.snapshot
  BY <1>1, Replays
<1>. QED  BY <1>1, <1>2 DEF Leads

-----------------------------------------------------------------------------
(* The answer is exact: its invariant.                                     *)

Within(n) == ReachableWithin(case, n)

NotStarted ==
  pc = "check" => queue = <<>> /\ visited = {} /\ current = NoWitness /\ pending = {}

\* The entries of the search are visited states with runs that lead to them.
EntriesLead ==
  pc = "search" =>
    /\ pending \subseteq Unguarded(case)
    /\ \A i \in 1..Len(queue) :
         queue[i].state \in visited /\ Leads(queue[i].path, queue[i].state)
    /\ pending # {} =>
         current.state \in visited /\ Leads(current.path, current.state)

\* The search is breadth-first: the queue is sorted by the lengths of paths,
\* which are those of the current one and one more, no shorter run leads to a
\* queued state, and what the length of the current path can reach is visited.
BreadthFirst ==
  pc = "search" =>
    /\ \A i \in 1..Len(queue) :
         /\ Len(current.path) <= Len(queue[i].path)
         /\ Len(queue[i].path) <= Len(current.path) + 1
         /\ \A j \in 1..Len(queue) : i <= j => Len(queue[i].path) <= Len(queue[j].path)
         /\ \A n \in 0..(Len(queue[i].path) - 1) : queue[i].state \notin Within(n)
    /\ \A n \in 0..Len(current.path) : Within(n) \subseteq visited

Answers ==
  /\ report.verdict = "SNAPSHOT_INCOMPLETE" => HoldsSubjectData(case.snapshot)
  /\ report.verdict = "REGENERATION_RISK" =>
       /\ Leads(report.witness.path, report.witness.state)
       /\ HoldsSubjectData(report.witness.state)
       /\ report.witness.state \in Reachable(case)
       /\ \A n \in 0..(Len(report.witness.path) - 1) : Within(n) \subseteq visited
  /\ report.verdict \in {"RSE_VERIFIED", "INCOMPLETE_COVERAGE"} =>
       /\ report.count = Cardinality(visited)
       /\ report.verdict = "RSE_VERIFIED" <=> CoverageComplete(case)
  /\ report.verdict = "RAISED" /\ case.guarded \subseteq case.registered =>
       Cardinality(visited) > MaxReachableStates

\* The invariant behind AnswerIsExact.
ExactInv ==
  /\ IInv
  /\ visited \subseteq Reachable(case)
  /\ NotStarted
  /\ EntriesLead
  /\ BreadthFirst
  /\ Answers

\* A step leaves the case as it is, and with it all that is defined by it.
LEMMA SameCase ==
  ASSUME [Next]_vars
  PROVE  /\ case' = case
         /\ \A p, s : Leads(p, s)' <=> Leads(p, s)
         /\ \A n : Within(n)' = Within(n)
         /\ Unguarded(case)' = Unguarded(case)
         /\ Reachable(case)' = Reachable(case)
<1>1. case' = case
  BY DEF Next, SearchStep, vars, RejectUnknownGuard, ReportDirtySnapshot, StartSearch,
         Dequeue, Skip, FindRegeneration, Discover, ExceedLimit, Exhaust, Return, RunWorkflow
<1>2. \A p, s : Leads(p, s)' <=> Leads(p, s)
  BY <1>1 DEF Leads, Replay
<1>3. \A n : Within(n)' = Within(n)
  BY <1>1 DEF Within
<1>. QED  BY <1>1, <1>2, <1>3

\* What the inner loop finds is one step from a visited state.
LEMMA FoundByStep ==
  ASSUME ExactInv, NEW t \in TransitionIds, IsNext(t), IsNew(t)
  PROVE  /\ case \in Case /\ current \in Entry /\ NextState(t) \in SUBSET Facts
         /\ t \in Unguarded(case) /\ current.state \in visited
         /\ NextState(t) \in Reachable(case) /\ NextState(t) \notin visited
         /\ Leads(Append(current.path, t), NextState(t))
<1>1. /\ case \in Case /\ current \in Entry /\ pc = "search" /\ t \in pending
      /\ visited \subseteq Reachable(case)
  BY DEF ExactInv, IInv, TypeOK, IsNext
<1>2. /\ t \in Unguarded(case) /\ current.state \in visited
      /\ Leads(current.path, current.state)
  BY <1>1 DEF ExactInv, EntriesLead
<1>3. Moves(case.workflows[t], current.state) /\ ~ HoldsSubjectData(current.state)
  BY <1>2 DEF IsNew, ExactInv, IInv, VisitedIsClean
<1>. DEFINE s == current.state
<1>4. s \in SUBSET Facts /\ current.path \in Seq(TransitionIds)
  BY <1>1 DEF Entry
<1>5. NextState(t) \in SUBSET Facts
  <2>. HIDE DEF s
  <2>1. Result(case.workflows[t], s) \in SUBSET Facts
    BY <1>1, <1>4, ResultType
  <2>. QED  BY <2>1 DEF NextState, s
<1>6. NextState(t) \in Reachable(case)
  <2>1. s \in Reachable(case) /\ Enables(case.workflows[t], s)
    BY <1>1, <1>2, <1>3 DEF Moves
  <2>2. Result(case.workflows[t], s) \in Successors(case, Reachable(case))
    BY <1>2, <2>1 DEF Successors
  <2>. QED  BY <1>1, <2>2, ReachableIsLeast DEF NextState
<1>7. Leads(Append(current.path, t), NextState(t))
  BY <1>1, <1>2, <1>3, <1>4, LeadsOn DEF NextState
<1>. QED  BY <1>1, <1>2, <1>5, <1>6, <1>7 DEF IsNew

LEMMA StepVisitedIsReachable ==
  ExactInv /\ [Next]_vars => (visited \subseteq Reachable(case))'
<1>. SUFFICES ASSUME ExactInv, [Next]_vars PROVE visited' \subseteq Reachable(case)
  BY SameCase
<1>1. visited \subseteq Reachable(case) /\ case \in Case
  BY DEF ExactInv, IInv, TypeOK
<1>2. CASE StartSearch
  BY <1>1, <1>2, ReachableIsLeast DEF StartSearch
<1>3. ASSUME NEW t \in TransitionIds, Discover(t) \/ ExceedLimit(t)
      PROVE  visited' \subseteq Reachable(case)
  <2>1. IsNext(t) /\ IsNew(t) /\ visited' = visited \union {NextState(t)}
    BY <1>3 DEF Discover, ExceedLimit
  <2>2. NextState(t) \in Reachable(case)
    BY <2>1, FoundByStep
  <2>. QED  BY <1>1, <2>1, <2>2
<1>4. CASE visited' = visited
  BY <1>1, <1>4
<1>. QED
  BY <1>2, <1>3, <1>4 DEF Next, SearchStep, vars, RejectUnknownGuard,
     ReportDirtySnapshot, Dequeue, Skip, FindRegeneration, Exhaust, RunWorkflow

LEMMA StepNotStarted == ExactInv /\ [Next]_vars => NotStarted'
<1>. SUFFICES ASSUME NotStarted, [Next]_vars PROVE NotStarted'
  BY DEF ExactInv
<1>1. CASE UNCHANGED <<pc, queue, visited, current, pending>>
  BY <1>1 DEF NotStarted
<1>2. CASE pc' # "check"
  BY <1>2 DEF NotStarted
<1>. QED
  BY <1>1, <1>2 DEF Next, SearchStep, vars, RejectUnknownGuard, ReportDirtySnapshot,
     StartSearch, Dequeue, Skip, IsNext, FindRegeneration, Discover, ExceedLimit,
     Exhaust, Return, RunWorkflow

\* Appending to a queue: every entry is an old one, in its place, or the new one.
LEMMA AppendCases ==
  ASSUME NEW q \in Seq(Entry), NEW e \in Entry, NEW r, r = Append(q, e)
  PROVE  /\ r \in Seq(Entry) /\ Len(q) \in Nat /\ Len(r) = Len(q) + 1
         /\ \A i \in 1..Len(r) : (i \in 1..Len(q) /\ r[i] = q[i]) \/ (i = Len(r) /\ r[i] = e)
OBVIOUS

\* Taking the head off a queue: every entry is one of those after the head.
LEMMA TailCases ==
  ASSUME NEW q \in Seq(Entry), q # <<>>
  PROVE  /\ 1 \in 1..Len(q) /\ Head(q) = q[1] /\ Head(q) \in Entry /\ Tail(q) \in Seq(Entry)
         /\ \A i \in 1..Len(Tail(q)) : i + 1 \in 1..Len(q) /\ Tail(q)[i] = q[i + 1]
OBVIOUS

LEMMA StepEntriesLead == ExactInv /\ [Next]_vars => EntriesLead'
<1>. SUFFICES ASSUME ExactInv, [Next]_vars PROVE EntriesLead'
  OBVIOUS
<1>0. /\ EntriesLead /\ queue \in Seq(Entry) /\ case \in Case
  BY DEF ExactInv, IInv, TypeOK
<1>1. CASE UNCHANGED <<pc, queue, visited, current, pending>>
  BY <1>0, <1>1, SameCase DEF EntriesLead
<1>2. CASE pc' # "search"
  BY <1>2 DEF EntriesLead
<1>3. CASE StartSearch
  <2>. DEFINE e == [state |-> case.snapshot, path |-> <<>>]
  <2>1. queue' = << e >> /\ visited' = {case.snapshot} /\ pending' = {}
    BY <1>3 DEF StartSearch, ExactInv, NotStarted
  <2>2. e.state = case.snapshot /\ Leads(e.path, e.state)
    BY <1>0, EmptyLeads
  <2>. HIDE DEF e
  <2>3. \A i \in 1..Len(queue') : queue'[i] = e
    BY <2>1
  <2>. QED  BY <2>1, <2>2, <2>3, SameCase DEF EntriesLead
<1>4. CASE Dequeue
  <2>1. /\ pc = "search" /\ queue # <<>> /\ current' = Head(queue) /\ queue' = Tail(queue)
        /\ pending' = Unguarded(case) /\ visited' = visited
    BY <1>4 DEF Dequeue
  <2>2. \A i \in 1..Len(queue) :
          queue[i].state \in visited /\ Leads(queue[i].path, queue[i].state)
    BY <1>0, <2>1 DEF EntriesLead
  <2>3. /\ current' = queue[1] /\ 1 \in 1..Len(queue)
        /\ \A i \in 1..Len(queue') : i + 1 \in 1..Len(queue) /\ queue'[i] = queue[i + 1]
    BY <1>0, <2>1, TailCases
  <2>. QED  BY <2>1, <2>2, <2>3, SameCase DEF EntriesLead
<1>5. ASSUME NEW t \in TransitionIds, Skip(t) PROVE EntriesLead'
  BY <1>0, <1>5, SameCase DEF Skip, IsNext, EntriesLead
<1>6. ASSUME NEW t \in TransitionIds, Discover(t) PROVE EntriesLead'
  <2>. DEFINE e == [state |-> NextState(t), path |-> Append(current.path, t)]
  <2>1. /\ pc = "search" /\ IsNext(t) /\ IsNew(t) /\ t \in pending
        /\ visited' = visited \union {NextState(t)} /\ queue' = Append(queue, e)
        /\ pending' = pending \ {t} /\ current' = current
    BY <1>6 DEF Discover, IsNext
  <2>2. e \in Entry /\ e.state \in visited' /\ Leads(e.path, e.state)
    <3>1. /\ current \in Entry /\ NextState(t) \in SUBSET Facts
          /\ Leads(Append(current.path, t), NextState(t))
      BY <2>1, FoundByStep
    <3>2. Append(current.path, t) \in Seq(TransitionIds)
      BY <3>1 DEF Entry
    <3>. QED  BY <2>1, <3>1, <3>2 DEF Entry
  <2>. HIDE DEF e
  <2>3. \A i \in 1..Len(queue') : (i \in 1..Len(queue) /\ queue'[i] = queue[i]) \/ queue'[i] = e
    BY <1>0, <2>1, <2>2, AppendCases
  <2>4. \A i \in 1..Len(queue') :
          queue'[i].state \in visited' /\ Leads(queue'[i].path, queue'[i].state)
    BY <1>0, <2>1, <2>2, <2>3 DEF EntriesLead
  <2>. QED  BY <1>0, <2>1, <2>4, SameCase DEF EntriesLead
<1>. QED
  BY <1>1, <1>2, <1>3, <1>4, <1>5, <1>6 DEF Next, SearchStep, vars, RejectUnknownGuard,
     ReportDirtySnapshot, FindRegeneration, ExceedLimit, Exhaust, Return, RunWorkflow

LEMMA StepBreadthFirst == ExactInv /\ [Next]_vars => BreadthFirst'
<1>. SUFFICES ASSUME ExactInv, [Next]_vars PROVE BreadthFirst'
  OBVIOUS
<1>0. /\ BreadthFirst /\ queue \in Seq(Entry) /\ case \in Case /\ current \in Entry
      /\ visited \in SUBSET (SUBSET Facts)
  BY DEF ExactInv, IInv, TypeOK
<1>a. /\ Len(current.path) \in Nat
      /\ \A i \in 1..Len(queue) : Len(queue[i].path) \in Nat
  BY <1>0 DEF Entry
<1>1. CASE UNCHANGED <<pc, queue, visited, current>>
  BY <1>0, <1>1, SameCase DEF BreadthFirst
<1>2. CASE pc' # "search"
  BY <1>2 DEF BreadthFirst
<1>3. CASE StartSearch
  <2>. DEFINE e == [state |-> case.snapshot, path |-> <<>>]
  <2>1. queue' = << e >> /\ visited' = {case.snapshot} /\ current' = NoWitness
    BY <1>3 DEF StartSearch, ExactInv, NotStarted
  <2>2. Len(e.path) = 0 /\ Len(NoWitness.path) = 0 /\ Within(0) = {case.snapshot}
    BY <1>0, Levels DEF NoWitness, Within
  <2>. HIDE DEF e
  <2>3. \A i \in 1..Len(queue') : queue'[i] = e
    BY <2>1
  <2>. QED  BY <2>1, <2>2, <2>3, SameCase DEF BreadthFirst
<1>4. CASE Dequeue
  <2>1. /\ pc = "search" /\ queue # <<>> /\ current' = Head(queue) /\ queue' = Tail(queue)
        /\ pending = {} /\ visited' = visited
    BY <1>4 DEF Dequeue
  <2>. DEFINE d == Len(current.path)  e == Len(queue[1].path)
  <2>2. \A i \in 1..Len(queue) :
          /\ d <= Len(queue[i].path)
          /\ Len(queue[i].path) <= d + 1
          /\ \A j \in 1..Len(queue) : i <= j => Len(queue[i].path) <= Len(queue[j].path)
          /\ \A n \in 0..(Len(queue[i].path) - 1) : queue[i].state \notin Within(n)
    BY <1>0, <2>1 DEF BreadthFirst
  <2>3. /\ current' = queue[1] /\ 1 \in 1..Len(queue)
        /\ \A i \in 1..Len(queue') : i + 1 \in 1..Len(queue) /\ queue'[i] = queue[i + 1]
    BY <1>0, <2>1, TailCases
  <2>4. \A n \in 0..d : Within(n) \subseteq visited
    BY <1>0, <2>1 DEF BreadthFirst
  <2>5. e = d \/ e = d + 1
    BY <1>a, <2>2, <2>3
  \* Before the first path that is one longer, the level before is expanded.
  <2>6. ASSUME e = d + 1, NEW s \in Within(d) PROVE Expanded(s)
    <3>1. s \in visited
      BY <1>a, <2>4, <2>6
    <3>2. s \notin Queued
      <4>. SUFFICES ASSUME NEW i \in 1..Len(queue), queue[i].state = s PROVE FALSE
        BY DEF Queued, States
      <4>1. 1 <= i /\ e <= Len(queue[i].path)
        BY <2>2, <2>3
      <4>2. d \in 0..(Len(queue[i].path) - 1)
        BY <1>a, <2>6, <4>1
      <4>. QED  BY <2>2, <2>6, <4>2
    <3>3. report.verdict = "NONE"
      BY <2>1 DEF ExactInv, IInv, Finished, Running
    <3>. QED  BY <2>1, <3>1, <3>2, <3>3 DEF ExactInv, IInv, Frontier, Expanded
  <2>7. ASSUME e = d + 1 PROVE Within(e) \subseteq visited
    <3>1. Within(e) = Within(d) \union Successors(case, Within(d))
      BY <1>0, <1>a, <2>7, Levels DEF Within
    <3>2. Successors(case, Within(d)) \subseteq visited
      BY <2>6, <2>7 DEF Successors, Expanded
    <3>. QED  BY <1>a, <2>4, <3>1, <3>2
  <2>8. \A n \in 0..e : Within(n) \subseteq visited
    <3>. SUFFICES ASSUME NEW n \in 0..e PROVE Within(n) \subseteq visited
      OBVIOUS
    <3>1. n \in 0..d \/ (n = e /\ e = d + 1)
      BY <1>a, <2>5
    <3>. QED  BY <2>4, <2>7, <3>1
  <2>9. \A i \in 1..Len(queue') :
          /\ e <= Len(queue'[i].path)
          /\ Len(queue'[i].path) <= e + 1
          /\ \A j \in 1..Len(queue') : i <= j => Len(queue'[i].path) <= Len(queue'[j].path)
          /\ \A n \in 0..(Len(queue'[i].path) - 1) : queue'[i].state \notin Within(n)
    <3>. SUFFICES ASSUME NEW i \in 1..Len(queue')
         PROVE  /\ e <= Len(queue'[i].path)
                /\ Len(queue'[i].path) <= e + 1
                /\ \A j \in 1..Len(queue') : i <= j => Len(queue'[i].path) <= Len(queue'[j].path)
                /\ \A n \in 0..(Len(queue'[i].path) - 1) : queue'[i].state \notin Within(n)
      OBVIOUS
    <3>1. i + 1 \in 1..Len(queue) /\ queue'[i] = queue[i + 1] /\ 1 <= i + 1
      BY <2>3
    <3>2. Len(queue[i + 1].path) \in Nat /\ e \in Nat /\ d \in Nat
      BY <1>a, <2>3, <3>1
    <3>3. e <= Len(queue[i + 1].path) /\ Len(queue[i + 1].path) <= d + 1
      BY <2>2, <2>3, <3>1
    <3>4. ASSUME NEW j \in 1..Len(queue'), i <= j
          PROVE  Len(queue'[i].path) <= Len(queue'[j].path)
      <4>1. j + 1 \in 1..Len(queue) /\ queue'[j] = queue[j + 1] /\ i + 1 <= j + 1
        BY <2>3, <3>4
      <4>. QED  BY <2>2, <3>1, <4>1
    <3>. HIDE DEF d, e
    <3>. QED  BY <2>2, <2>5, <3>1, <3>2, <3>3, <3>4
  <2>10. Len(current'.path) = e
    BY <2>3
  <2>. HIDE DEF d, e
  <2>. QED  BY <2>1, <2>8, <2>9, <2>10, SameCase DEF BreadthFirst
<1>5. ASSUME NEW t \in TransitionIds, Skip(t) PROVE BreadthFirst'
  BY <1>1, <1>5 DEF Skip
<1>6. ASSUME NEW t \in TransitionIds, Discover(t) PROVE BreadthFirst'
  <2>. DEFINE e == [state |-> NextState(t), path |-> Append(current.path, t)]
              d == Len(current.path)
  <2>1. /\ pc = "search" /\ IsNext(t) /\ IsNew(t)
        /\ visited' = visited \union {NextState(t)} /\ queue' = Append(queue, e)
        /\ current' = current
    BY <1>6 DEF Discover, IsNext
  <2>2. \A i \in 1..Len(queue) :
          /\ d <= Len(queue[i].path)
          /\ Len(queue[i].path) <= d + 1
          /\ \A j \in 1..Len(queue) : i <= j => Len(queue[i].path) <= Len(queue[j].path)
          /\ \A n \in 0..(Len(queue[i].path) - 1) : queue[i].state \notin Within(n)
    BY <1>0, <2>1 DEF BreadthFirst
  <2>3. \A n \in 0..d : Within(n) \subseteq visited
    BY <1>0, <2>1 DEF BreadthFirst
  <2>4. /\ e \in Entry /\ Len(e.path) = d + 1
        /\ \A n \in 0..d : e.state \notin Within(n)
    <3>1. NextState(t) \in SUBSET Facts /\ NextState(t) \notin visited
      BY <2>1, FoundByStep
    <3>2. Append(current.path, t) \in Seq(TransitionIds) /\ Len(Append(current.path, t)) = d + 1
      BY <1>0 DEF Entry
    <3>. QED  BY <2>3, <3>1, <3>2 DEF Entry
  <2>5. d \in Nat
    BY <1>a
  <2>. HIDE DEF e, d
  <2>6. /\ Len(queue) \in Nat /\ Len(queue') = Len(queue) + 1
        /\ \A i \in 1..Len(queue') :
             (i \in 1..Len(queue) /\ queue'[i] = queue[i]) \/ (i = Len(queue') /\ queue'[i] = e)
    BY <1>0, <2>1, <2>4, AppendCases
  <2>7. ASSUME NEW i \in 1..Len(queue')
        PROVE  /\ d <= Len(queue'[i].path)
               /\ Len(queue'[i].path) <= d + 1
               /\ \A j \in 1..Len(queue') : i <= j => Len(queue'[i].path) <= Len(queue'[j].path)
               /\ \A n \in 0..(Len(queue'[i].path) - 1) : queue'[i].state \notin Within(n)
    <3>1. CASE i \in 1..Len(queue) /\ queue'[i] = queue[i]
      <4>1. ASSUME NEW j \in 1..Len(queue'), i <= j
            PROVE  Len(queue'[i].path) <= Len(queue'[j].path)
        BY <2>2, <2>4, <2>6, <3>1, <4>1
      <4>. QED  BY <2>2, <3>1, <4>1
    <3>2. CASE i = Len(queue') /\ queue'[i] = e
      <4>1. ASSUME NEW j \in 1..Len(queue'), i <= j PROVE j = i
        BY <2>6, <3>2, <4>1
      <4>2. (d + 1) - 1 = d /\ d <= d + 1 /\ d + 1 <= d + 1
        BY <2>5
      <4>. QED  BY <2>4, <3>2, <4>1, <4>2
    <3>. QED  BY <2>6, <3>1, <3>2
  <2>8. Len(current'.path) = d
    BY <2>1 DEF d
  <2>9. \A n \in 0..d : Within(n) \subseteq visited'
    BY <2>1, <2>3
  <2>. QED  BY <2>7, <2>8, <2>9, SameCase DEF BreadthFirst
<1>. QED
  BY <1>1, <1>2, <1>3, <1>4, <1>5, <1>6 DEF Next, SearchStep, vars, RejectUnknownGuard,
     ReportDirtySnapshot, FindRegeneration, ExceedLimit, Exhaust, Return, RunWorkflow

\* While the search has not returned, no answer is out.
LEMMA NoAnswerYet ==
  ASSUME ExactInv, pc # "returned"
  PROVE  report = Running
BY DEF ExactInv, IInv, Finished

LEMMA StepAnswers == ExactInv /\ [Next]_vars => Answers'
<1>. SUFFICES ASSUME ExactInv, [Next]_vars PROVE Answers'
  OBVIOUS
<1>0. /\ Answers /\ case \in Case /\ case' = case /\ current \in Entry
      /\ visited \in SUBSET (SUBSET Facts)
  BY SameCase DEF ExactInv, IInv, TypeOK
<1>1. CASE report' = Running
  BY <1>1 DEF Answers, Running, Verdicts
<1>2. CASE UNCHANGED <<report, visited>>
  BY <1>0, <1>2, SameCase DEF Answers
<1>3. CASE RejectUnknownGuard
  <2>1. ~ (case.guarded \subseteq case.registered) /\ report'.verdict = "RAISED"
    BY <1>3 DEF RejectUnknownGuard, Return, Raised
  <2>. QED  BY <1>0, <2>1 DEF Answers
<1>4. CASE ReportDirtySnapshot
  <2>1. HoldsSubjectData(case.snapshot) /\ report'.verdict = "SNAPSHOT_INCOMPLETE"
    BY <1>4 DEF ReportDirtySnapshot, Return
  <2>. QED  BY <1>0, <2>1 DEF Answers
<1>5. CASE StartSearch
  BY <1>1, <1>5, NoAnswerYet DEF StartSearch
<1>6. ASSUME NEW t \in TransitionIds, Discover(t) PROVE Answers'
  BY <1>1, <1>6, NoAnswerYet DEF Discover, IsNext
<1>7. ASSUME NEW t \in TransitionIds, FindRegeneration(t) PROVE Answers'
  <2>. DEFINE path == Append(current.path, t)
  <2>1. /\ IsNext(t) /\ IsNew(t) /\ pc = "search" /\ HoldsSubjectData(NextState(t))
        /\ visited' = visited /\ report'.verdict = "REGENERATION_RISK"
        /\ report'.witness.state = NextState(t) /\ report'.witness.path = path
    BY <1>7 DEF FindRegeneration, IsNext, Return
  <2>2. Leads(path, NextState(t)) /\ NextState(t) \in Reachable(case)
    BY <2>1, FoundByStep
  <2>3. Len(path) - 1 = Len(current.path)
    BY <1>0 DEF Entry
  <2>4. \A n \in 0..(Len(path) - 1) : Within(n) \subseteq visited
    BY <2>1, <2>3 DEF ExactInv, BreadthFirst
  <2>. HIDE DEF path
  <2>. QED  BY <2>1, <2>2, <2>4, SameCase DEF Answers
<1>8. ASSUME NEW t \in TransitionIds, ExceedLimit(t) PROVE Answers'
  <2>1. report'.verdict = "RAISED" /\ Cardinality(visited') > MaxReachableStates
    BY <1>8 DEF ExceedLimit, Return, Raised
  <2>. QED  BY <2>1 DEF Answers
<1>9. CASE Exhaust
  <2>1. /\ visited' = visited /\ report'.count = Cardinality(visited)
        /\ report'.verdict = IF CoverageComplete(case) THEN "RSE_VERIFIED"
                             ELSE "INCOMPLETE_COVERAGE"
    BY <1>9 DEF Exhaust, Return
  <2>2. report'.verdict = "RSE_VERIFIED" <=> CoverageComplete(case)
    BY <2>1
  <2>. QED  BY <1>0, <2>1, <2>2 DEF Answers
<1>. QED
  BY <1>2, <1>3, <1>4, <1>5, <1>6, <1>7, <1>8, <1>9
     DEF Next, SearchStep, vars, Dequeue, Skip, RunWorkflow

\* The states within any number of steps are reachable, and there are no more
\* of them than reachable states.
LEMMA ReachableIsFinite ==
  ASSUME NEW c \in Case, NEW V, V \subseteq Reachable(c)
  PROVE  /\ Cardinality(V) \in Nat /\ Cardinality(Reachable(c)) \in Nat
         /\ Cardinality(V) <= Cardinality(Reachable(c))
<1>1. Reachable(c) \in SUBSET (SUBSET Facts)
  BY ReachableIsLeast
<1>2. IsFiniteSet(Reachable(c))
  BY <1>1, FactsAreFinite, FS_SUBSET, FS_Subset
<1>. QED  BY <1>2, FS_Subset, FS_CardinalityType

\* A search that left nothing to expand has visited what is reachable.
LEMMA ExhaustedIsAll ==
  ASSUME ExactInv, report.verdict \in {"RSE_VERIFIED", "INCOMPLETE_COVERAGE"}
  PROVE  visited = Reachable(case)
<1>1. /\ pc # "check" /\ queue = <<>> /\ pending = {}
      /\ case \in Case /\ visited \in SUBSET (SUBSET Facts) /\ visited \subseteq Reachable(case)
  BY DEF ExactInv, IInv, TypeOK, Finished, Running
<1>2. Queued = {}
  BY <1>1, StatesOfShort DEF Queued
<1>3. case.snapshot \in visited /\ \A s \in visited : Expanded(s)
  BY <1>1, <1>2 DEF ExactInv, IInv, Frontier, Expanded
<1>4. Successors(case, visited) \subseteq visited
  BY <1>3 DEF Successors, Expanded
<1>. QED  BY <1>1, <1>3, <1>4, ReachableIsLeast

\* The invariant carries the answer.  A clean answer saw every reachable state
\* and all of them are clean; a risk shows a reachable state that is not, by a
\* run that nothing shorter replaces; an exceeded limit counted reachable states.
LEMMA ExactInvIsExact == ExactInv => AnswerIsExact
<1>. SUFFICES ASSUME ExactInv PROVE AnswerIsExact
  OBVIOUS
<1>0. /\ case \in Case /\ Answers /\ VisitedIsClean /\ visited \subseteq Reachable(case)
      /\ pc # "returned" => report = Running
  BY DEF ExactInv, IInv, TypeOK, Finished
<1>1. ASSUME report.verdict \in {"RSE_VERIFIED", "INCOMPLETE_COVERAGE", "REGENERATION_RISK"}
      PROVE  ~ HoldsSubjectData(case.snapshot)
  <2>1. pc # "check"
    BY <1>0, <1>1 DEF Running
  <2>2. case.snapshot \in visited
    BY <1>1, <2>1 DEF ExactInv, IInv, Frontier
  <2>. QED  BY <1>0, <2>2 DEF VisitedIsClean
<1>2. CASE report.verdict \in {"RSE_VERIFIED", "INCOMPLETE_COVERAGE"}
  <2>1. visited = Reachable(case)
    BY <1>2, ExhaustedIsAll
  <2>2. StaysClean(case)
    BY <1>0, <2>1, ReachableIsLeast DEF StaysClean, VisitedIsClean
  <2>3. /\ report.count = Cardinality(visited)
        /\ report.verdict = "RSE_VERIFIED" <=> CoverageComplete(case)
    BY <1>0, <1>2 DEF Answers
  <2>4. report.verdict = RSEVerdict(case)
    BY <1>1, <1>2, <2>2, <2>3 DEF RSEVerdict
  <2>5. AnswerMatchesReachability
    BY <1>2, <2>1, <2>3, <2>4 DEF AnswerMatchesReachability
  <2>6. WitnessIsShortest
    BY <1>2 DEF WitnessIsShortest
  <2>. QED  BY <2>5, <2>6 DEF AnswerIsExact
<1>3. CASE report.verdict = "REGENERATION_RISK"
  <2>1. /\ Leads(report.witness.path, report.witness.state)
        /\ HoldsSubjectData(report.witness.state)
        /\ report.witness.state \in Reachable(case)
        /\ \A n \in 0..(Len(report.witness.path) - 1) : Within(n) \subseteq visited
    BY <1>0, <1>3 DEF Answers
  <2>2. ~ StaysClean(case)
    BY <2>1 DEF StaysClean
  <2>3. report.verdict = RSEVerdict(case)
    BY <1>1, <1>3, <2>2 DEF RSEVerdict
  <2>4. AnswerMatchesReachability
    BY <1>3, <2>3 DEF AnswerMatchesReachability
  <2>5. \A n \in 0..(Len(report.witness.path) - 1) :
          \A s \in ReachableWithin(case, n) : ~ HoldsSubjectData(s)
    BY <1>0, <2>1 DEF Within, VisitedIsClean
  <2>6. WitnessIsShortest
    BY <2>1, <2>5 DEF WitnessIsShortest, Leads
  <2>. QED  BY <2>4, <2>6 DEF AnswerIsExact
<1>4. CASE report.verdict = "SNAPSHOT_INCOMPLETE"
  <2>1. report.verdict = RSEVerdict(case)
    BY <1>0, <1>4 DEF Answers, RSEVerdict
  <2>. QED  BY <1>4, <2>1 DEF AnswerIsExact, AnswerMatchesReachability, WitnessIsShortest
<1>5. CASE report.verdict = "RAISED"
  <2>1. ASSUME case.guarded \subseteq case.registered
        PROVE  Cardinality(Reachable(case)) > MaxReachableStates
    <3>1. Cardinality(visited) > MaxReachableStates
      BY <1>0, <1>5, <2>1 DEF Answers
    <3>2. /\ Cardinality(visited) \in Nat /\ Cardinality(Reachable(case)) \in Nat
          /\ Cardinality(visited) <= Cardinality(Reachable(case))
      BY <1>0, ReachableIsFinite
    <3>. QED  BY <3>1, <3>2, LimitAssumption
  <2>. QED  BY <1>5, <2>1 DEF AnswerIsExact, AnswerMatchesReachability, WitnessIsShortest, Verdicts
<1>6. CASE report.verdict = "NONE"
  BY <1>6 DEF AnswerIsExact, AnswerMatchesReachability, WitnessIsShortest, Verdicts
<1>7. report.verdict \in Verdicts \union {"NONE", "RAISED"}
  BY DEF ExactInv, IInv, TypeOK
<1>. QED  BY <1>2, <1>3, <1>4, <1>5, <1>6, <1>7 DEF Verdicts

\* Init is the start of a search that has answered nothing.
LEMMA InitExactInv == Init => ExactInv
BY InitIInv DEF Init, ExactInv, NotStarted, EntriesLead, BreadthFirst, Answers, Running

\* Whatever evaluate_rse answers is what the reachable states define, however
\* many there are: the verdict, the states it counted, a shortest run as the
\* witness of a risk, and an exceeded limit only when the limit is exceeded.
THEOREM AnswerIsAlwaysExact == Spec => []AnswerIsExact
<1>1. ExactInv /\ [Next]_vars => ExactInv'
  <2>. SUFFICES ASSUME ExactInv, [Next]_vars PROVE ExactInv'
    OBVIOUS
  <2>1. IInv'
    BY StepTypeOK, StepFrontier, StepVisitedIsClean, StepFinished,
       StepWorldIsReachable DEF IInv, ExactInv
  <2>. QED  BY <2>1, StepVisitedIsReachable, StepNotStarted, StepEntriesLead,
               StepBreadthFirst, StepAnswers DEF ExactInv
<1>2. Init /\ [][Next]_vars => []ExactInv
  BY InitExactInv, <1>1, PTL
<1>. QED  BY <1>2, ExactInvIsExact, PTL DEF Spec

-----------------------------------------------------------------------------
(* The steps of a case of the transfer campaign.                            *)

FamilyNames == {"keycloak", "mlflow", "qdrant"}
FaultNames == {"safe_native", "surviving_derivative", "recovery_regeneration", "coverage_fault"}
KeycloakVerbs == {"start", "wait", "token", "putRetained", "stopGracefully", "export", "findSubject",
                  "stop", "import", "bootstrap", "finally"}
CaseVerbs ==
  KeycloakVerbs \union
  {"mark", "create", "putSubject", "countBefore", "logArtifact", "snapshot", "nativeDelete",
   "lookPrimary", "lookDerivative", "recover", "lookRecovered", "countAfter", "control", "purge",
   "lookAgain", "countLast", "record"}

\* When a case of Keycloak has its service.
KeycloakUp ==
  [safe_native |-> 3..17, surviving_derivative |-> 3..9 \union 12..23,
   recovery_regeneration |-> 3..9 \union 12..18 \union 22..30,
   coverage_fault |-> 3..9 \union 12..18]

\* What each step of a case says of the family, the fault and the place.
Belongs(T, family, fault) ==
  /\ Len(T) \in Nat /\ Len(T) > 6 /\ T[1] = "mark" /\ T[3] \in DOMAIN Setup
  /\ \A n \in 1..Len(T) :
       /\ T[n] \in CaseVerbs
       /\ T[n] \in KeycloakVerbs => family = "keycloak"
       /\ T[n] = "mark" => n = 1
       /\ T[n] = "finally" <=> family = "keycloak" /\ n = Len(T)
       /\ T[n] = "record" <=> n = (IF family = "keycloak" THEN Len(T) - 1 ELSE Len(T))
       /\ T[n] \in {"recover", "import", "lookRecovered", "stop", "bootstrap"} =>
            fault = "recovery_regeneration"
       /\ T[n] = "snapshot" =>
            family = "qdrant" /\ fault \in {"recovery_regeneration", "coverage_fault"}
       /\ T[n] = "logArtifact" => family = "mlflow"
       /\ T[n] = "recover" => family # "keycloak"
       /\ T[n] = "lookDerivative" => fault # "coverage_fault"

\* Keycloak runs from start to stop.
ServiceRuns(T, fault) ==
  \A n \in 1..Len(T) :
    /\ T[n] = "start" => n \notin KeycloakUp[fault] /\ n + 1 \in KeycloakUp[fault]
    /\ n \in KeycloakUp[fault] => T[n] \notin {"export", "import", "bootstrap"}
    /\ n \in KeycloakUp[fault] /\ T[n] \notin {"stop", "stopGracefully", "finally"} =>
         n + 1 \in KeycloakUp[fault]

\* The order of the looks and the controls.
InOrder(T) ==
  \A i, j \in 1..Len(T) : i < j =>
    /\ T[j] \in {"putSubject", "snapshot", "logArtifact", "export", "nativeDelete", "lookPrimary"} =>
         T[i] \notin {"lookPrimary", "lookDerivative", "recover", "lookRecovered", "control",
                      "purge", "lookAgain"}
    /\ T[j] = "lookDerivative" =>
         T[i] \notin {"lookDerivative", "recover", "lookRecovered", "control", "purge", "lookAgain"}
    /\ T[j] \in {"recover", "import"} =>
         T[i] \notin {"recover", "lookRecovered", "control", "purge", "lookAgain"}
    /\ T[j] = "lookRecovered" => T[i] \notin {"lookRecovered", "control", "purge", "lookAgain"}
    /\ T[j] = "control" => T[i] \notin {"control", "purge", "lookAgain"}
    /\ T[j] = "purge" => T[i] \notin {"purge", "lookAgain"}
    /\ T[j] = "lookAgain" => T[i] # "lookAgain"

\* What has been done when the case writes its record.
Before(T, n, op) == \E i \in 1..(n - 1) : T[i] = op
IsComplete(T, family, fault) ==
  \A n \in 1..Len(T) :
    /\ T[n] = "lookRecovered" /\ family = "qdrant" => Before(T, n, "recover")
    /\ T[n] = "record" => Before(T, n, "lookPrimary")
    /\ T[n] = "record" /\ fault # "coverage_fault" =>
         Before(T, n, "lookDerivative") /\ Before(T, n, "purge") /\ Before(T, n, "lookAgain")
    /\ T[n] = "record" /\ fault = "recovery_regeneration" => Before(T, n, "lookRecovered")

\* Where each step of a case stands.
LEMMA QdrantPlainTurns ==
  /\ Len(QdrantPlain) = 13
  /\ \A n \in 1..13 :
       /\ QdrantPlain[n] = "mark" <=> n = 1
       /\ QdrantPlain[n] = "create" <=> n = 2
       /\ QdrantPlain[n] = "putSubject" <=> n = 3
       /\ QdrantPlain[n] = "countBefore" <=> n = 4
       /\ QdrantPlain[n] = "nativeDelete" <=> n = 5
       /\ QdrantPlain[n] = "lookPrimary" <=> n = 6
       /\ QdrantPlain[n] = "lookDerivative" <=> n = 7
       /\ QdrantPlain[n] = "countAfter" <=> n = 8
       /\ QdrantPlain[n] = "control" <=> n = 9
       /\ QdrantPlain[n] = "purge" <=> n = 10
       /\ QdrantPlain[n] = "lookAgain" <=> n = 11
       /\ QdrantPlain[n] = "countLast" <=> n = 12
       /\ QdrantPlain[n] = "record" <=> n = 13
BY DEF QdrantPlain

LEMMA QdrantReplayTurns ==
  /\ Len(QdrantReplay) = 16
  /\ \A n \in 1..16 :
       /\ QdrantReplay[n] = "mark" <=> n = 1
       /\ QdrantReplay[n] = "create" <=> n = 2
       /\ QdrantReplay[n] = "putSubject" <=> n = 3
       /\ QdrantReplay[n] = "countBefore" <=> n = 4
       /\ QdrantReplay[n] = "snapshot" <=> n = 5
       /\ QdrantReplay[n] = "nativeDelete" <=> n = 6
       /\ QdrantReplay[n] = "lookPrimary" <=> n = 7
       /\ QdrantReplay[n] = "lookDerivative" <=> n = 8
       /\ QdrantReplay[n] = "recover" <=> n = 9
       /\ QdrantReplay[n] = "lookRecovered" <=> n = 10
       /\ QdrantReplay[n] = "countAfter" <=> n = 11
       /\ QdrantReplay[n] = "control" <=> n = 12
       /\ QdrantReplay[n] = "purge" <=> n = 13
       /\ QdrantReplay[n] = "lookAgain" <=> n = 14
       /\ QdrantReplay[n] = "countLast" <=> n = 15
       /\ QdrantReplay[n] = "record" <=> n = 16
BY DEF QdrantReplay

LEMMA QdrantUncheckedTurns ==
  /\ Len(QdrantUnchecked) = 9
  /\ \A n \in 1..9 :
       /\ QdrantUnchecked[n] = "mark" <=> n = 1
       /\ QdrantUnchecked[n] = "create" <=> n = 2
       /\ QdrantUnchecked[n] = "putSubject" <=> n = 3
       /\ QdrantUnchecked[n] = "countBefore" <=> n = 4
       /\ QdrantUnchecked[n] = "snapshot" <=> n = 5
       /\ QdrantUnchecked[n] = "nativeDelete" <=> n = 6
       /\ QdrantUnchecked[n] = "lookPrimary" <=> n = 7
       /\ QdrantUnchecked[n] = "countLast" <=> n = 8
       /\ QdrantUnchecked[n] = "record" <=> n = 9
BY DEF QdrantUnchecked

LEMMA KeycloakPlainTurns ==
  /\ Len(KeycloakPlain) = 17
  /\ \A n \in 1..17 :
       /\ KeycloakPlain[n] = "mark" <=> n = 1
       /\ KeycloakPlain[n] = "start" <=> n = 2
       /\ KeycloakPlain[n] = "wait" <=> n = 3
       /\ KeycloakPlain[n] = "token" <=> n = 4
       /\ KeycloakPlain[n] = "create" <=> n = 5
       /\ KeycloakPlain[n] = "putSubject" <=> n = 6
       /\ KeycloakPlain[n] = "putRetained" <=> n = 7
       /\ KeycloakPlain[n] = "countBefore" <=> n = 8
       /\ KeycloakPlain[n] = "nativeDelete" <=> n = 9
       /\ KeycloakPlain[n] = "lookPrimary" <=> n = 10
       /\ KeycloakPlain[n] = "lookDerivative" <=> n = 11
       /\ KeycloakPlain[n] = "countAfter" <=> n = 12
       /\ KeycloakPlain[n] = "control" <=> n = 13
       /\ KeycloakPlain[n] = "purge" <=> n = 14
       /\ KeycloakPlain[n] = "lookAgain" <=> n = 15
       /\ KeycloakPlain[n] = "record" <=> n = 16
       /\ KeycloakPlain[n] = "finally" <=> n = 17
BY DEF KeycloakPlain

LEMMA KeycloakExportedTurns ==
  /\ Len(KeycloakExported) = 23
  /\ \A n \in 1..23 :
       /\ KeycloakExported[n] = "mark" <=> n = 1
       /\ KeycloakExported[n] = "start" <=> n \in {2, 11}
       /\ KeycloakExported[n] = "wait" <=> n \in {3, 12}
       /\ KeycloakExported[n] = "token" <=> n \in {4, 13}
       /\ KeycloakExported[n] = "create" <=> n = 5
       /\ KeycloakExported[n] = "putSubject" <=> n = 6
       /\ KeycloakExported[n] = "putRetained" <=> n = 7
       /\ KeycloakExported[n] = "countBefore" <=> n = 8
       /\ KeycloakExported[n] = "stopGracefully" <=> n = 9
       /\ KeycloakExported[n] = "export" <=> n = 10
       /\ KeycloakExported[n] = "findSubject" <=> n = 14
       /\ KeycloakExported[n] = "nativeDelete" <=> n = 15
       /\ KeycloakExported[n] = "lookPrimary" <=> n = 16
       /\ KeycloakExported[n] = "lookDerivative" <=> n = 17
       /\ KeycloakExported[n] = "countAfter" <=> n = 18
       /\ KeycloakExported[n] = "control" <=> n = 19
       /\ KeycloakExported[n] = "purge" <=> n = 20
       /\ KeycloakExported[n] = "lookAgain" <=> n = 21
       /\ KeycloakExported[n] = "record" <=> n = 22
       /\ KeycloakExported[n] = "finally" <=> n = 23
BY DEF KeycloakExported

LEMMA KeycloakReplayTurns ==
  /\ Len(KeycloakReplay) = 30
  /\ \A n \in 1..30 :
       /\ KeycloakReplay[n] = "mark" <=> n = 1
       /\ KeycloakReplay[n] = "start" <=> n \in {2, 11, 21}
       /\ KeycloakReplay[n] = "wait" <=> n \in {3, 12, 22}
       /\ KeycloakReplay[n] = "token" <=> n \in {4, 13, 23}
       /\ KeycloakReplay[n] = "create" <=> n = 5
       /\ KeycloakReplay[n] = "putSubject" <=> n = 6
       /\ KeycloakReplay[n] = "putRetained" <=> n = 7
       /\ KeycloakReplay[n] = "countBefore" <=> n = 8
       /\ KeycloakReplay[n] = "stopGracefully" <=> n = 9
       /\ KeycloakReplay[n] = "export" <=> n = 10
       /\ KeycloakReplay[n] = "findSubject" <=> n = 14
       /\ KeycloakReplay[n] = "nativeDelete" <=> n = 15
       /\ KeycloakReplay[n] = "lookPrimary" <=> n = 16
       /\ KeycloakReplay[n] = "lookDerivative" <=> n = 17
       /\ KeycloakReplay[n] = "stop" <=> n = 18
       /\ KeycloakReplay[n] = "import" <=> n = 19
       /\ KeycloakReplay[n] = "bootstrap" <=> n = 20
       /\ KeycloakReplay[n] = "lookRecovered" <=> n = 24
       /\ KeycloakReplay[n] = "countAfter" <=> n = 25
       /\ KeycloakReplay[n] = "control" <=> n = 26
       /\ KeycloakReplay[n] = "purge" <=> n = 27
       /\ KeycloakReplay[n] = "lookAgain" <=> n = 28
       /\ KeycloakReplay[n] = "record" <=> n = 29
       /\ KeycloakReplay[n] = "finally" <=> n = 30
BY DEF KeycloakReplay

LEMMA KeycloakUncheckedTurns ==
  /\ Len(KeycloakUnchecked) = 18
  /\ \A n \in 1..18 :
       /\ KeycloakUnchecked[n] = "mark" <=> n = 1
       /\ KeycloakUnchecked[n] = "start" <=> n \in {2, 11}
       /\ KeycloakUnchecked[n] = "wait" <=> n \in {3, 12}
       /\ KeycloakUnchecked[n] = "token" <=> n \in {4, 13}
       /\ KeycloakUnchecked[n] = "create" <=> n = 5
       /\ KeycloakUnchecked[n] = "putSubject" <=> n = 6
       /\ KeycloakUnchecked[n] = "putRetained" <=> n = 7
       /\ KeycloakUnchecked[n] = "countBefore" <=> n = 8
       /\ KeycloakUnchecked[n] = "stopGracefully" <=> n = 9
       /\ KeycloakUnchecked[n] = "export" <=> n = 10
       /\ KeycloakUnchecked[n] = "findSubject" <=> n = 14
       /\ KeycloakUnchecked[n] = "nativeDelete" <=> n = 15
       /\ KeycloakUnchecked[n] = "lookPrimary" <=> n = 16
       /\ KeycloakUnchecked[n] = "record" <=> n = 17
       /\ KeycloakUnchecked[n] = "finally" <=> n = 18
BY DEF KeycloakUnchecked

LEMMA MlflowPlainTurns ==
  /\ Len(MlflowPlain) = 11
  /\ \A n \in 1..11 :
       /\ MlflowPlain[n] = "mark" <=> n = 1
       /\ MlflowPlain[n] = "create" <=> n = 2
       /\ MlflowPlain[n] = "putSubject" <=> n = 3
       /\ MlflowPlain[n] = "logArtifact" <=> n = 4
       /\ MlflowPlain[n] = "nativeDelete" <=> n = 5
       /\ MlflowPlain[n] = "lookPrimary" <=> n = 6
       /\ MlflowPlain[n] = "lookDerivative" <=> n = 7
       /\ MlflowPlain[n] = "control" <=> n = 8
       /\ MlflowPlain[n] = "purge" <=> n = 9
       /\ MlflowPlain[n] = "lookAgain" <=> n = 10
       /\ MlflowPlain[n] = "record" <=> n = 11
BY DEF MlflowPlain

LEMMA MlflowReplayTurns ==
  /\ Len(MlflowReplay) = 13
  /\ \A n \in 1..13 :
       /\ MlflowReplay[n] = "mark" <=> n = 1
       /\ MlflowReplay[n] = "create" <=> n = 2
       /\ MlflowReplay[n] = "putSubject" <=> n = 3
       /\ MlflowReplay[n] = "logArtifact" <=> n = 4
       /\ MlflowReplay[n] = "nativeDelete" <=> n = 5
       /\ MlflowReplay[n] = "lookPrimary" <=> n = 6
       /\ MlflowReplay[n] = "lookDerivative" <=> n = 7
       /\ MlflowReplay[n] = "recover" <=> n = 8
       /\ MlflowReplay[n] = "lookRecovered" <=> n = 9
       /\ MlflowReplay[n] = "control" <=> n = 10
       /\ MlflowReplay[n] = "purge" <=> n = 11
       /\ MlflowReplay[n] = "lookAgain" <=> n = 12
       /\ MlflowReplay[n] = "record" <=> n = 13
BY DEF MlflowReplay

LEMMA MlflowUncheckedTurns ==
  /\ Len(MlflowUnchecked) = 7
  /\ \A n \in 1..7 :
       /\ MlflowUnchecked[n] = "mark" <=> n = 1
       /\ MlflowUnchecked[n] = "create" <=> n = 2
       /\ MlflowUnchecked[n] = "putSubject" <=> n = 3
       /\ MlflowUnchecked[n] = "logArtifact" <=> n = 4
       /\ MlflowUnchecked[n] = "nativeDelete" <=> n = 5
       /\ MlflowUnchecked[n] = "lookPrimary" <=> n = 6
       /\ MlflowUnchecked[n] = "record" <=> n = 7
BY DEF MlflowUnchecked

\* Every case has its steps where they belong and in their order.
LEMMA QdrantPlainIs ==
  /\ Belongs(QdrantPlain, "qdrant", "safe_native")
  /\ IsComplete(QdrantPlain, "qdrant", "safe_native")
  /\ Belongs(QdrantPlain, "qdrant", "surviving_derivative")
  /\ IsComplete(QdrantPlain, "qdrant", "surviving_derivative")
  /\ InOrder(QdrantPlain)
<1>1. Belongs(QdrantPlain, "qdrant", "safe_native")
  BY QdrantPlainTurns DEF Belongs, QdrantPlain, Setup, CaseVerbs, KeycloakVerbs
<1>2. IsComplete(QdrantPlain, "qdrant", "safe_native")
  BY QdrantPlainTurns DEF IsComplete, Before
<1>3. Belongs(QdrantPlain, "qdrant", "surviving_derivative")
  BY QdrantPlainTurns DEF Belongs, QdrantPlain, Setup, CaseVerbs, KeycloakVerbs
<1>4. IsComplete(QdrantPlain, "qdrant", "surviving_derivative")
  BY QdrantPlainTurns DEF IsComplete, Before
<1>5. InOrder(QdrantPlain)
  BY QdrantPlainTurns DEF InOrder
<1>. QED  BY <1>1, <1>2, <1>3, <1>4, <1>5

LEMMA QdrantReplayIs ==
  /\ Belongs(QdrantReplay, "qdrant", "recovery_regeneration")
  /\ IsComplete(QdrantReplay, "qdrant", "recovery_regeneration")
  /\ InOrder(QdrantReplay)
<1>1. Belongs(QdrantReplay, "qdrant", "recovery_regeneration")
  BY QdrantReplayTurns DEF Belongs, QdrantReplay, Setup, CaseVerbs, KeycloakVerbs
<1>2. IsComplete(QdrantReplay, "qdrant", "recovery_regeneration")
  BY QdrantReplayTurns DEF IsComplete, Before
<1>3. InOrder(QdrantReplay)
  BY QdrantReplayTurns DEF InOrder
<1>. QED  BY <1>1, <1>2, <1>3

LEMMA QdrantUncheckedIs ==
  /\ Belongs(QdrantUnchecked, "qdrant", "coverage_fault")
  /\ IsComplete(QdrantUnchecked, "qdrant", "coverage_fault")
  /\ InOrder(QdrantUnchecked)
<1>1. Belongs(QdrantUnchecked, "qdrant", "coverage_fault")
  BY QdrantUncheckedTurns DEF Belongs, QdrantUnchecked, Setup, CaseVerbs, KeycloakVerbs
<1>2. IsComplete(QdrantUnchecked, "qdrant", "coverage_fault")
  BY QdrantUncheckedTurns DEF IsComplete, Before
<1>3. InOrder(QdrantUnchecked)
  BY QdrantUncheckedTurns DEF InOrder
<1>. QED  BY <1>1, <1>2, <1>3

LEMMA KeycloakPlainIs ==
  /\ Belongs(KeycloakPlain, "keycloak", "safe_native")
  /\ IsComplete(KeycloakPlain, "keycloak", "safe_native")
  /\ ServiceRuns(KeycloakPlain, "safe_native")
  /\ InOrder(KeycloakPlain)
<1>1. Belongs(KeycloakPlain, "keycloak", "safe_native")
  BY KeycloakPlainTurns DEF Belongs, KeycloakPlain, Setup, CaseVerbs, KeycloakVerbs
<1>2. IsComplete(KeycloakPlain, "keycloak", "safe_native")
  BY KeycloakPlainTurns DEF IsComplete, Before
<1>3. ServiceRuns(KeycloakPlain, "safe_native")
  BY KeycloakPlainTurns DEF ServiceRuns, KeycloakUp
<1>4. InOrder(KeycloakPlain)
  BY KeycloakPlainTurns DEF InOrder
<1>. QED  BY <1>1, <1>2, <1>3, <1>4

LEMMA KeycloakExportedIs ==
  /\ Belongs(KeycloakExported, "keycloak", "surviving_derivative")
  /\ IsComplete(KeycloakExported, "keycloak", "surviving_derivative")
  /\ ServiceRuns(KeycloakExported, "surviving_derivative")
  /\ InOrder(KeycloakExported)
<1>1. Belongs(KeycloakExported, "keycloak", "surviving_derivative")
  BY KeycloakExportedTurns DEF Belongs, KeycloakExported, Setup, CaseVerbs, KeycloakVerbs
<1>2. IsComplete(KeycloakExported, "keycloak", "surviving_derivative")
  BY KeycloakExportedTurns DEF IsComplete, Before
<1>3. ServiceRuns(KeycloakExported, "surviving_derivative")
  BY KeycloakExportedTurns DEF ServiceRuns, KeycloakUp
<1>4. InOrder(KeycloakExported)
  BY KeycloakExportedTurns DEF InOrder
<1>. QED  BY <1>1, <1>2, <1>3, <1>4

LEMMA KeycloakReplayIs ==
  /\ Belongs(KeycloakReplay, "keycloak", "recovery_regeneration")
  /\ IsComplete(KeycloakReplay, "keycloak", "recovery_regeneration")
  /\ ServiceRuns(KeycloakReplay, "recovery_regeneration")
  /\ InOrder(KeycloakReplay)
<1>1. Belongs(KeycloakReplay, "keycloak", "recovery_regeneration")
  BY KeycloakReplayTurns DEF Belongs, KeycloakReplay, Setup, CaseVerbs, KeycloakVerbs
<1>2. IsComplete(KeycloakReplay, "keycloak", "recovery_regeneration")
  BY KeycloakReplayTurns DEF IsComplete, Before
<1>3. ServiceRuns(KeycloakReplay, "recovery_regeneration")
  BY KeycloakReplayTurns DEF ServiceRuns, KeycloakUp
<1>4. InOrder(KeycloakReplay)
  BY KeycloakReplayTurns DEF InOrder
<1>. QED  BY <1>1, <1>2, <1>3, <1>4

LEMMA KeycloakUncheckedIs ==
  /\ Belongs(KeycloakUnchecked, "keycloak", "coverage_fault")
  /\ IsComplete(KeycloakUnchecked, "keycloak", "coverage_fault")
  /\ ServiceRuns(KeycloakUnchecked, "coverage_fault")
  /\ InOrder(KeycloakUnchecked)
<1>1. Belongs(KeycloakUnchecked, "keycloak", "coverage_fault")
  BY KeycloakUncheckedTurns DEF Belongs, KeycloakUnchecked, Setup, CaseVerbs, KeycloakVerbs
<1>2. IsComplete(KeycloakUnchecked, "keycloak", "coverage_fault")
  BY KeycloakUncheckedTurns DEF IsComplete, Before
<1>3. ServiceRuns(KeycloakUnchecked, "coverage_fault")
  BY KeycloakUncheckedTurns DEF ServiceRuns, KeycloakUp
<1>4. InOrder(KeycloakUnchecked)
  BY KeycloakUncheckedTurns DEF InOrder
<1>. QED  BY <1>1, <1>2, <1>3, <1>4

LEMMA MlflowPlainIs ==
  /\ Belongs(MlflowPlain, "mlflow", "safe_native")
  /\ IsComplete(MlflowPlain, "mlflow", "safe_native")
  /\ Belongs(MlflowPlain, "mlflow", "surviving_derivative")
  /\ IsComplete(MlflowPlain, "mlflow", "surviving_derivative")
  /\ InOrder(MlflowPlain)
<1>1. Belongs(MlflowPlain, "mlflow", "safe_native")
  BY MlflowPlainTurns DEF Belongs, MlflowPlain, Setup, CaseVerbs, KeycloakVerbs
<1>2. IsComplete(MlflowPlain, "mlflow", "safe_native")
  BY MlflowPlainTurns DEF IsComplete, Before
<1>3. Belongs(MlflowPlain, "mlflow", "surviving_derivative")
  BY MlflowPlainTurns DEF Belongs, MlflowPlain, Setup, CaseVerbs, KeycloakVerbs
<1>4. IsComplete(MlflowPlain, "mlflow", "surviving_derivative")
  BY MlflowPlainTurns DEF IsComplete, Before
<1>5. InOrder(MlflowPlain)
  BY MlflowPlainTurns DEF InOrder
<1>. QED  BY <1>1, <1>2, <1>3, <1>4, <1>5

LEMMA MlflowReplayIs ==
  /\ Belongs(MlflowReplay, "mlflow", "recovery_regeneration")
  /\ IsComplete(MlflowReplay, "mlflow", "recovery_regeneration")
  /\ InOrder(MlflowReplay)
<1>1. Belongs(MlflowReplay, "mlflow", "recovery_regeneration")
  BY MlflowReplayTurns DEF Belongs, MlflowReplay, Setup, CaseVerbs, KeycloakVerbs
<1>2. IsComplete(MlflowReplay, "mlflow", "recovery_regeneration")
  BY MlflowReplayTurns DEF IsComplete, Before
<1>3. InOrder(MlflowReplay)
  BY MlflowReplayTurns DEF InOrder
<1>. QED  BY <1>1, <1>2, <1>3

LEMMA MlflowUncheckedIs ==
  /\ Belongs(MlflowUnchecked, "mlflow", "coverage_fault")
  /\ IsComplete(MlflowUnchecked, "mlflow", "coverage_fault")
  /\ InOrder(MlflowUnchecked)
<1>1. Belongs(MlflowUnchecked, "mlflow", "coverage_fault")
  BY MlflowUncheckedTurns DEF Belongs, MlflowUnchecked, Setup, CaseVerbs, KeycloakVerbs
<1>2. IsComplete(MlflowUnchecked, "mlflow", "coverage_fault")
  BY MlflowUncheckedTurns DEF IsComplete, Before
<1>3. InOrder(MlflowUnchecked)
  BY MlflowUncheckedTurns DEF InOrder
<1>. QED  BY <1>1, <1>2, <1>3

LEMMA CaseAgenda ==
  ASSUME NEW family \in FamilyNames, NEW fault \in FaultNames
  PROVE  /\ Belongs(CaseOps[family][fault], family, fault)
         /\ InOrder(CaseOps[family][fault])
         /\ IsComplete(CaseOps[family][fault], family, fault)
         /\ family = "keycloak" => ServiceRuns(CaseOps[family][fault], fault)
<1>1. CASE family = "keycloak"
  <2>1. CaseOps[family][fault] = CASE fault = "safe_native" -> KeycloakPlain
                                   [] fault = "surviving_derivative" -> KeycloakExported
                                   [] fault = "recovery_regeneration" -> KeycloakReplay
                                   [] fault = "coverage_fault" -> KeycloakUnchecked
    BY <1>1 DEF CaseOps, FaultNames
  <2>. QED
    BY <1>1, <2>1, KeycloakPlainIs, KeycloakExportedIs, KeycloakReplayIs, KeycloakUncheckedIs
       DEF FaultNames
<1>2. CASE family = "mlflow"
  <2>1. CaseOps[family][fault] = CASE fault = "safe_native" -> MlflowPlain
                                   [] fault = "surviving_derivative" -> MlflowPlain
                                   [] fault = "recovery_regeneration" -> MlflowReplay
                                   [] fault = "coverage_fault" -> MlflowUnchecked
    BY <1>2 DEF CaseOps, FaultNames
  <2>. QED
    BY <1>2, <2>1, MlflowPlainIs, MlflowReplayIs, MlflowUncheckedIs DEF FaultNames
<1>3. CASE family = "qdrant"
  <2>1. CaseOps[family][fault] = CASE fault = "safe_native" -> QdrantPlain
                                   [] fault = "surviving_derivative" -> QdrantPlain
                                   [] fault = "recovery_regeneration" -> QdrantReplay
                                   [] fault = "coverage_fault" -> QdrantUnchecked
    BY <1>3 DEF CaseOps, FaultNames
  <2>. QED
    BY <1>3, <2>1, QdrantPlainIs, QdrantReplayIs, QdrantUncheckedIs DEF FaultNames
<1>. QED  BY <1>1, <1>2, <1>3 DEF FamilyNames

-----------------------------------------------------------------------------
(* The parts of a run.                                                      *)

Place == smoke \in BOOLEAN /\ at \in 1..Len(Parts) /\ line \in 1..Len(Steps(Here))

LEMMA FullParts ==
  /\ Len(FullRun) = 18
  /\ FullRun[1] = Part("open", "none", "none")
  /\ FullRun[2] = Part("case", "keycloak", "safe_native")
  /\ FullRun[3] = Part("case", "keycloak", "surviving_derivative")
  /\ FullRun[4] = Part("case", "keycloak", "recovery_regeneration")
  /\ FullRun[5] = Part("case", "keycloak", "coverage_fault")
  /\ FullRun[6] = Part("serve", "mlflow", "none")
  /\ FullRun[7] = Part("case", "mlflow", "safe_native")
  /\ FullRun[8] = Part("case", "mlflow", "surviving_derivative")
  /\ FullRun[9] = Part("case", "mlflow", "recovery_regeneration")
  /\ FullRun[10] = Part("case", "mlflow", "coverage_fault")
  /\ FullRun[11] = Part("close", "mlflow", "none")
  /\ FullRun[12] = Part("serve", "qdrant", "none")
  /\ FullRun[13] = Part("case", "qdrant", "safe_native")
  /\ FullRun[14] = Part("case", "qdrant", "surviving_derivative")
  /\ FullRun[15] = Part("case", "qdrant", "recovery_regeneration")
  /\ FullRun[16] = Part("case", "qdrant", "coverage_fault")
  /\ FullRun[17] = Part("close", "qdrant", "none")
  /\ FullRun[18] = Part("bundle", "none", "none")
BY DEF FullRun, Opening, CaseOf, Serve, Close, FaultStates

LEMMA SmokeParts ==
  /\ Len(SmokeRun) = 9
  /\ SmokeRun[1] = Part("open", "none", "none")
  /\ SmokeRun[2] = Part("case", "keycloak", "recovery_regeneration")
  /\ SmokeRun[3] = Part("serve", "mlflow", "none")
  /\ SmokeRun[4] = Part("case", "mlflow", "recovery_regeneration")
  /\ SmokeRun[5] = Part("close", "mlflow", "none")
  /\ SmokeRun[6] = Part("serve", "qdrant", "none")
  /\ SmokeRun[7] = Part("case", "qdrant", "recovery_regeneration")
  /\ SmokeRun[8] = Part("close", "qdrant", "none")
  /\ SmokeRun[9] = Part("smoke", "none", "none")
BY DEF SmokeRun, Opening, CaseOf, Serve, Close

LEMMA PartFields ==
  ASSUME NEW n, NEW f, NEW s
  PROVE  /\ Part(n, f, s).name = n /\ Part(n, f, s).family = f /\ Part(n, f, s).fault = s
         /\ Opening = Part("open", "none", "none")
         /\ Serve(f) = Part("serve", f, "none") /\ Close(f) = Part("close", f, "none")
         /\ CaseOf(f, s) = Part("case", f, s)
BY DEF Part, Opening, Serve, Close, CaseOf

\* What every part is, and what comes after it.
Kind(k) ==
  LET part == Parts[k]
  IN  /\ part = Part(part.name, part.family, part.fault)
      /\ part.name \in {"open", "serve", "case", "close", "bundle", "smoke"}
      /\ part.name = "open" <=> k = 1
      /\ part.name \in {"bundle", "smoke"} <=> k = Len(Parts)
      /\ part.name = "bundle" => ~ smoke
      /\ part.name = "smoke" => smoke
      /\ part.name \in {"serve", "close"} => part.family \in {"mlflow", "qdrant"}
      /\ part.name = "case" => part.family \in FamilyNames /\ part.fault \in FaultNames
      /\ part.name # "case" => part.fault = "none"
      /\ part.name \in {"open", "bundle", "smoke"} => part.family = "none"
      /\ part.name = "serve" \/ (part.name = "case" /\ part.family # "keycloak") =>
           /\ Parts[k + 1].family = part.family
           /\ Parts[k + 1].name \in {"case", "close"}

LEMMA Kinds ==
  ASSUME smoke \in BOOLEAN
  PROVE  Len(Parts) \in Nat /\ Len(Parts) > 2 /\ \A k \in 1..Len(Parts) : Kind(k)
<1>1. CASE smoke
  <2>1. Parts = SmokeRun /\ Len(Parts) = 9
    BY <1>1, SmokeParts DEF Parts
  <2>. SUFFICES ASSUME NEW k \in 1..9 PROVE Kind(k)
    BY <2>1
  <2>2. Parts[k] = SmokeRun[k] /\ Parts[k + 1] = SmokeRun[k + 1]
    BY <2>1
  <2>. QED  BY <1>1, <2>1, <2>2, SmokeParts, PartFields DEF Kind, FamilyNames, FaultNames
<1>2. CASE ~ smoke
  <2>1. Parts = FullRun /\ Len(Parts) = 18
    BY <1>2, FullParts DEF Parts
  <2>. SUFFICES ASSUME NEW k \in 1..18 PROVE Kind(k)
    BY <2>1
  <2>2. Parts[k] = FullRun[k] /\ Parts[k + 1] = FullRun[k + 1]
    BY <2>1
  <2>. QED  BY <1>2, <2>1, <2>2, FullParts, PartFields DEF Kind, FamilyNames, FaultNames
<1>. QED  BY <1>1, <1>2

\* No case is run twice.
LEMMA CasesDiffer ==
  ASSUME smoke \in BOOLEAN, NEW i \in 1..Len(Parts), NEW j \in 1..Len(Parts),
         Parts[i].name = "case", Parts[j].name = "case",
         Parts[i].family = Parts[j].family, Parts[i].fault = Parts[j].fault
  PROVE  i = j
<1>1. CASE smoke
  <2>1. Parts = SmokeRun /\ Len(Parts) = 9
    BY <1>1, SmokeParts DEF Parts
  <2>. QED  BY <2>1, SmokeParts, PartFields
<1>2. CASE ~ smoke
  <2>1. Parts = FullRun /\ Len(Parts) = 18
    BY <1>2, FullParts DEF Parts
  <2>2. /\ FullRun[1].name # "case" /\ FullRun[6].name # "case" /\ FullRun[11].name # "case"
        /\ FullRun[12].name # "case" /\ FullRun[17].name # "case" /\ FullRun[18].name # "case"
    BY FullParts DEF Part
  <2>3. /\ FullRun[2].family = "keycloak" /\ FullRun[2].fault = "safe_native"
        /\ FullRun[3].family = "keycloak" /\ FullRun[3].fault = "surviving_derivative"
        /\ FullRun[4].family = "keycloak" /\ FullRun[4].fault = "recovery_regeneration"
        /\ FullRun[5].family = "keycloak" /\ FullRun[5].fault = "coverage_fault"
        /\ FullRun[7].family = "mlflow" /\ FullRun[7].fault = "safe_native"
        /\ FullRun[8].family = "mlflow" /\ FullRun[8].fault = "surviving_derivative"
        /\ FullRun[9].family = "mlflow" /\ FullRun[9].fault = "recovery_regeneration"
        /\ FullRun[10].family = "mlflow" /\ FullRun[10].fault = "coverage_fault"
        /\ FullRun[13].family = "qdrant" /\ FullRun[13].fault = "safe_native"
        /\ FullRun[14].family = "qdrant" /\ FullRun[14].fault = "surviving_derivative"
        /\ FullRun[15].family = "qdrant" /\ FullRun[15].fault = "recovery_regeneration"
        /\ FullRun[16].family = "qdrant" /\ FullRun[16].fault = "coverage_fault"
    BY FullParts DEF Part
  <2>4. ASSUME NEW k \in 1..18, FullRun[k].name = "case"
        PROVE  k \in {2, 3, 4, 5, 7, 8, 9, 10, 13, 14, 15, 16}
    BY <2>2, <2>4
  <2>5. i \in {2, 3, 4, 5, 7, 8, 9, 10, 13, 14, 15, 16} /\ j \in {2, 3, 4, 5, 7, 8, 9, 10, 13, 14, 15, 16}
    BY <2>1, <2>4
  <2>. QED  BY <2>1, <2>3, <2>5
<1>. QED  BY <1>1, <1>2

-----------------------------------------------------------------------------
(* The step the run is at.                                                  *)

LEMMA StepsOf ==
  ASSUME NEW part
  PROVE  /\ part.name = "open" => Steps(part) = <<"openAssets", "prepareAssets", "hashCore">>
         /\ part.name = "serve" => Steps(part) = <<"start", "wait">>
         /\ part.name = "case" => Steps(part) = CaseOps[part.family][part.fault]
         /\ part.name = "close" => Steps(part) = <<"finally">>
         /\ part.name = "bundle" =>
              Steps(part) = <<"writeTrials", "hashCoreAgain", "writeResult", "writeProvenance">>
         /\ part.name = "smoke" => Steps(part) = <<"writeSmoke">>
BY DEF Steps

LEMMA StepsLength ==
  ASSUME smoke \in BOOLEAN, NEW k \in 1..Len(Parts)
  PROVE  Len(Steps(Parts[k])) \in Nat /\ Len(Steps(Parts[k])) > 0
<1>1. Kind(k)
  BY Kinds
<1>2. CASE Parts[k].name = "case"
  BY <1>1, <1>2, StepsOf, CaseAgenda DEF Kind, Belongs
<1>3. Parts[k].name \in {"open", "serve", "case", "close", "bundle", "smoke"}
  BY <1>1 DEF Kind
<1>. DEFINE length == Len(Steps(Parts[k]))
<1>4. Parts[k].name \in {"open", "serve", "close", "bundle", "smoke"} => length \in {1, 2, 3, 4}
  BY StepsOf
<1>5. Parts[k].name = "case" => length \in Nat /\ length > 0
  BY <1>2
<1>. HIDE DEF length
<1>6. length \in Nat /\ length > 0
  BY <1>3, <1>4, <1>5
<1>. QED  BY <1>6 DEF length

LEMMA HereIs ==
  ASSUME Place
  PROVE  /\ Kind(at) /\ Here = Parts[at] /\ Len(Steps(Here)) \in Nat
         /\ Here.name = "open" =>
              Len(Steps(Here)) = 3 /\ Op \in {"openAssets", "prepareAssets", "hashCore"}
         /\ Here.name = "serve" =>
              Len(Steps(Here)) = 2 /\ Op = IF line = 1 THEN "start" ELSE "wait"
         /\ Here.name = "close" => Len(Steps(Here)) = 1 /\ Op = "finally"
         /\ Here.name = "bundle" =>
              /\ Op \in {"writeTrials", "hashCoreAgain", "writeResult", "writeProvenance"}
              /\ Op = "writeProvenance" => line = Len(Steps(Here))
         /\ Here.name = "smoke" => Len(Steps(Here)) = 1 /\ Op = "writeSmoke"
         /\ Here.name = "case" =>
              /\ Here.family \in FamilyNames /\ Here.fault \in FaultNames
              /\ Belongs(Steps(Here), Here.family, Here.fault)
              /\ InOrder(Steps(Here))
              /\ IsComplete(Steps(Here), Here.family, Here.fault)
              /\ Here.family = "keycloak" => ServiceRuns(Steps(Here), Here.fault)
<1>1. Kind(at) /\ Here = Parts[at]
  BY Kinds DEF Place, Here
<1>2. Op = Steps(Here)[line] /\ line \in 1..Len(Steps(Here))
  BY DEF Op, Place
<1>3. Len(Steps(Here)) \in Nat
  BY <1>1, StepsLength DEF Place
<1>4. Here.name = "open" =>
        Len(Steps(Here)) = 3 /\ Op \in {"openAssets", "prepareAssets", "hashCore"}
  BY <1>2, StepsOf
<1>5. Here.name = "serve" =>
        Len(Steps(Here)) = 2 /\ Op = IF line = 1 THEN "start" ELSE "wait"
  BY <1>2, StepsOf
<1>6. Here.name = "close" => Len(Steps(Here)) = 1 /\ Op = "finally"
  BY <1>2, StepsOf
<1>7. Here.name = "bundle" =>
        /\ Op \in {"writeTrials", "hashCoreAgain", "writeResult", "writeProvenance"}
        /\ Op = "writeProvenance" => line = Len(Steps(Here))
  <2>. SUFFICES ASSUME Here.name = "bundle"
                PROVE  /\ Op \in {"writeTrials", "hashCoreAgain", "writeResult", "writeProvenance"}
                       /\ Op = "writeProvenance" => line = Len(Steps(Here))
    OBVIOUS
  <2>. DEFINE writes == <<"writeTrials", "hashCoreAgain", "writeResult", "writeProvenance">>
  <2>1. Steps(Here) = writes
    BY StepsOf
  <2>2. Len(writes) = 4 /\ writes[1] = "writeTrials" /\ writes[2] = "hashCoreAgain"
        /\ writes[3] = "writeResult" /\ writes[4] = "writeProvenance"
    OBVIOUS
  <2>. HIDE DEF writes
  <2>. QED  BY <1>2, <2>1, <2>2
<1>8. Here.name = "smoke" => Len(Steps(Here)) = 1 /\ Op = "writeSmoke"
  BY <1>2, StepsOf
<1>9. Here.name = "case" =>
        /\ Here.family \in FamilyNames /\ Here.fault \in FaultNames
        /\ Belongs(Steps(Here), Here.family, Here.fault)
        /\ InOrder(Steps(Here))
        /\ IsComplete(Steps(Here), Here.family, Here.fault)
        /\ Here.family = "keycloak" => ServiceRuns(Steps(Here), Here.fault)
  <2>1. Here.name = "case" => Here.family \in FamilyNames /\ Here.fault \in FaultNames
    BY <1>1 DEF Kind
  <2>. QED  BY <2>1, StepsOf, CaseAgenda
<1>. QED  BY <1>1, <1>3, <1>4, <1>5, <1>6, <1>7, <1>8, <1>9

\* What the step of a case says.
LEMMA OpOfCase ==
  ASSUME Place, Here.name = "case"
  PROVE  /\ Op \in CaseVerbs
         /\ Op \in KeycloakVerbs => Here.family = "keycloak"
         /\ Op = "mark" <=> line = 1
         /\ line = 3 => Op \in DOMAIN Setup
         /\ Op = "finally" <=> Here.family = "keycloak" /\ line = Len(Steps(Here))
         /\ Op = "record" <=>
              line = (IF Here.family = "keycloak" THEN Len(Steps(Here)) - 1 ELSE Len(Steps(Here)))
         /\ Op \in {"recover", "import", "lookRecovered", "stop", "bootstrap"} =>
              Here.fault = "recovery_regeneration"
         /\ Op = "snapshot" =>
              Here.family = "qdrant" /\ Here.fault \in {"recovery_regeneration", "coverage_fault"}
         /\ Op = "logArtifact" => Here.family = "mlflow"
         /\ Op = "recover" => Here.family # "keycloak"
<1>1. Op = Steps(Here)[line] /\ line \in 1..Len(Steps(Here))
  BY DEF Op, Place
<1>2. Belongs(Steps(Here), Here.family, Here.fault)
  BY HereIs
<1>. QED  BY <1>1, <1>2 DEF Belongs

\* A step is where it belongs.
LEMMA OpElsewhere ==
  ASSUME Place
  PROVE  /\ Op = "start" => Here.name = "serve" \/ (Here.name = "case" /\ Here.family = "keycloak")
         /\ Op = "finally" =>
              /\ Here.name = "close" \/ (Here.name = "case" /\ Here.family = "keycloak")
              /\ line = Len(Steps(Here))
         /\ Op = "wait" => Here.name = "serve" \/ (Here.name = "case" /\ Here.family = "keycloak")
         /\ Op \in CaseVerbs \ {"start", "finally", "wait"} => Here.name = "case"
         /\ Op \in {"openAssets", "prepareAssets", "hashCore"} => at = 1
         /\ Op \in {"writeTrials", "hashCoreAgain", "writeResult", "writeProvenance", "writeSmoke"} =>
              at = Len(Parts) /\ at > 1
         /\ Op = "writeProvenance" => line = Len(Steps(Here)) /\ ~ smoke
<1>1. Here.name \in {"open", "serve", "case", "close", "bundle", "smoke"}
  BY HereIs DEF Kind
<1>2. CASE Here.name = "case"
  <2>1. Op \in CaseVerbs
    BY <1>2, OpOfCase
  <2>. QED  BY <1>2, <2>1, OpOfCase DEF CaseVerbs, KeycloakVerbs
<1>3. CASE Here.name = "open"
  BY <1>3, HereIs DEF Kind, CaseVerbs, KeycloakVerbs
<1>4. CASE Here.name = "serve"
  BY <1>4, HereIs DEF CaseVerbs, KeycloakVerbs
<1>5. CASE Here.name = "close"
  BY <1>5, HereIs DEF CaseVerbs, KeycloakVerbs, Place
<1>6. CASE Here.name = "bundle"
  BY <1>6, HereIs, Kinds DEF Kind, CaseVerbs, KeycloakVerbs, Place
<1>7. CASE Here.name = "smoke"
  BY <1>7, HereIs, Kinds DEF Kind, CaseVerbs, KeycloakVerbs, Place
<1>. QED  BY <1>1, <1>2, <1>3, <1>4, <1>5, <1>6, <1>7

\* A step goes on in its part, to the next part, or ends the run.
GoesOn == /\ line < Len(Steps(Here)) /\ at' = at /\ line' = line + 1 /\ status' = status
          /\ Here' = Here /\ Steps(Here)' = Steps(Here)
ToNext == /\ line = Len(Steps(Here)) /\ at < Len(Parts) /\ at' = at + 1 /\ line' = 1
          /\ status' = status /\ Here' = Parts[at + 1]
ToEnd == /\ line = Len(Steps(Here)) /\ at = Len(Parts) /\ at' = at /\ line' = line
         /\ status' = "done" /\ Here' = Here
LEMMA Advances ==
  ASSUME Place, smoke' = smoke, Advance
  PROVE  /\ Place' /\ Parts' = Parts
         /\ GoesOn \/ ToNext \/ ToEnd
<1>1. Parts' = Parts
  BY DEF Parts
<1>2. Len(Parts) \in Nat /\ at \in 1..Len(Parts) /\ line \in 1..Len(Steps(Here))
      /\ Len(Steps(Here)) \in Nat
  BY Kinds, HereIs DEF Place
<1>3. CASE line < Len(Steps(Here))
  <2>1. at' = at /\ line' = line + 1 /\ status' = status
    BY <1>3 DEF Advance
  <2>2. Here' = Here /\ Steps(Here)' = Steps(Here)
    BY <1>1, <2>1 DEF Here, Steps
  <2>. QED  BY <1>1, <1>2, <1>3, <2>1, <2>2 DEF Place, GoesOn
<1>4. CASE line = Len(Steps(Here)) /\ at < Len(Parts)
  <2>1. at' = at + 1 /\ line' = 1 /\ status' = status
    BY <1>4 DEF Advance
  <2>2. Here' = Parts[at + 1]
    BY <1>1, <2>1 DEF Here
  <2>3. at + 1 \in 1..Len(Parts)
    BY <1>2, <1>4
  <2>4. Len(Steps(Parts[at + 1])) \in Nat /\ Len(Steps(Parts[at + 1])) > 0
    BY <2>3, StepsLength DEF Place
  <2>5. Steps(Here)' = Steps(Parts[at + 1])
    BY <2>2 DEF Steps
  <2>. QED  BY <1>1, <1>4, <2>1, <2>2, <2>3, <2>4, <2>5 DEF Place, ToNext
<1>5. CASE line = Len(Steps(Here)) /\ at = Len(Parts)
  <2>1. at' = at /\ line' = line /\ status' = "done"
    BY <1>5 DEF Advance
  <2>2. Here' = Here /\ Steps(Here)' = Steps(Here)
    BY <1>1, <2>1 DEF Here, Steps
  <2>. QED  BY <1>1, <1>2, <1>5, <2>1, <2>2 DEF Place, ToEnd
<1>. QED  BY <1>2, <1>3, <1>4, <1>5

LEMMA Stays ==
  ASSUME Place, smoke' = smoke, at' = at, line' = line
  PROVE  Place' /\ Parts' = Parts /\ Here' = Here /\ Steps(Here)' = Steps(Here) /\ Op' = Op
<1>1. Parts' = Parts
  BY DEF Parts
<1>2. Here' = Here /\ Steps(Here)' = Steps(Here)
  BY <1>1 DEF Here, Steps
<1>. QED  BY <1>1, <1>2 DEF Place, Op

-----------------------------------------------------------------------------
(* Proceeds of the run.                                                        *)

RunOK ==
  /\ Place
  /\ status \in {"running", "unwinding", "raised", "killed", "done", "refused"}
  /\ at > 1 \/ line > 1 => files # {}
  /\ dockerFaults \in Nat /\ disturbances \in Nat

\* A step leaves the run where it is or advances it.
Proceeds ==
  /\ smoke' = smoke
  /\ \/ status = "running" /\ Advance
     \/ at' = at /\ line' = line

LEMMA CaseSteps ==
  ASSUME \/ Fail \/ Mark \/ Prepare \/ LogArtifact \/ NativeDelete \/ Recover
         \/ CountBefore \/ LookPrimary \/ LookDerivative \/ LookRecovered
         \/ CountAfter \/ CountLast \/ ApplyControl \/ Purge \/ LookAgain \/ Record
  PROVE  /\ status = "running" /\ InCase
         /\ Op \in CaseVerbs \ {"start", "stop", "stopGracefully", "finally", "export", "import",
                                "bootstrap"}
         /\ Advance \/ Raise
         /\ disturbances' \in {disturbances, disturbances + 1}
<1>1. CASE Fail
  BY <1>1 DEF Fail, CallsOut, Disturb, CaseVerbs, KeycloakVerbs
<1>2. CASE Mark
  BY <1>2 DEF Mark, Doing, CaseVerbs
<1>3. CASE Prepare
  BY <1>3 DEF Prepare, Doing, Setup, CaseVerbs, KeycloakVerbs
<1>4. CASE LogArtifact
  BY <1>4 DEF LogArtifact, Doing, CaseVerbs
<1>5. CASE NativeDelete
  BY <1>5 DEF NativeDelete, Doing, CaseVerbs, Disturb
<1>6. CASE Recover
  BY <1>6 DEF Recover, Doing, CaseVerbs, Disturb
<1>7. CASE CountBefore \/ LookPrimary \/ LookDerivative \/ LookRecovered \/ CountAfter \/ CountLast
  BY <1>7 DEF CountBefore, LookPrimary, LookDerivative, LookRecovered, CountAfter, CountLast,
              Observe, Doing, CaseVerbs
<1>8. CASE ApplyControl
  BY <1>8 DEF ApplyControl, Doing, CaseVerbs, Disturb
<1>9. CASE Purge
  BY <1>9 DEF Purge, Doing, CaseVerbs, Disturb
<1>10. CASE LookAgain \/ Record
  BY <1>10 DEF LookAgain, Record, Doing, CaseVerbs
<1>. QED
  BY <1>1, <1>2, <1>3, <1>4, <1>5, <1>6, <1>7, <1>8, <1>9, <1>10

RunnerVerbs == {"openAssets", "prepareAssets", "hashCore", "writeTrials", "hashCoreAgain",
                "writeResult", "writeProvenance", "writeSmoke"}
LEMMA RunnerSteps ==
  ASSUME OpenAssets \/ PrepareAssets \/ HashCore \/ HashCoreAgain \/ WriteBundle
  PROVE  /\ status = "running" /\ Runs /\ Op \in RunnerVerbs
         /\ Advance \/ Raise
         /\ disturbances' \in {disturbances, disturbances + 1}
         /\ files' = files \/ files' # {}
<1>1. CASE OpenAssets \/ PrepareAssets \/ HashCore \/ HashCoreAgain
  BY <1>1 DEF OpenAssets, PrepareAssets, HashCore, HashCoreAgain, Doing, RunnerVerbs, Disturb
<1>2. CASE WriteBundle
  BY <1>2 DEF WriteBundle, Bundle, Doing, RunnerVerbs, Disturb
<1>. QED  BY <1>1, <1>2

\* Nothing but the services, the cases, the runner and the world takes a step.
LEMMA StepKinds ==
  ASSUME CampaignNext
  PROVE  \/ StartService \/ StopService \/ Finally \/ Unwind \/ RunOneShot
         \/ Fail \/ Mark \/ Prepare \/ LogArtifact \/ NativeDelete \/ Recover
         \/ CountBefore \/ LookPrimary \/ LookDerivative \/ LookRecovered
         \/ CountAfter \/ CountLast \/ ApplyControl \/ Purge \/ LookAgain \/ Record
         \/ OpenAssets \/ PrepareAssets \/ HashCore \/ HashCoreAgain \/ WriteBundle
         \/ Edit \/ Kill \/ Rerun \/ Ended
BY DEF CampaignNext

Kept ==
  /\ Proceeds
  /\ disturbances' \in {disturbances, disturbances + 1}
  /\ dockerFaults' \in {dockerFaults, dockerFaults + 1}
  /\ \/ Advance
     \/ status' \in {"running", "unwinding", "raised", "killed", "refused"}
     \/ status' = status
  /\ files' = files \/ files' # {}
LEMMA StepMoves ==
  ASSUME RunOK, CampaignNext
  PROVE  /\ Proceeds /\ Place'
         /\ disturbances' \in Nat /\ disturbances' >= disturbances
         /\ dockerFaults' \in Nat
         /\ status' \in {"running", "unwinding", "raised", "killed", "done", "refused"}
         /\ files' = files \/ files' # {}
<1>1. ASSUME StartService
     PROVE  Kept
  BY <1>1 DEF Kept, StartService, Proceeds, Doing, Raise, Disturb
<1>2. ASSUME StopService \/ Finally
     PROVE  Kept
  BY <1>2 DEF Kept, StopService, Finally, Removal, RemovalTimesOut, Proceeds, Doing, Raise, Disturb, docker
<1>3. ASSUME Unwind
     PROVE  Kept
  BY <1>3 DEF Kept, Unwind, Removal, RemovalTimesOut, Proceeds, Disturb
<1>4. ASSUME RunOneShot
     PROVE  Kept
  BY <1>4 DEF Kept, RunOneShot, Proceeds, Doing, Raise, Disturb
<1>5. ASSUME \/ Fail \/ Mark \/ Prepare \/ LogArtifact \/ NativeDelete \/ Recover
            \/ CountBefore \/ LookPrimary \/ LookDerivative \/ LookRecovered
            \/ CountAfter \/ CountLast \/ ApplyControl \/ Purge \/ LookAgain \/ Record
     PROVE  Kept
  BY <1>5, CaseSteps DEF Kept, Proceeds, InCase, Raise, docker
<1>6. ASSUME OpenAssets \/ PrepareAssets \/ HashCore \/ HashCoreAgain \/ WriteBundle
     PROVE  Kept
  BY <1>6, RunnerSteps DEF Kept, Proceeds, Runs, Raise, docker
<1>7. ASSUME Edit \/ Ended
     PROVE  Kept
  BY <1>7 DEF Kept, Edit, Ended, Proceeds, Runs, campaignVars, Disturb, docker
<1>8. ASSUME Kill
     PROVE  Kept
  BY <1>8 DEF Kept, Kill, Proceeds, Runs, Disturb, docker
<1>9. ASSUME Rerun
     PROVE  Kept
  <2>1. files = {} => at = 1 /\ line = 1
    BY Kinds, HereIs DEF RunOK, Place
  <2>. QED  BY <1>9, <2>1 DEF Kept, Rerun, Proceeds, Runs, docker
<1>10. Kept
  BY StepKinds, <1>1, <1>2, <1>3, <1>4, <1>5, <1>6, <1>7, <1>8, <1>9
<1>11. Place'
  BY <1>10, Advances, Stays DEF Kept, Proceeds, RunOK
<1>12. status' \in {"running", "unwinding", "raised", "killed", "done", "refused"}
  BY <1>10, Advances DEF Kept, RunOK, Proceeds, GoesOn, ToNext, ToEnd
<1>. QED
  BY <1>10, <1>11, <1>12 DEF Kept, RunOK

LEMMA StepRunOK ==
  ASSUME RunOK, CampaignNext
  PROVE  RunOK'
<1>1. at' > 1 \/ line' > 1 => files' # {}
  <2>1. CASE at' = at /\ line' = line
    BY <2>1, StepMoves DEF RunOK
  <2>2. CASE status = "running" /\ Advance /\ (at > 1 \/ line > 1)
    BY <2>2, StepMoves DEF RunOK
  <2>3. CASE status = "running" /\ Advance /\ ~ (at > 1 \/ line > 1)
    <3>1. at = 1 /\ line = 1 /\ Op = "openAssets"
      <4>1. at = 1 /\ line = 1
        BY <2>3, Kinds, HereIs DEF RunOK, Place
      <4>2. Here.name = "open"
        BY <4>1, HereIs DEF RunOK, Kind
      <4>3. Steps(Here) = <<"openAssets", "prepareAssets", "hashCore">>
        BY <4>2, StepsOf
      <4>. QED  BY <4>1, <4>3 DEF Op
    <3>2. OpenAssets \/ (status' = status /\ at' = at /\ line' = line) \/ status' # "running"
      <4>1. CASE StartService \/ StopService \/ Finally \/ Unwind \/ RunOneShot
        BY <3>1, <2>3, <4>1 DEF StartService, StopService, Finally, Unwind, RunOneShot, Doing, OneShot
      <4>2. CASE \/ Fail \/ Mark \/ Prepare \/ LogArtifact \/ NativeDelete \/ Recover
                 \/ CountBefore \/ LookPrimary \/ LookDerivative \/ LookRecovered
                 \/ CountAfter \/ CountLast \/ ApplyControl \/ Purge \/ LookAgain \/ Record
        BY <3>1, <4>2, CaseSteps DEF CaseVerbs, KeycloakVerbs
      <4>3. CASE PrepareAssets \/ HashCore \/ HashCoreAgain \/ WriteBundle
        BY <3>1, <4>3 DEF PrepareAssets, HashCore, HashCoreAgain, WriteBundle, Doing, Bundle
      <4>4. CASE Edit \/ Kill \/ Rerun \/ Ended
        BY <2>3, <4>4 DEF Edit, Kill, Rerun, Ended, campaignVars
      <4>. QED  BY StepKinds, <4>1, <4>2, <4>3, <4>4
    <3>3. line < Len(Steps(Here))
      BY <3>1, HereIs DEF RunOK, Kind
    <3>4. at' = at /\ line' = line + 1 /\ status' = status
      BY <2>3, <3>3 DEF Advance
    <3>5. OpenAssets
      BY <2>3, <3>1, <3>2, <3>4
    <3>. QED  BY <3>5 DEF OpenAssets
  <2>. QED  BY <2>1, <2>2, <2>3, StepMoves DEF Proceeds
<1>. QED  BY <1>1, StepMoves DEF RunOK

-----------------------------------------------------------------------------
(* Containers.                                                              *)

\* The service may run from its start to its stop.
Up ==
  \/ Here.name = "serve" /\ line = 2
  \/ Here.name = "close"
  \/ Here.name = "case" /\ (Here.family = "keycloak" => line \in KeycloakUp[Here.fault])

\* But for the container of the service, there is one container at most for
\* each failure of docker.
Counted ==
  /\ containers \subseteq Nat \X Nat /\ IsFiniteSet(containers)
  /\ Cardinality(containers \ {service}) <= dockerFaults
DockerInv ==
  /\ Counted
  /\ service # None /\ status = "running" => Up
  /\ at = 1 => service = None
  /\ LeaksAreDockers

LEMMA NoneIsNoStep == None \notin Nat \X Nat
BY DEF None

LEMMA StepOfService ==
  ASSUME RunOK
  PROVE  <<at, line>> \in Nat \X Nat
<1>1. at \in Nat /\ line \in Nat
  BY HereIs, Kinds DEF RunOK, Place
<1>. QED  BY <1>1

LEMMA FewerContainers ==
  ASSUME NEW S, NEW T, IsFiniteSet(T), S \subseteq T
  PROVE  IsFiniteSet(S) /\ Cardinality(S) \in Nat /\ Cardinality(T) \in Nat
         /\ Cardinality(S) <= Cardinality(T)
BY FS_Subset, FS_CardinalityType

LEMMA OneMoreContainer ==
  ASSUME NEW S, NEW T, NEW x, IsFiniteSet(T), S \subseteq T \union {x}
  PROVE  IsFiniteSet(S) /\ Cardinality(S) \in Nat /\ Cardinality(T) \in Nat
         /\ Cardinality(S) <= Cardinality(T) + 1
<1>1. /\ IsFiniteSet(T \union {x}) /\ Cardinality(T) \in Nat
      /\ Cardinality(T \union {x}) = IF x \in T THEN Cardinality(T) ELSE Cardinality(T) + 1
  BY FS_AddElement, FS_CardinalityType
<1>. QED  BY <1>1, FewerContainers

LEMMA OneMoreFailure ==
  ASSUME NEW S, NEW x, IsFiniteSet(S), RunOK, Counted,
         S \subseteq (containers \ {service}) \union {x}
  PROVE  Cardinality(S) <= dockerFaults + 1
<1>. DEFINE T == containers \ {service}
<1>1. IsFiniteSet(T) /\ Cardinality(T) <= dockerFaults /\ dockerFaults \in Nat
  BY FS_RemoveElement DEF Counted, RunOK
<1>2. S \subseteq T \union {x}
  OBVIOUS
<1>. HIDE DEF T
<1>3. Cardinality(S) \in Nat /\ Cardinality(T) \in Nat /\ Cardinality(S) <= Cardinality(T) + 1
  BY <1>1, <1>2, OneMoreContainer
<1>. QED  BY <1>1, <1>3

\* While no service runs, every container is left over.
LEMMA AllCounted ==
  ASSUME Counted, service = None
  PROVE  Cardinality(containers) <= dockerFaults
<1>1. containers \ {service} = containers
  BY NoneIsNoStep DEF Counted
<1>. QED  BY <1>1 DEF Counted

LEMMA StartsWhenDown ==
  ASSUME Place, Op = "start", smoke' = smoke, Advance
  PROVE  ~ Up /\ Up' /\ at > 1 /\ GoesOn
<1>1. CASE Here.name = "serve"
  <2>1. line = 1 /\ Len(Steps(Here)) = 2 /\ at > 1 /\ ~ Up
    BY <1>1, HereIs, Kinds DEF Kind, Place, Up
  <2>2. GoesOn
    BY <2>1, Advances DEF ToNext, ToEnd
  <2>. QED  BY <1>1, <2>1, <2>2 DEF GoesOn, Up
<1>2. CASE Here.name = "case" /\ Here.family = "keycloak"
  <2>1. at > 1 /\ ServiceRuns(Steps(Here), Here.fault) /\ line \in 1..Len(Steps(Here))
    BY <1>2, HereIs, Kinds DEF Kind, Place
  <2>2. line \notin KeycloakUp[Here.fault] /\ line + 1 \in KeycloakUp[Here.fault]
    BY <2>1 DEF ServiceRuns, Op
  <2>3. line # Len(Steps(Here))
    BY <1>2, OpOfCase
  <2>4. GoesOn
    BY <2>3, Advances DEF ToNext, ToEnd
  <2>. QED  BY <1>2, <2>1, <2>2, <2>4 DEF GoesOn, Up
<1>. QED  BY <1>1, <1>2, OpElsewhere

LEMMA StaysUp ==
  ASSUME Place, Up, Op \notin {"stop", "stopGracefully", "finally"}, smoke' = smoke, Advance
  PROVE  Up' /\ status' = status
<1>1. Kind(at) /\ Here = Parts[at] /\ line \in 1..Len(Steps(Here))
  BY HereIs DEF Place
<1>2. Here.name # "close"
  BY HereIs
<1>3. CASE Here.name = "serve"
  <2>1. line = 2 /\ Len(Steps(Here)) = 2 /\ at # Len(Parts)
    BY <1>1, <1>3, HereIs DEF Up, Kind
  <2>2. ToNext
    BY <2>1, Advances DEF GoesOn, ToEnd
  <2>. QED  BY <1>1, <1>3, <2>2 DEF ToNext, Up, Kind
<1>4. CASE Here.name = "case" /\ Here.family # "keycloak"
  <2>1. at # Len(Parts)
    BY <1>1, <1>4 DEF Kind
  <2>2. CASE GoesOn
    BY <1>4, <2>2 DEF GoesOn, Up
  <2>3. CASE ToNext
    BY <1>1, <1>4, <2>3 DEF ToNext, Up, Kind
  <2>. QED  BY <2>1, <2>2, <2>3, Advances DEF ToEnd
<1>5. CASE Here.name = "case" /\ Here.family = "keycloak"
  <2>1. ServiceRuns(Steps(Here), Here.fault) /\ line \in KeycloakUp[Here.fault]
    BY <1>5, HereIs DEF Up
  <2>2. line + 1 \in KeycloakUp[Here.fault]
    BY <1>1, <2>1 DEF ServiceRuns, Op
  <2>3. line # Len(Steps(Here))
    BY <1>5, OpOfCase
  <2>4. GoesOn
    BY <2>3, Advances DEF ToNext, ToEnd
  <2>. QED  BY <1>5, <2>2, <2>4 DEF GoesOn, Up
<1>. QED  BY <1>1, <1>2, <1>3, <1>4, <1>5 DEF Up

LEMMA DownAtTheEnd ==
  ASSUME Place, at = Len(Parts)
  PROVE  ~ Up
BY HereIs, Kinds DEF Place, Kind, Up

LEMMA StaysPut ==
  ASSUME Place, smoke' = smoke, at' = at, line' = line
  PROVE  Up' <=> Up
BY Stays DEF Up

\* A step that leaves docker alone.
LEMMA QuietStep ==
  ASSUME RunOK, DockerInv, UNCHANGED docker, status = "running", smoke' = smoke,
         (Advance /\ Op \notin {"stop", "stopGracefully", "finally"}) \/ Raise
  PROVE  DockerInv'
<1>1. Counted'
  BY DEF DockerInv, Counted, docker
<1>2. CASE Raise
  <2>1. at' = at /\ line' = line /\ status' = (IF service # None THEN "unwinding" ELSE "raised")
    BY <1>2 DEF Raise
  <2>2. status' = "raised" => Cardinality(containers) <= dockerFaults
    BY <2>1, AllCounted DEF DockerInv
  <2>. QED  BY <1>1, <2>1, <2>2 DEF DockerInv, LeaksAreDockers, docker
<1>3. CASE Advance /\ Op \notin {"stop", "stopGracefully", "finally"}
  <2>1. at' = 1 => at = 1
    BY <1>3, Advances, Kinds DEF GoesOn, ToNext, ToEnd, RunOK, Place
  <2>2. service # None => Up' /\ status' = "running"
    BY <1>3, StaysUp DEF DockerInv, RunOK
  <2>3. status' # "running" => Cardinality(containers) <= dockerFaults
    BY <2>2, AllCounted DEF DockerInv
  <2>. QED  BY <1>1, <2>1, <2>2, <2>3 DEF DockerInv, LeaksAreDockers, docker
<1>. QED  BY <1>2, <1>3

\* Starting, stopping and removing.
LEMMA StartCounted ==
  ASSUME RunOK, DockerInv, StartService
  PROVE  DockerInv'
<1>1. status = "running" /\ Op = "start" /\ smoke' = smoke
  BY DEF StartService, Doing
<1>2. <<at, line>> \in Nat \X Nat /\ dockerFaults \in Nat
  BY StepOfService DEF RunOK
<1>3. Counted /\ (service = None => Cardinality(containers) <= dockerFaults)
  BY AllCounted DEF DockerInv
<1>4. CASE /\ Advance /\ containers' = containers \union {<<at, line>>}
           /\ service' = <<at, line>> /\ dockerFaults' = dockerFaults
  <2>1. ~ Up /\ Up' /\ at > 1 /\ GoesOn
    BY <1>1, <1>4, StartsWhenDown DEF RunOK
  <2>2. service = None
    BY <1>1, <2>1 DEF DockerInv
  <2>3. containers' \ {service'} \subseteq containers /\ containers' \subseteq Nat \X Nat
    BY <1>2, <1>3, <1>4 DEF Counted
  <2>4. IsFiniteSet(containers')
    BY <1>3, <1>4, FS_AddElement DEF Counted
  <2>5. Cardinality(containers' \ {service'}) <= dockerFaults
    BY <1>2, <1>3, <2>2, <2>3, FewerContainers DEF Counted
  <2>. QED
    BY <1>1, <1>4, <2>1, <2>3, <2>4, <2>5 DEF DockerInv, Counted, LeaksAreDockers, GoesOn
<1>5. CASE /\ dockerFaults' = dockerFaults + 1 /\ Raise
           /\ containers' \in {containers, containers \union {<<at, line>>}}
           /\ service' = service
  <2>1. containers' \ {service'} \subseteq (containers \ {service}) \union {<<at, line>>}
        /\ containers' \subseteq Nat \X Nat
    BY <1>2, <1>3, <1>5 DEF Counted
  <2>2. IsFiniteSet(containers') /\ IsFiniteSet(containers \ {service})
    BY <1>3, <1>5, FS_AddElement, FS_RemoveElement DEF Counted
  <2>3. Cardinality(containers' \ {service'}) <= dockerFaults + 1
    <3>1. IsFiniteSet(containers' \ {service'})
      BY <2>2, FS_RemoveElement
    <3>. QED  BY <1>3, <2>1, <3>1, OneMoreFailure
  <2>4. Counted'
    BY <1>5, <2>1, <2>2, <2>3 DEF Counted
  <2>5. service = None => Cardinality(containers') <= dockerFaults + 1
    <3>. SUFFICES ASSUME service = None PROVE Cardinality(containers') <= dockerFaults + 1
      OBVIOUS
    <3>1. containers' \ {service'} = containers'
      BY <1>5, <2>1, NoneIsNoStep
    <3>. QED  BY <2>3, <3>1
  <2>. QED  BY <1>5, <2>4, <2>5 DEF DockerInv, Raise, LeaksAreDockers
<1>. QED  BY <1>4, <1>5 DEF StartService

\* The service is gone, or forgotten and counted as a failure.
LEMMA RemovalCounted ==
  ASSUME RunOK, Counted, Removal
  PROVE  Counted' /\ service' = None /\ Cardinality(containers') <= dockerFaults'
<1>. USE DEF Counted
<1>0. dockerFaults \in Nat /\ service' = None
  BY DEF RunOK, Removal
<1>1. IsFiniteSet(containers \ {service})
  BY FS_RemoveElement
<1>2. CASE containers' = containers \ {service} /\ dockerFaults' = dockerFaults
  <2>1. IsFiniteSet(containers') /\ Cardinality(containers') <= dockerFaults'
        /\ containers' \subseteq Nat \X Nat
    BY <1>1, <1>2
  <2>2. containers' \ {None} = containers'
    BY <2>1, NoneIsNoStep
  <2>. QED  BY <1>0, <2>1, <2>2
<1>3. CASE containers' = containers /\ dockerFaults' = dockerFaults + 1
  <2>1. containers \subseteq (containers \ {service}) \union {service}
    OBVIOUS
  <2>2. Cardinality(containers) <= dockerFaults + 1
    BY <2>1, OneMoreFailure
  <2>3. containers \ {None} = containers
    BY NoneIsNoStep
  <2>. QED  BY <1>0, <1>3, <2>2, <2>3
<1>. QED  BY <1>2, <1>3 DEF Removal

LEMMA TimeoutCounted ==
  ASSUME RunOK, Counted, RemovalTimesOut
  PROVE  Counted' /\ service' = service /\ Cardinality(containers') <= dockerFaults'
<1>. USE DEF Counted
<1>1. dockerFaults \in Nat /\ service' = service /\ dockerFaults' = dockerFaults + 1
      /\ containers' \in {containers, containers \ {service}}
  BY DEF RunOK, RemovalTimesOut
<1>2. IsFiniteSet(containers \ {service})
  BY FS_RemoveElement
<1>3. IsFiniteSet(containers') /\ containers' \subseteq Nat \X Nat
  BY <1>1, <1>2
<1>4. containers' \subseteq (containers \ {service}) \union {service}
      /\ containers' \ {service} \subseteq containers \ {service}
  BY <1>1
<1>5. Cardinality(containers') <= dockerFaults + 1
  BY <1>3, <1>4, OneMoreFailure
<1>6. Cardinality(containers' \ {service}) <= dockerFaults + 1
  BY <1>1, <1>2, <1>4, FewerContainers
<1>. QED  BY <1>1, <1>3, <1>5, <1>6

LEMMA DockerStep ==
  ASSUME RunOK, DockerInv, CampaignNext
  PROVE  DockerInv'
<1>0. Proceeds /\ Place /\ Counted
  BY StepMoves DEF RunOK, DockerInv
<1>1. CASE StartService
  BY <1>1, StartCounted
<1>2. CASE StopService
  <2>1. CASE service = None /\ Advance /\ UNCHANGED <<docker, disturbances>>
    <3>1. at' = 1 => at = 1
      BY <1>0, <2>1, Advances, Kinds DEF GoesOn, ToNext, ToEnd, Place, Proceeds
    <3>2. service' = None /\ Counted' /\ Cardinality(containers') <= dockerFaults'
      BY <1>0, <2>1, AllCounted DEF Counted, docker
    <3>. QED  BY <3>1, <3>2 DEF DockerInv, LeaksAreDockers
  <2>2. CASE Removal /\ Advance
    <3>1. Counted' /\ service' = None /\ Cardinality(containers') <= dockerFaults'
      BY <1>0, <2>2, RemovalCounted
    <3>. QED  BY <3>1 DEF DockerInv, LeaksAreDockers
  <2>3. CASE service # None /\ RemovalTimesOut /\ Raise
    <3>1. Counted' /\ service' = service /\ Cardinality(containers') <= dockerFaults'
      BY <1>0, <2>3, TimeoutCounted
    <3>. QED  BY <2>3, <3>1 DEF DockerInv, LeaksAreDockers, Raise
  <2>. QED  BY <1>2, <2>1, <2>2, <2>3 DEF StopService
<1>3. CASE Finally
  <2>1. CASE Removal /\ Advance
    <3>1. Counted' /\ service' = None /\ Cardinality(containers') <= dockerFaults'
      BY <1>0, <2>1, RemovalCounted
    <3>. QED  BY <3>1 DEF DockerInv, LeaksAreDockers
  <2>2. CASE RemovalTimesOut /\ status' = "raised" /\ UNCHANGED <<at, line>>
    <3>1. Counted' /\ service' = service /\ Cardinality(containers') <= dockerFaults'
      BY <1>0, <2>2, TimeoutCounted
    <3>. QED  BY <2>2, <3>1 DEF DockerInv, LeaksAreDockers
  <2>. QED  BY <1>3, <2>1, <2>2 DEF Finally
<1>4. CASE Unwind
  <2>1. status' = "raised" /\ at' = at /\ line' = line
    BY <1>4 DEF Unwind
  <2>2. CASE Removal
    <3>1. Counted' /\ service' = None /\ Cardinality(containers') <= dockerFaults'
      BY <1>0, <2>2, RemovalCounted
    <3>. QED  BY <3>1 DEF DockerInv, LeaksAreDockers
  <2>3. CASE RemovalTimesOut
    <3>1. Counted' /\ service' = service /\ Cardinality(containers') <= dockerFaults'
      BY <1>0, <2>3, TimeoutCounted
    <3>. QED  BY <2>1, <3>1 DEF DockerInv, LeaksAreDockers
  <2>. QED  BY <1>4, <2>2, <2>3 DEF Unwind
<1>5. CASE RunOneShot
  <2>1. status = "running" /\ smoke' = smoke /\ service' = service
        /\ Op \in {"export", "import", "bootstrap"}
    BY <1>5 DEF RunOneShot, Doing, OneShot
  <2>2. CASE Advance /\ UNCHANGED <<containers, dockerFaults>>
    BY <2>1, <2>2, QuietStep DEF docker
  <2>3. CASE /\ dockerFaults' = dockerFaults + 1 /\ Raise
             /\ containers' \in {containers, containers \union {<<at, line>>}}
    <3>0. <<at, line>> \in Nat \X Nat /\ dockerFaults \in Nat
      BY StepOfService DEF RunOK
    <3>1. containers' \ {service'} \subseteq (containers \ {service}) \union {<<at, line>>}
          /\ containers' \subseteq Nat \X Nat
      BY <1>0, <2>1, <2>3, <3>0 DEF Counted
    <3>2. IsFiniteSet(containers') /\ IsFiniteSet(containers \ {service})
      <4>1. IsFiniteSet(containers)
        BY <1>0 DEF Counted
      <4>2. IsFiniteSet(containers \union {<<at, line>>}) /\ IsFiniteSet(containers \ {service})
        BY <4>1, FS_AddElement, FS_RemoveElement
      <4>. QED  BY <2>3, <4>1, <4>2
    <3>3. Cardinality(containers' \ {service'}) <= dockerFaults + 1
      <4>1. IsFiniteSet(containers' \ {service'})
        BY <3>2, FS_RemoveElement
      <4>. QED  BY <1>0, <3>1, <4>1, OneMoreFailure
    <3>4. Counted'
      BY <2>3, <3>1, <3>2, <3>3 DEF Counted
    <3>5. service' = None => Cardinality(containers') <= dockerFaults'
      <4>1. service' = None => containers' \ {service'} = containers'
        BY <3>1, NoneIsNoStep
      <4>. QED  BY <2>3, <3>3, <4>1
    <3>. QED  BY <2>1, <2>3, <3>4, <3>5 DEF DockerInv, LeaksAreDockers, Raise
  <2>. QED  BY <1>5, <2>2, <2>3 DEF RunOneShot
<1>6. CASE \/ Fail \/ Mark \/ Prepare \/ LogArtifact \/ NativeDelete \/ Recover
           \/ CountBefore \/ LookPrimary \/ LookDerivative \/ LookRecovered
           \/ CountAfter \/ CountLast \/ ApplyControl \/ Purge \/ LookAgain \/ Record
  <2>1. status = "running" /\ InCase /\ Op \notin {"stop", "stopGracefully", "finally"}
        /\ (Advance \/ Raise)
    BY <1>6, CaseSteps
  <2>. QED  BY <1>0, <2>1, QuietStep DEF InCase, Proceeds
<1>7. CASE OpenAssets \/ PrepareAssets \/ HashCore \/ HashCoreAgain \/ WriteBundle
  <2>1. status = "running" /\ Runs /\ Op \notin {"stop", "stopGracefully", "finally"}
        /\ (Advance \/ Raise)
    BY <1>7, RunnerSteps DEF RunnerVerbs
  <2>. QED  BY <1>0, <2>1, QuietStep DEF Runs, Proceeds
<1>8. CASE Edit \/ Kill \/ Rerun \/ Ended
  <2>1. UNCHANGED docker /\ smoke' = smoke
    BY <1>8 DEF Edit, Kill, Rerun, Ended, Runs, campaignVars
  <2>2. Counted'
    BY <1>0, <2>1 DEF Counted, docker
  <2>3. at' = at /\ line' = line
    BY <1>8, HereIs, Kinds DEF Edit, Kill, Rerun, Ended, campaignVars, RunOK, Place
  <2>4. CASE Edit \/ Ended
    BY <2>1, <2>2, <2>3, <2>4, <1>0, StaysPut
       DEF Edit, Ended, campaignVars, DockerInv, LeaksAreDockers, docker
  <2>5. CASE Kill
    BY <2>1, <2>2, <2>3, <2>5 DEF Kill, DockerInv, LeaksAreDockers, docker
  <2>6. CASE Rerun /\ files = {}
    <3>1. at = 1
      BY <2>6, HereIs, Kinds DEF RunOK, Place
    <3>2. status' = "running"
      BY <2>6 DEF Rerun
    <3>. QED  BY <2>1, <2>2, <2>3, <3>1, <3>2 DEF DockerInv, LeaksAreDockers, docker
  <2>7. CASE Rerun /\ files # {}
    <3>1. status' = "refused"
      BY <2>7 DEF Rerun
    <3>. QED  BY <2>1, <2>2, <2>3, <3>1 DEF DockerInv, LeaksAreDockers, docker
  <2>. QED  BY <1>8, <2>4, <2>5, <2>6, <2>7
<1>. QED  BY StepKinds, <1>1, <1>2, <1>3, <1>4, <1>5, <1>6, <1>7, <1>8

-----------------------------------------------------------------------------
(* The core files.                                                          *)

CoreInv ==
  /\ \A c \in DOMAIN records : records[c].core = frozen
  /\ at = 1 => DOMAIN records = {}
  /\ "provenance" \in files => status \in {"done", "refused"} /\ ~ smoke

\* Who writes a record, takes the core hash and writes a file.
LEMMA Writers ==
  ASSUME CampaignNext
  PROVE  /\ records' = records \/ Record
         /\ frozen' = frozen \/ HashCore
         /\ files' = files \/ OpenAssets \/ PrepareAssets \/ WriteBundle \/ Kill
<1>1. ASSUME StartService \/ StopService \/ Finally \/ Unwind \/ RunOneShot
      PROVE  records' = records /\ frozen' = frozen /\ files' = files
  BY <1>1 DEF StartService, StopService, Finally, Unwind, RunOneShot, evidence
<1>2. ASSUME Fail \/ Mark \/ Prepare \/ LogArtifact \/ NativeDelete \/ Recover
      PROVE  records' = records /\ frozen' = frozen /\ files' = files
  BY <1>2 DEF Fail, Mark, Prepare, LogArtifact, NativeDelete, Recover, evidence, InCase
<1>3. ASSUME CountBefore \/ LookPrimary \/ LookDerivative \/ LookRecovered \/ CountAfter \/ CountLast
      PROVE  records' = records /\ frozen' = frozen /\ files' = files
  BY <1>3 DEF CountBefore, LookPrimary, LookDerivative, LookRecovered, CountAfter, CountLast,
              Observe, InCase
<1>4. ASSUME ApplyControl \/ Purge \/ LookAgain
      PROVE  records' = records /\ frozen' = frozen /\ files' = files
  BY <1>4 DEF ApplyControl, Purge, LookAgain, InCase
<1>5. ASSUME Record PROVE frozen' = frozen /\ files' = files
  BY <1>5 DEF Record, InCase
<1>6. ASSUME OpenAssets \/ PrepareAssets \/ HashCoreAgain \/ WriteBundle \/ Kill
      PROVE  records' = records /\ frozen' = frozen /\ (files' = files \/ ~ HashCoreAgain)
  BY <1>6 DEF OpenAssets, PrepareAssets, HashCoreAgain, WriteBundle, Kill, Runs, evidence
<1>7. ASSUME HashCore PROVE records' = records /\ files' = files
  BY <1>7 DEF HashCore, Runs, evidence
<1>8. ASSUME Edit \/ Rerun \/ Ended
      PROVE  records' = records /\ frozen' = frozen /\ files' = files
  BY <1>8 DEF Edit, Rerun, Ended, Runs, evidence, campaignVars
<1>9. HashCoreAgain => files' = files
  BY DEF HashCoreAgain
<1>. QED  BY StepKinds, <1>1, <1>2, <1>3, <1>4, <1>5, <1>6, <1>7, <1>8, <1>9

LEMMA CoreStep ==
  ASSUME RunOK, CoreInv, CampaignNext
  PROVE  CoreInv'
<1>1. at' = 1 => at = 1
  BY StepMoves, Advances, Kinds DEF Proceeds, GoesOn, ToNext, ToEnd, RunOK, Place
<1>2. Record => at > 1
  BY OpElsewhere, HereIs, Kinds DEF Record, Doing, CaseVerbs, KeycloakVerbs, RunOK, Kind, Place
<1>3. HashCore => at = 1
  BY OpElsewhere DEF HashCore, Doing, RunOK
<1>4. (\A c \in DOMAIN records' : records'[c].core = frozen') /\ (at' = 1 => DOMAIN records' = {})
  <2>1. CASE Record
    <3>1. records' = [c \in DOMAIN records \union {ThisCase} |->
                       IF c = ThisCase THEN RecordHere ELSE records[c]]
          /\ frozen' = frozen
      BY <2>1 DEF Record, InCase
    <3>2. RecordHere.core = frozen
      BY DEF RecordHere
    <3>. QED  BY <1>1, <1>2, <2>1, <3>1, <3>2 DEF CoreInv
  <2>2. CASE ~ Record /\ HashCore
    BY <1>1, <1>3, <2>2, Writers DEF CoreInv
  <2>3. CASE ~ Record /\ ~ HashCore
    BY <1>1, <2>3, Writers DEF CoreInv
  <2>. QED  BY <2>1, <2>2, <2>3
<1>5. "provenance" \in files' => status' \in {"done", "refused"} /\ ~ smoke'
  <2>0. smoke' = smoke
    BY StepMoves DEF Proceeds
  <2>1. CASE "provenance" \in files
    <3>1. status \in {"done", "refused"} /\ ~ smoke
      BY <2>1 DEF CoreInv
    <3>2. status' \in {"done", "refused"}
      <4>1. CASE StartService \/ StopService \/ Finally \/ Unwind \/ RunOneShot
        BY <3>1, <4>1 DEF StartService, StopService, Finally, Unwind, RunOneShot, Doing
      <4>2. CASE \/ Fail \/ Mark \/ Prepare \/ LogArtifact \/ NativeDelete \/ Recover
                 \/ CountBefore \/ LookPrimary \/ LookDerivative \/ LookRecovered
                 \/ CountAfter \/ CountLast \/ ApplyControl \/ Purge \/ LookAgain \/ Record
        BY <3>1, <4>2, CaseSteps
      <4>3. CASE OpenAssets \/ PrepareAssets \/ HashCore \/ HashCoreAgain \/ WriteBundle
        BY <3>1, <4>3, RunnerSteps
      <4>4. CASE Edit \/ Kill \/ Rerun \/ Ended
        BY <2>1, <3>1, <4>4 DEF Edit, Kill, Rerun, Ended, campaignVars
      <4>. QED  BY StepKinds, <4>1, <4>2, <4>3, <4>4
    <3>. QED  BY <2>0, <3>1, <3>2
  <2>2. CASE "provenance" \notin files /\ "provenance" \in files'
    <3>1. CASE OpenAssets \/ PrepareAssets \/ Kill
      BY <2>2, <3>1 DEF OpenAssets, PrepareAssets, Kill
    <3>2. CASE WriteBundle
      <4>1. PICK file \in DOMAIN Bundle : /\ Doing(Bundle[file]) /\ Advance
                                          /\ files' = files \union {file}
        BY <2>2, <3>2 DEF WriteBundle
      <4>2. file = "provenance" /\ Op = "writeProvenance" /\ status = "running"
        BY <2>2, <4>1 DEF Bundle, Doing
      <4>3. line = Len(Steps(Here)) /\ ~ smoke /\ at = Len(Parts)
        BY <4>2, OpElsewhere DEF RunOK
      <4>4. status' = "done"
        BY <2>0, <4>1, <4>3, Advances, Kinds, HereIs DEF GoesOn, ToNext, RunOK, ToEnd, Place
      <4>. QED  BY <2>0, <4>3, <4>4
    <3>. QED  BY <2>2, <3>1, <3>2, Writers
  <2>. QED  BY <2>1, <2>2
<1>. QED  BY <1>4, <1>5 DEF CoreInv

LEMMA PassFollows ==
  ASSUME CoreInv
  PROVE  PassIsOfOneCore
<1>. SUFFICES ASSUME Passes
              PROVE  /\ status \in {"done", "refused"}
                     /\ frozen = sealed /\ sealed = core
                     /\ FalseCompletes(records) = {}
                     /\ ~ smoke
  BY DEF PassIsOfOneCore
<1>1. "provenance" \in files /\ sealed = core /\ DOMAIN records = Matrix
      /\ Gates(records, core)
  BY DEF Passes, Verifies, Decision
<1>2. FalseCompletes(records) = {} /\ \A c \in DOMAIN records : records[c].core = core
  BY <1>1 DEF Gates
<1>3. <<Families[1], FaultStates[1]>> \in Matrix
  BY DEF Matrix, Families, FaultStates
<1>4. frozen = core
  BY <1>1, <1>2, <1>3 DEF CoreInv
<1>. QED  BY <1>1, <1>2, <1>4 DEF CoreInv

-----------------------------------------------------------------------------
(* The evidence.                                                            *)

CaseKeys == FamilyNames \X FaultNames
LedgerOK == ledger \in [FamilyNames -> Seq(FaultNames \union {"none"})]

\* The lines of a case in the ledger of its family.
Own(c) == { i \in 1..Len(ledger[c[1]]) : ledger[c[1]][i] = c[2] }

\* A record is bound to them, and they are consecutive.
IsOwn(c) ==
  /\ c \in CaseKeys
  /\ \E n \in Nat \ {0}, from \in Nat :
       /\ from + n <= Len(ledger[c[1]])
       /\ Own(c) = from + 1 .. from + n
       /\ records[c].evidence = [i \in 1..n |-> c[2]]
\* The case of a record is over, but for the finally of its service.
IsOver(c) == \E k \in 1..at : /\ Parts[k] = CaseOf(c[1], c[2])
                              /\ k = at => Op = "finally"

RecordsOwn == \A c \in DOMAIN records : IsOwn(c) /\ IsOver(c)
NothingAhead ==
  \A c \in CaseKeys : \A k \in at..Len(Parts) :
    Parts[k] = CaseOf(c[1], c[2]) /\ (k = at => line = 1) => Own(c) = {}
MarkIsStart ==
  Here.name = "case" /\ line > 1 =>
    /\ mark \in Nat /\ mark <= Len(ledger[Here.family])
    /\ Own(ThisCase) = mark + 1 .. Len(ledger[Here.family])
    /\ line > 3 => mark < Len(ledger[Here.family])
ClientNumbers == service # None /\ status = "running" => client = Len(ledger[Here.family])

EvidenceInv == LedgerOK /\ RecordsOwn /\ NothingAhead /\ MarkIsStart /\ ClientNumbers

LEMMA Appending ==
  ASSUME LedgerOK, Here.family \in FamilyNames, Here.fault \in FaultNames \union {"none"},
         NEW n \in 0..2, Appends(n)
  PROVE  /\ LedgerOK'
         /\ \A f \in FamilyNames : f # Here.family => ledger'[f] = ledger[f]
         /\ Len(ledger[Here.family]) \in Nat
         /\ Len(ledger'[Here.family]) = Len(ledger[Here.family]) + n
         /\ \A c \in CaseKeys : c # ThisCase => Own(c)' = Own(c)
         /\ Here' = Here =>
              Own(ThisCase)' = Own(ThisCase) \union
                (Len(ledger[Here.family]) + 1 .. Len(ledger[Here.family]) + n)
<1>. DEFINE old == ledger[Here.family]
            lines == [i \in 1..n |-> Here.fault]
            new == old \o lines
            S == FaultNames \union {"none"}
<1>1. old \in Seq(S) /\ lines \in Seq(S) /\ Len(lines) = n /\ n \in Nat
  BY DEF LedgerOK
<1>2. ledger' = [ledger EXCEPT ![Here.family] = new]
  BY DEF Appends
<1>. HIDE DEF lines
<1>3. /\ new \in Seq(S) /\ Len(old) \in Nat /\ Len(new) = Len(old) + n
      /\ \A i \in 1..Len(old) : new[i] = old[i]
      /\ \A i \in Len(old) + 1 .. Len(old) + n : new[i] = lines[i - Len(old)]
  BY <1>1
<1>4. \A i \in Len(old) + 1 .. Len(old) + n : new[i] = Here.fault
  BY <1>1, <1>3 DEF lines
<1>. HIDE DEF new, S, old
<1>5. LedgerOK'
  BY <1>2, <1>3 DEF LedgerOK, S
<1>6. \A f \in FamilyNames : f # Here.family => ledger'[f] = ledger[f]
  BY <1>2 DEF LedgerOK
<1>7. ledger'[Here.family] = new
  BY <1>2 DEF LedgerOK
<1>8. ASSUME NEW c \in CaseKeys, c # ThisCase
      PROVE  Own(c)' = Own(c)
  <2>1. c[1] \in FamilyNames /\ c[2] \in FaultNames /\ c = <<c[1], c[2]>>
    BY DEF CaseKeys
  <2>2. CASE c[1] # Here.family
    <3>1. ledger'[c[1]] = ledger[c[1]]
      BY <1>6, <2>1, <2>2
    <3>. QED  BY <3>1 DEF Own
  <2>3. CASE c[1] = Here.family
    <3>1. c[2] # Here.fault
      BY <1>8, <2>1, <2>3 DEF ThisCase
    <3>2. Own(c)' = { i \in 1..Len(new) : new[i] = c[2] }
      BY <1>7, <2>3 DEF Own
    <3>3. Own(c) = { i \in 1..Len(old) : old[i] = c[2] }
      BY <2>3 DEF Own, old
    <3>. QED  BY <1>1, <1>3, <1>4, <3>1, <3>2, <3>3
  <2>. QED  BY <2>2, <2>3
<1>9. Here' = Here => Own(ThisCase)' = Own(ThisCase) \union (Len(old) + 1 .. Len(old) + n)
  <2>. SUFFICES ASSUME Here' = Here
                PROVE  Own(ThisCase)' = Own(ThisCase) \union (Len(old) + 1 .. Len(old) + n)
    OBVIOUS
  <2>1. Own(ThisCase)' = { i \in 1..Len(new) : new[i] = Here.fault }
    BY <1>7 DEF Own, ThisCase
  <2>2. Own(ThisCase) = { i \in 1..Len(old) : old[i] = Here.fault }
    BY DEF Own, ThisCase, old
  <2>. QED  BY <1>1, <1>3, <1>4, <2>1, <2>2
<1>. QED  BY <1>3, <1>5, <1>6, <1>7, <1>8, <1>9 DEF old

\* Who writes the ledger, and who numbers its lines.
LEMMA LedgerSteps ==
  ASSUME RunOK, CampaignNext
  PROVE  /\ \/ ledger' = ledger /\ client' = client
            \/ ledger' = ledger /\ StartService
            \/ /\ status = "running" /\ (Advance \/ Raise)
               /\ Op \in CaseVerbs \ {"start", "mark", "record", "finally", "stop", "stopGracefully",
                                      "export", "import", "bootstrap"}
               /\ records' = records /\ mark' = mark /\ service' = service
               /\ \E n \in 0..2 : Appends(n)
         /\ mark' = mark \/ Mark
<1>. DEFINE Wrote == \E n \in 0..2 : Appends(n)
            Quiet == ledger' = ledger /\ client' = client
<1>1. ASSUME StopService \/ Finally \/ Unwind \/ RunOneShot
      PROVE  Quiet /\ mark' = mark
  BY <1>1 DEF StopService, Finally, Unwind, RunOneShot, evidence
<1>2. ASSUME StartService PROVE ledger' = ledger /\ mark' = mark
  BY <1>2 DEF StartService
<1>3. ASSUME OpenAssets \/ PrepareAssets \/ HashCore \/ HashCoreAgain \/ WriteBundle
      PROVE  Quiet /\ mark' = mark
  BY <1>3, RunnerSteps DEF Runs, evidence
<1>4. ASSUME Edit \/ Kill \/ Rerun \/ Ended
      PROVE  Quiet /\ mark' = mark
  BY <1>4 DEF Edit, Kill, Rerun, Ended, Runs, evidence, campaignVars
<1>5. ASSUME Mark \/ Record
      PROVE  Quiet
  BY <1>5 DEF Mark, Record
<1>6. Record => mark' = mark
  BY DEF Record
<1>7. ASSUME \/ Fail \/ Prepare \/ LogArtifact \/ NativeDelete \/ Recover
             \/ CountBefore \/ LookPrimary \/ LookDerivative \/ LookRecovered
             \/ CountAfter \/ CountLast \/ ApplyControl \/ Purge \/ LookAgain
      PROVE  /\ Quiet \/ Wrote
             /\ mark' = mark /\ records' = records /\ service' = service
             /\ status = "running" /\ (Advance \/ Raise)
             /\ Op \in CaseVerbs \ {"start", "mark", "record", "finally", "stop", "stopGracefully",
                                    "export", "import", "bootstrap"}
  <2>1. /\ status = "running" /\ service' = service /\ (Advance \/ Raise)
        /\ Op \in CaseVerbs \ {"start", "finally", "stop", "stopGracefully",
                               "export", "import", "bootstrap"}
    BY <1>7, CaseSteps DEF InCase, docker
  <2>2. CASE Fail
    BY <2>1, <2>2 DEF Fail, CallsOut, Silently
  <2>3. CASE Prepare
    BY <2>1, <2>3 DEF Prepare, Setup
  <2>4. CASE LogArtifact
    BY <2>1, <2>4 DEF LogArtifact, evidence, Doing
  <2>5. CASE NativeDelete \/ Recover
    BY <2>1, <2>5 DEF NativeDelete, Recover, Doing
  <2>6. CASE \/ CountBefore \/ LookPrimary \/ LookDerivative \/ LookRecovered
             \/ CountAfter \/ CountLast
    BY <2>1, <2>6 DEF CountBefore, LookPrimary, LookDerivative, LookRecovered, CountAfter,
                      CountLast, Observe, Doing
  <2>7. CASE ApplyControl
    BY <2>1, <2>7 DEF ApplyControl, Silently, Doing
  <2>8. CASE Purge
    BY <2>1, <2>8 DEF Purge, Silently, Doing
  <2>9. CASE LookAgain
    BY <2>1, <2>9 DEF LookAgain, Silently, Doing
  <2>. QED  BY <1>7, <2>2, <2>3, <2>4, <2>5, <2>6, <2>7, <2>8, <2>9
<1>. QED
  BY StepKinds, <1>1, <1>2, <1>3, <1>4, <1>5, <1>6, <1>7

\* The first and the third step of a case.
LEMMA FirstSteps ==
  ASSUME RunOK, CampaignNext, Here.name = "case", at' = at, line' = line + 1
  PROVE  /\ line = 1 => Mark
         /\ line = 3 => Prepare
<1>0. line \in Nat /\ line' # line /\ (files = {} => line = 1)
  BY HereIs, Kinds DEF RunOK, Place
<1>1. (line = 1 => Op = "mark") /\ (line = 3 => Op \in DOMAIN Setup)
  BY OpOfCase DEF RunOK
<1>. SUFFICES ASSUME line \in {1, 3}
              PROVE  Mark \/ (Op \in DOMAIN Setup /\ Prepare)
  BY <1>1 DEF Mark, Prepare, Doing, Setup
<1>2. Op \in {"mark", "wait", "token", "create", "findSubject", "putRetained", "putSubject", "snapshot"}
  BY <1>1 DEF Setup
<1>3. CASE StartService \/ StopService \/ Finally \/ Unwind \/ RunOneShot
  BY <1>0, <1>2, <1>3 DEF StartService, StopService, Finally, Unwind, RunOneShot, Doing, OneShot
<1>4. CASE Fail \/ Edit \/ Kill \/ Ended
  BY <1>0, <1>4 DEF Fail, Raise, Edit, Kill, Ended, campaignVars
<1>5. CASE Rerun
  BY <1>0, <1>5 DEF Rerun
<1>6. CASE \/ LogArtifact \/ NativeDelete \/ Recover
           \/ CountBefore \/ LookPrimary \/ LookDerivative \/ LookRecovered
           \/ CountAfter \/ CountLast \/ ApplyControl \/ Purge \/ LookAgain \/ Record
  BY <1>2, <1>6 DEF LogArtifact, NativeDelete, Recover, CountBefore, LookPrimary, LookDerivative,
                    LookRecovered, CountAfter, CountLast, Observe, ApplyControl, Purge, LookAgain,
                    Record, Doing
<1>7. CASE OpenAssets \/ PrepareAssets \/ HashCore \/ HashCoreAgain \/ WriteBundle
  BY <1>2, <1>7, RunnerSteps DEF RunnerVerbs
<1>8. CASE Prepare
  BY <1>8 DEF Prepare
<1>. QED  BY StepKinds, <1>3, <1>4, <1>5, <1>6, <1>7, <1>8

\* The run moves on in a case, to the next part, or not at all.
LEMMA WhereNext ==
  ASSUME RunOK, CampaignNext
  PROVE  /\ Parts' = Parts /\ Len(Parts) \in Nat /\ at \in 1..Len(Parts) /\ line \in Nat /\ line >= 1
         /\ \/ at' = at /\ line' = line /\ Here' = Here /\ Op' = Op
            \/ GoesOn \/ ToNext
         /\ at' \in Nat /\ at <= at' /\ at' <= Len(Parts) /\ line' \in Nat /\ line' >= 1
<1>1. Len(Parts) \in Nat /\ at \in 1..Len(Parts) /\ line \in Nat /\ line >= 1
  BY HereIs, Kinds DEF RunOK, Place
<1>2. Proceeds /\ Place'
  BY StepMoves
<1>3. CASE at' = at /\ line' = line
  BY <1>1, <1>2, <1>3, Stays DEF RunOK, Proceeds
<1>4. CASE status = "running" /\ Advance
  <2>1. Parts' = Parts /\ (GoesOn \/ ToNext \/ ToEnd)
    BY <1>2, <1>4, Advances DEF RunOK, Proceeds
  <2>2. ToEnd => Op' = Op /\ Here' = Here /\ at' = at /\ line' = line
    BY <1>2, Stays DEF ToEnd, Proceeds, RunOK
  <2>. QED  BY <1>1, <2>1, <2>2 DEF GoesOn, ToNext
<1>. QED  BY <1>2, <1>3, <1>4 DEF Proceeds

\* A case with a record has nothing more to write.
LEMMA RecordIsClosed ==
  ASSUME RunOK, RecordsOwn, NEW c \in DOMAIN records, Op # "finally"
  PROVE  c \in CaseKeys /\ c # ThisCase
<1>1. PICK k \in 1..at : Parts[k] = CaseOf(c[1], c[2]) /\ k # at
  BY DEF RecordsOwn, IsOver
<1>2. c \in CaseKeys
  BY DEF RecordsOwn, IsOwn
<1>3. k \in 1..Len(Parts) /\ Parts[k].name = "case" /\ Parts[k].family = c[1] /\ Parts[k].fault = c[2]
  BY <1>1, Kinds, PartFields DEF RunOK, Place
<1>4. c # ThisCase
  <2>. SUFFICES ASSUME c = ThisCase PROVE FALSE
    OBVIOUS
  <2>1. c[1] = Here.family /\ c[2] = Here.fault
    BY DEF ThisCase
  <2>2. Here.name = "case"
    BY <1>2, <2>1, HereIs DEF RunOK, Kind, CaseKeys, FaultNames
  <2>. QED  BY <1>1, <1>3, <2>1, <2>2, CasesDiffer DEF Here, RunOK, Place
<1>. QED  BY <1>2, <1>4

LEMMA StillOver ==
  ASSUME RunOK, CampaignNext, NEW c, IsOver(c)
  PROVE  IsOver(c)'
<1>1. PICK k \in 1..at : Parts[k] = CaseOf(c[1], c[2]) /\ (k = at => Op = "finally")
  BY DEF IsOver
<1>2. k \in 1..at' /\ Parts'[k] = CaseOf(c[1], c[2])
  BY <1>1, WhereNext
<1>3. k = at' => Op' = "finally"
  <2>. SUFFICES ASSUME k = at' PROVE Op' = "finally"
    OBVIOUS
  <2>1. at' = at /\ Op = "finally"
    BY <1>1, WhereNext
  <2>2. line = Len(Steps(Here))
    BY <2>1, OpElsewhere DEF RunOK
  <2>. QED  BY <2>1, <2>2, WhereNext DEF GoesOn, ToNext
<1>. QED  BY <1>2, <1>3 DEF IsOver

LEMMA AheadBefore ==
  ASSUME RunOK, CampaignNext, NEW k \in at'..Len(Parts), k = at' => line' = 1
  PROVE  k \in at..Len(Parts) /\ (k = at => line = 1)
BY WhereNext DEF GoesOn, ToNext

\* A step that adds lines, or none, to the evidence of the case it is in.
LEMMA AppendingStep ==
  ASSUME RunOK, EvidenceInv, CampaignNext, NEW n \in 0..2, Appends(n), status = "running",
         Op \in CaseVerbs \ {"start", "mark", "record", "finally", "stop", "stopGracefully",
                             "export", "import", "bootstrap"},
         records' = records, mark' = mark, service' = service, DockerInv,
         Advance \/ Raise
  PROVE  LedgerOK' /\ RecordsOwn' /\ NothingAhead' /\ ClientNumbers'
<1>0. /\ Here.family \in FamilyNames /\ Here.fault \in FaultNames \union {"none"}
      /\ Here.name = "case" => line > 1
      /\ Here.name = "case" \/ (Here.name = "serve" /\ Here.fault = "none")
      /\ smoke' = smoke /\ Place
  <2>1. Place /\ line \in Nat /\ line >= 1 /\ Kind(at) /\ Here = Parts[at]
    BY HereIs, WhereNext DEF RunOK
  <2>2. Here.name \in {"case", "serve"}
    BY <2>1, OpElsewhere
  <2>. QED  BY <2>1, <2>2, OpOfCase, StepMoves DEF Kind, FamilyNames, Proceeds
<1>1. /\ LedgerOK'
      /\ \A f \in FamilyNames : f # Here.family => ledger'[f] = ledger[f]
      /\ Len(ledger[Here.family]) \in Nat
      /\ Len(ledger'[Here.family]) = Len(ledger[Here.family]) + n
      /\ \A c \in CaseKeys : c # ThisCase => Own(c)' = Own(c)
  BY <1>0, Appending DEF EvidenceInv
<1>2. RecordsOwn'
  <2>. SUFFICES ASSUME NEW c \in DOMAIN records PROVE IsOwn(c)' /\ IsOver(c)'
    BY DEF RecordsOwn
  <2>1. c \in CaseKeys /\ c # ThisCase /\ IsOwn(c) /\ IsOver(c)
    BY RecordIsClosed DEF EvidenceInv, RecordsOwn
  <2>2. Own(c)' = Own(c) /\ c[1] \in FamilyNames
    BY <1>1, <2>1 DEF CaseKeys
  <2>3. Len(ledger'[c[1]]) >= Len(ledger[c[1]]) /\ Len(ledger'[c[1]]) \in Nat
        /\ Len(ledger[c[1]]) \in Nat
    <3>1. \A f \in FamilyNames : Len(ledger[f]) \in Nat
      BY DEF LedgerOK, EvidenceInv
    <3>2. CASE c[1] = Here.family
      BY <1>1, <2>2, <3>1, <3>2
    <3>3. CASE c[1] # Here.family
      BY <1>1, <2>2, <3>1, <3>3
    <3>. QED  BY <3>2, <3>3
  <2>4. PICK m \in Nat \ {0}, from \in Nat :
          /\ from + m <= Len(ledger[c[1]])
          /\ Own(c) = from + 1 .. from + m
          /\ records[c].evidence = [i \in 1..m |-> c[2]]
    BY <2>1 DEF IsOwn
  <2>5. IsOwn(c)'
    <3>1. from + m <= Len(ledger'[c[1]])
      BY <2>3, <2>4
    <3>. QED  BY <2>1, <2>2, <2>4, <3>1 DEF IsOwn
  <2>. QED  BY <2>1, <2>5, StillOver
<1>3. NothingAhead'
  <2>. SUFFICES ASSUME NEW c \in CaseKeys, NEW k \in at'..Len(Parts),
                       Parts[k] = CaseOf(c[1], c[2]), k = at' => line' = 1
                PROVE  Own(c)' = {}
    BY WhereNext DEF NothingAhead
  <2>1. k \in at..Len(Parts) /\ (k = at => line = 1) /\ k \in 1..Len(Parts)
    BY AheadBefore, WhereNext
  <2>2. Own(c) = {}
    BY <2>1 DEF EvidenceInv, NothingAhead
  <2>3. Parts[k].name = "case" /\ c[1] = Parts[k].family /\ c[2] = Parts[k].fault
    BY PartFields
  <2>4. c # ThisCase
    <3>. SUFFICES ASSUME c = ThisCase PROVE FALSE
      OBVIOUS
    <3>1. Parts[k].family = Here.family /\ Parts[k].fault = Here.fault
      BY <2>3 DEF ThisCase
    <3>2. Here.name = "case"
      BY <1>0, <2>3, <3>1 DEF CaseKeys, FaultNames
    <3>3. k = at
      BY <1>0, <2>1, <2>3, <3>1, <3>2, CasesDiffer, WhereNext DEF Here, Place
    <3>. QED  BY <1>0, <2>1, <3>2, <3>3
  <2>5. Own(c)' = Own(c)
    BY <1>1, <2>3, <2>4
  <2>. QED  BY <2>2, <2>5
<1>4. ClientNumbers'
  <2>. SUFFICES ASSUME service # None, status' = "running"
                PROVE  client' = Len(ledger'[Here'.family])
    BY DEF ClientNumbers
  <2>1. Up /\ client = Len(ledger[Here.family])
    BY DEF EvidenceInv, ClientNumbers, DockerInv
  <2>2. client' = Len(ledger'[Here.family])
    BY <1>1, <2>1 DEF Appends
  <2>3. Here'.family = Here.family
    <3>1. CASE ToNext
      <4>1. Here.name = "serve" \/ (Here.name = "case" /\ Here.family # "keycloak")
        BY <1>0, <3>1, HereIs, OpOfCase DEF ToNext, Kind
      <4>. QED  BY <1>0, <3>1, <4>1, HereIs DEF ToNext, Kind
    <3>. QED  BY <3>1, WhereNext DEF GoesOn
  <2>. QED  BY <2>2, <2>3
<1>. QED  BY <1>1, <1>2, <1>3, <1>4

LEMMA SilentStep ==
  ASSUME RunOK, EvidenceInv, CampaignNext, ledger' = ledger
  PROVE  LedgerOK' /\ NothingAhead' /\ (records' = records => RecordsOwn')
<1>1. LedgerOK'
  BY DEF EvidenceInv, LedgerOK
<1>2. ASSUME NEW c PROVE Own(c)' = Own(c)
  BY DEF Own
<1>3. NothingAhead'
  <2>. SUFFICES ASSUME NEW c \in CaseKeys, NEW k \in at'..Len(Parts),
                       Parts[k] = CaseOf(c[1], c[2]), k = at' => line' = 1
                PROVE  Own(c)' = {}
    BY WhereNext DEF NothingAhead
  <2>1. k \in at..Len(Parts) /\ (k = at => line = 1)
    BY AheadBefore
  <2>2. Own(c) = {}
    BY <2>1 DEF EvidenceInv, NothingAhead
  <2>. QED  BY <1>2, <2>2
<1>4. ASSUME records' = records PROVE RecordsOwn'
  <2>. SUFFICES ASSUME NEW c \in DOMAIN records PROVE IsOwn(c)' /\ IsOver(c)'
    BY <1>4 DEF RecordsOwn
  <2>1. IsOwn(c) /\ IsOver(c)
    BY DEF EvidenceInv, RecordsOwn
  <2>2. IsOwn(c)'
    BY <1>2, <1>4, <2>1 DEF IsOwn
  <2>. QED  BY <2>1, <2>2, StillOver
<1>. QED  BY <1>1, <1>3, <1>4

\* Steps that write no line.
LEMMA SameNumbers ==
  ASSUME RunOK, EvidenceInv, DockerInv, CampaignNext, ledger' = ledger,
         client' = client \/ StartService
  PROVE  ClientNumbers'
<1>. SUFFICES ASSUME service' # None, status' = "running"
              PROVE  client' = Len(ledger[Here'.family])
  BY DEF ClientNumbers
<1>1. CASE StartService
  <2>1. /\ Op = "start" /\ smoke' = smoke /\ Advance /\ status = "running"
        /\ client' = IF Here.family = "none" THEN client ELSE Len(ledger[Here.family])
    BY <1>1 DEF StartService, Raise, Doing
  <2>2. GoesOn
    BY <2>1, StartsWhenDown DEF RunOK
  <2>3. Here.family # "none"
    BY <2>1, OpElsewhere, HereIs DEF RunOK, Kind
  <2>. QED  BY <2>1, <2>2, <2>3 DEF GoesOn
<1>2. CASE client' = client /\ ~ StartService
  <2>1. service' = service /\ (status = "running" \/ at = 1)
    <3>1. CASE StopService \/ Finally \/ Unwind
      <4>1. service' = None \/ status' # "running"
        BY <3>1 DEF StopService, Finally, Unwind, Removal, Raise, docker
      <4>. QED  BY <4>1
    <3>2. CASE RunOneShot
      BY <3>2 DEF RunOneShot, Doing
    <3>3. CASE \/ Fail \/ Mark \/ Prepare \/ LogArtifact \/ NativeDelete \/ Recover
               \/ CountBefore \/ LookPrimary \/ LookDerivative \/ LookRecovered
               \/ CountAfter \/ CountLast \/ ApplyControl \/ Purge \/ LookAgain \/ Record
      BY <3>3, CaseSteps DEF InCase, docker
    <3>4. CASE OpenAssets \/ PrepareAssets \/ HashCore \/ HashCoreAgain \/ WriteBundle
      BY <3>4, RunnerSteps DEF Runs, docker
    <3>5. CASE Edit \/ Kill \/ Rerun \/ Ended
      BY <3>5, WhereNext DEF Edit, Kill, Rerun, Ended, campaignVars, Runs, docker, RunOK
    <3>. QED  BY StepKinds, <1>2, <3>1, <3>2, <3>3, <3>4, <3>5
  <2>2. Up /\ status = "running" /\ client = Len(ledger[Here.family])
    BY <2>1 DEF EvidenceInv, ClientNumbers, DockerInv
  <2>3. Here'.family = Here.family
    <3>1. CASE ToNext /\ Op # "finally"
      <4>1. Here.name = "serve" \/ (Here.name = "case" /\ Here.family # "keycloak")
        BY <2>2, <3>1, HereIs, OpOfCase DEF ToNext, Kind, Up, RunOK
      <4>. QED  BY <3>1, <4>1, HereIs DEF ToNext, Kind, RunOK
    <3>2. CASE ToNext /\ Op = "finally"
      <4>1. Finally
        <5>1. CASE StartService \/ StopService \/ Unwind \/ RunOneShot
          BY <2>2, <3>2, <5>1 DEF StartService, StopService, Unwind, RunOneShot, Doing, OneShot
        <5>2. CASE \/ Fail \/ Mark \/ Prepare \/ LogArtifact \/ NativeDelete \/ Recover
                   \/ CountBefore \/ LookPrimary \/ LookDerivative \/ LookRecovered
                   \/ CountAfter \/ CountLast \/ ApplyControl \/ Purge \/ LookAgain \/ Record
          BY <3>2, <5>2, CaseSteps
        <5>3. CASE OpenAssets \/ PrepareAssets \/ HashCore \/ HashCoreAgain \/ WriteBundle
          BY <3>2, <5>3, RunnerSteps DEF RunnerVerbs
        <5>4. CASE Edit \/ Kill \/ Rerun \/ Ended
          <6>1. at' # at
            BY <3>2, WhereNext DEF ToNext
          <6>. QED  BY <2>2, <5>4, <6>1 DEF Edit, Kill, Rerun, Ended, campaignVars
        <5>. QED  BY StepKinds, <5>1, <5>2, <5>3, <5>4
      <4>2. service' = None
        BY <3>2, <4>1, WhereNext DEF Finally, Removal, ToNext
      <4>. QED  BY <4>2
    <3>. QED  BY <3>1, <3>2, WhereNext DEF GoesOn
  <2>. QED  BY <1>2, <2>2, <2>3
<1>. QED  BY <1>1, <1>2

\* The mark of a case, and the lines it has written since.
LEMMA MarkStep ==
  ASSUME RunOK, EvidenceInv, CampaignNext
  PROVE  MarkIsStart'
<1>. SUFFICES ASSUME Here'.name = "case", line' > 1
              PROVE  /\ mark' \in Nat /\ mark' <= Len(ledger'[Here'.family])
                     /\ Own(ThisCase)' = mark' + 1 .. Len(ledger'[Here'.family])
                     /\ line' > 3 => mark' < Len(ledger'[Here'.family])
  BY DEF MarkIsStart
<1>0. Here' = Here /\ at' = at /\ (line' = line \/ line' = line + 1) /\ line \in Nat /\ line >= 1
      /\ Place
  BY WhereNext DEF ToNext, GoesOn, RunOK
<1>1. Here.family \in FamilyNames /\ Here.fault \in FaultNames
      /\ \A f \in FamilyNames : Len(ledger[f]) \in Nat
  BY <1>0, HereIs DEF EvidenceInv, LedgerOK
<1>. DEFINE f == Here.family
            length == Len(ledger[f])
<1>2. CASE Mark
  <2>1. line = 1 /\ line' = 2 /\ mark' = length /\ ledger' = ledger
    BY <1>0, <1>2, OpOfCase DEF Mark, Doing
  <2>2. Own(ThisCase) = {}
    <3>1. ThisCase \in CaseKeys /\ ThisCase[1] = Here.family /\ ThisCase[2] = Here.fault
      BY <1>1 DEF ThisCase, CaseKeys
    <3>2. Parts[at] = CaseOf(ThisCase[1], ThisCase[2])
      BY <1>0, <3>1, HereIs, PartFields DEF Kind
    <3>. QED  BY <2>1, <3>1, <3>2, WhereNext DEF EvidenceInv, NothingAhead
  <2>3. ThisCase' = ThisCase
    BY <1>0 DEF ThisCase
  <2>4. Own(ThisCase)' = Own(ThisCase)
    BY <2>1, <2>3 DEF Own
  <2>. QED  BY <1>0, <1>1, <2>1, <2>2, <2>4
<1>3. CASE ~ Mark
  <2>1. line > 1
    BY <1>0, <1>3, FirstSteps
  <2>2. /\ mark \in Nat /\ mark <= length /\ Own(ThisCase) = mark + 1 .. length
        /\ line > 3 => mark < length
    BY <1>0, <2>1 DEF EvidenceInv, MarkIsStart
  <2>3. mark' = mark /\ length \in Nat
    BY <1>1, <1>3, LedgerSteps
  <2>4. ThisCase' = ThisCase
    BY <1>0 DEF ThisCase
  <2>5. ASSUME NEW n \in 0..2, Appends(n), line = 3 /\ line' = 4 => n > 0
        PROVE  /\ mark' <= Len(ledger'[f])
               /\ Own(ThisCase)' = mark' + 1 .. Len(ledger'[f])
               /\ line' > 3 => mark' < Len(ledger'[f])
    <3>1. Len(ledger'[f]) = length + n /\ Own(ThisCase)' = Own(ThisCase) \union (length + 1 .. length + n)
      BY <1>0, <1>1, <2>5, Appending DEF EvidenceInv
    <3>. HIDE DEF length, f
    <3>2. (mark + 1 .. length) \union (length + 1 .. length + n) = mark + 1 .. length + n
      BY <2>2, <2>3
    <3>. QED  BY <1>0, <2>1, <2>2, <2>3, <2>5, <3>1, <3>2
  <2>6. CASE line = 3 /\ line' = 4
    <3>1. Prepare
      BY <1>0, <2>6, FirstSteps
    <3>2. \E n \in 1..2 : Appends(n)
      BY <3>1 DEF Prepare
    <3>. QED  BY <1>0, <2>3, <2>2, <2>5, <3>2
  <2>7. CASE ~ (line = 3 /\ line' = 4)
    <3>1. CASE \E n \in 0..2 : Appends(n)
      BY <1>0, <2>2, <2>3, <2>5, <2>7, <3>1
    <3>2. CASE ledger' = ledger
      <4>1. Own(ThisCase)' = Own(ThisCase)
        BY <2>4, <3>2 DEF Own
      <4>2. line' > 3 => line > 3
        BY <1>0, <2>7
      <4>. QED  BY <1>0, <2>2, <2>3, <3>2, <4>1, <4>2
    <3>. QED  BY <3>1, <3>2, LedgerSteps
  <2>. QED  BY <2>6, <2>7
<1>. QED  BY <1>2, <1>3

\* The slice a case writes into its record.
LEMMA RecordStep ==
  ASSUME RunOK, EvidenceInv, CampaignNext, Record
  PROVE  RecordsOwn'
<1>0. /\ Op = "record" /\ status = "running" /\ Advance /\ ledger' = ledger /\ smoke' = smoke /\ Place
      /\ records' = [c \in DOMAIN records \union {ThisCase} |->
                      IF c = ThisCase THEN RecordHere ELSE records[c]]
  BY DEF Record, Doing, InCase, RunOK
<1>1. /\ Here.name = "case" /\ Here.family \in FamilyNames /\ Here.fault \in FaultNames
      /\ line \in 1..Len(Steps(Here)) /\ Len(Steps(Here)) \in Nat
      /\ Belongs(Steps(Here), Here.family, Here.fault)
  BY <1>0, OpElsewhere, HereIs DEF CaseVerbs, KeycloakVerbs, Place
<1>2. line > 3 /\ line = (IF Here.family = "keycloak" THEN Len(Steps(Here)) - 1 ELSE Len(Steps(Here)))
  BY <1>0, <1>1, OpOfCase DEF Belongs
<1>. DEFINE f == Here.family
            length == Len(ledger[f])
            n == length - mark
<1>3. /\ mark \in Nat /\ length \in Nat /\ mark < length /\ n \in Nat \ {0}
      /\ Own(ThisCase) = mark + 1 .. length
  <2>1. length \in Nat
    BY <1>1 DEF EvidenceInv, LedgerOK
  <2>2. mark \in Nat /\ mark < length /\ Own(ThisCase) = mark + 1 .. length
    BY <1>1, <1>2 DEF EvidenceInv, MarkIsStart
  <2>. QED  BY <2>1, <2>2
<1>4. RecordHere.evidence = [i \in 1..n |-> Here.fault]
  <2>1. ledger[f] \in Seq(FaultNames \union {"none"})
    BY <1>1 DEF EvidenceInv, LedgerOK
  <2>2. \A i \in mark + 1 .. length : ledger[f][i] = Here.fault
    BY <1>3 DEF Own, ThisCase
  <2>3. RecordHere.evidence = SubSeq(ledger[f], mark + 1, length)
    BY DEF RecordHere
  <2>4. SubSeq(ledger[f], mark + 1, length) = [i \in 1..n |-> ledger[f][mark + 1 + i - 1]]
    BY <1>3, <2>1
  <2>5. \A i \in 1..n : ledger[f][mark + 1 + i - 1] = Here.fault
    BY <1>3, <2>2
  <2>. QED  BY <2>3, <2>4, <2>5
<1>5. ASSUME NEW c, c = ThisCase
      PROVE  IsOwn(c)' /\ IsOver(c)'
  <2>1. c \in CaseKeys /\ c[1] = f /\ c[2] = Here.fault
    BY <1>1, <1>5 DEF ThisCase, CaseKeys
  <2>2. Own(c)' = mark + 1 .. length
    BY <1>0, <1>3, <1>5 DEF Own
  <2>3. records'[c].evidence = [i \in 1..n |-> c[2]]
    BY <1>0, <1>4, <1>5, <2>1
  <2>4. IsOwn(c)'
    <3>1. Len(ledger'[c[1]]) = length /\ mark + n = length
      BY <1>0, <1>3, <2>1
    <3>. HIDE DEF length, n, f
    <3>2. mark + n <= Len(ledger'[c[1]]) /\ Own(c)' = mark + 1 .. mark + n
      BY <1>3, <2>2, <3>1
    <3>. QED  BY <1>3, <2>1, <2>3, <3>2 DEF IsOwn
  <2>5. IsOver(c)'
    <3>1. Parts'[at] = CaseOf(c[1], c[2])
      BY <1>0, <1>1, <2>1, HereIs, WhereNext, PartFields DEF Kind
    <3>2. at \in 1..at'
      BY WhereNext
    <3>3. at = at' => Op' = "finally"
      <4>. SUFFICES ASSUME at = at' PROVE Op' = "finally"
        OBVIOUS
      <4>1. GoesOn
        <5>1. ~ ToEnd
          BY <1>1, HereIs, <1>0 DEF ToEnd, Kind
        <5>. QED  BY <1>0, <5>1, Advances, WhereNext DEF ToNext
      <4>2. line' = Len(Steps(Here)) /\ Here.family = "keycloak"
        BY <1>1, <1>2, <4>1 DEF GoesOn
      <4>3. Place'
        BY StepMoves
      <4>4. Op' = Steps(Here)[line']
        BY <4>1 DEF GoesOn, Op
      <4>. QED  BY <1>1, <4>2, <4>4 DEF Belongs
    <3>. QED  BY <3>1, <3>2, <3>3 DEF IsOver
  <2>. QED  BY <2>4, <2>5
<1>6. ASSUME NEW c \in DOMAIN records, c # ThisCase
      PROVE  IsOwn(c)' /\ IsOver(c)'
  <2>1. IsOwn(c) /\ IsOver(c)
    BY DEF EvidenceInv, RecordsOwn
  <2>2. Own(c)' = Own(c) /\ records'[c] = records[c]
    BY <1>0, <1>6 DEF Own
  <2>. QED  BY <1>0, <2>1, <2>2, StillOver DEF IsOwn
<1>. QED  BY <1>0, <1>5, <1>6 DEF RecordsOwn

LEMMA EvidenceStep ==
  ASSUME RunOK, DockerInv, EvidenceInv, CampaignNext
  PROVE  EvidenceInv'
<1>1. MarkIsStart'
  BY MarkStep
<1>2. CASE ledger' = ledger /\ (client' = client \/ StartService)
  <2>1. LedgerOK' /\ NothingAhead' /\ (records' = records => RecordsOwn') /\ ClientNumbers'
    BY <1>2, SilentStep, SameNumbers
  <2>2. RecordsOwn'
    BY <2>1, RecordStep, Writers
  <2>. QED  BY <1>1, <2>1, <2>2 DEF EvidenceInv
<1>3. CASE /\ status = "running" /\ (Advance \/ Raise)
           /\ Op \in CaseVerbs \ {"start", "mark", "record", "finally", "stop", "stopGracefully",
                                  "export", "import", "bootstrap"}
           /\ records' = records /\ mark' = mark /\ service' = service
           /\ \E n \in 0..2 : Appends(n)
  BY <1>1, <1>3, AppendingStep DEF EvidenceInv
<1>. QED  BY <1>2, <1>3, LedgerSteps

LEMMA EvidenceFollows ==
  ASSUME RunOK, EvidenceInv
  PROVE  EvidenceIsOwn
<1>1. ASSUME NEW c \in DOMAIN records
      PROVE  LET lines == ledger[c[1]]
                 own == { i \in DOMAIN lines : lines[i] = c[2] }
             IN  /\ own # {}
                 /\ \E from \in 0..Len(lines) :
                      /\ own = from + 1 .. from + Len(records[c].evidence)
                      /\ records[c].evidence
                           = SubSeq(lines, from + 1, from + Len(records[c].evidence))
  <2>. DEFINE lines == ledger[c[1]]
  <2>1. c \in CaseKeys /\ IsOwn(c)
    BY <1>1 DEF EvidenceInv, RecordsOwn, IsOwn
  <2>2. lines \in Seq(FaultNames \union {"none"}) /\ Len(lines) \in Nat /\ DOMAIN lines = 1..Len(lines)
    BY <2>1 DEF EvidenceInv, LedgerOK, CaseKeys
  <2>3. PICK n \in Nat \ {0}, from \in Nat :
          /\ from + n <= Len(lines)
          /\ Own(c) = from + 1 .. from + n
          /\ records[c].evidence = [i \in 1..n |-> c[2]]
    BY <2>1 DEF IsOwn
  <2>4. Own(c) = { i \in DOMAIN lines : lines[i] = c[2] }
    BY <2>2 DEF Own
  <2>. HIDE DEF lines
  <2>5. Len(records[c].evidence) = n
    BY <2>3
  <2>6. \A i \in from + 1 .. from + n : lines[i] = c[2]
    BY <2>3, <2>4
  <2>7. SubSeq(lines, from + 1, from + n) = [i \in 1..n |-> lines[from + 1 + i - 1]]
    BY <2>2, <2>3
  <2>8. \A i \in 1..n : lines[from + 1 + i - 1] = c[2]
    BY <2>3, <2>6
  <2>9. records[c].evidence = SubSeq(lines, from + 1, from + n)
    BY <2>3, <2>7, <2>8
  <2>10. from + 1 \in Own(c) /\ from \in 0..Len(lines)
    BY <2>2, <2>3
  <2>. QED  BY <2>3, <2>4, <2>5, <2>9, <2>10 DEF lines
<1>2. status = "running" /\ service # None /\ ~ Of("none") /\ Op # "finally" =>
        client = Len(ledger[Here.family])
  BY DEF EvidenceInv, ClientNumbers
<1>. QED  BY <1>1, <1>2 DEF EvidenceIsOwn

-----------------------------------------------------------------------------
(* The erasure.                                                             *)

Looks == {"lookPrimary", "lookDerivative", "recover", "lookRecovered", "control", "purge",
          "lookAgain"}
\* What the case has looked at and done.
Done == { op \in Looks : \E j \in 1..(line - 1) : Steps(Here)[j] = op }

QdrantInv ==
  LET clean == held \intersect {"primary", "derivative"} = {}
  IN  /\ held \subseteq {"primary", "derivative", "carrier"}
      /\ "carrier" \in held => Here.fault \in {"recovery_regeneration", "coverage_fault"}
      /\ (/\ "lookDerivative" \in Done
          /\ Here.fault # "recovery_regeneration"
          /\ outcome.derivative = "no")
         => clean
      /\ "recover" \in Done /\ "control" \notin Done /\ disturbances = 0 => "primary" \in held
      /\ "lookRecovered" \in Done =>
           /\ outcome.recurrence = "no" /\ outcome.derivative = "no" => clean
           /\ outcome.recurrence = "yes" \/ disturbances > 0
      /\ "purge" \in Done /\ Needed /\ "carrier" \in held => disturbances > 0
      /\ "lookAgain" \in Done /\ Needed /\ ~ again => clean

MlflowInv ==
  /\ held \subseteq {"primary", "hidden"}
  /\ "lookPrimary" \in Done /\ Here.fault # "recovery_regeneration" /\ outcome.absent =>
       "primary" \notin held
  /\ "lookDerivative" \in Done /\ outcome.derivative = "no" => artifacts = {}
  /\ "lookRecovered" \in Done /\ outcome.recurrence = "no" => "primary" \notin held
  /\ "purge" \in Done /\ Needed => "primary" \notin held
  /\ "lookAgain" \in Done /\ ~ again => artifacts = {}

KeycloakInv ==
  /\ held \subseteq {"primary", "derivative", "restored"}
  /\ "restored" \in held => Here.fault = "recovery_regeneration"
  /\ "lookPrimary" \in Done /\ outcome.absent => "primary" \notin held
  /\ "lookDerivative" \in Done /\ outcome.derivative = "no" => "derivative" \notin held
  /\ "lookRecovered" \in Done /\ outcome.recurrence = "no" => "restored" \notin held
  /\ "purge" \in Done /\ Needed => "derivative" \notin held
  /\ (/\ "lookAgain" \in Done
      /\ Here.fault = "recovery_regeneration"
      /\ ~ again)
     => "restored" \notin held

CaseInv ==
  Here.name = "case" /\ line > 1 =>
    /\ outcome.covered => "lookDerivative" \in Done
    /\ Of("qdrant") => QdrantInv
    /\ Of("mlflow") => MlflowInv
    /\ Of("keycloak") => KeycloakInv

ErasureInv == outcome \in PhysicalOutcome /\ CaseInv /\ ReportedErasureIsReal

LEMMA DoneGrows ==
  ASSUME RunOK, Here' = Here
  PROVE  /\ at' = at /\ line' = line => Done' = Done
         /\ GoesOn => Done' = Done \union ({Op} \intersect Looks)
<1>1. Steps(Here)' = Steps(Here)
  BY DEF Steps
<1>2. line \in 1..Len(Steps(Here)) /\ Len(Steps(Here)) \in Nat /\ Op = Steps(Here)[line]
  BY HereIs DEF RunOK, Place, Op
<1>. DEFINE S == Steps(Here)
<1>3. Done = { op \in Looks : \E j \in 1..(line - 1) : S[j] = op }
  BY DEF Done
<1>4. Done' = { op \in Looks : \E j \in 1..(line' - 1) : S[j] = op }
  BY <1>1 DEF Done
<1>. HIDE DEF S, Looks
<1>5. line' = line => Done' = Done
  BY <1>3, <1>4
<1>6. line' = line + 1 => Done' = Done \union ({Op} \intersect Looks)
  <2>. SUFFICES ASSUME line' = line + 1 PROVE Done' = Done \union ({Op} \intersect Looks)
    OBVIOUS
  <2>1. 1..(line' - 1) = (1..(line - 1)) \union {line}
    BY <1>2
  <2>. QED  BY <1>2, <1>3, <1>4, <2>1 DEF S
<1>. QED  BY <1>5, <1>6 DEF GoesOn

\* The order of a case, as what is done when.
LEMMA Order ==
  ASSUME RunOK, Here.name = "case"
  PROVE  /\ Op \in {"putSubject", "snapshot", "logArtifact", "export", "nativeDelete", "lookPrimary"} =>
              Done = {}
         /\ Op = "lookDerivative" => Done \subseteq {"lookPrimary"}
         /\ Op \in {"recover", "import"} => Done \subseteq {"lookPrimary", "lookDerivative"}
         /\ Op = "lookRecovered" =>
              /\ Done \subseteq {"lookPrimary", "lookDerivative", "recover"}
              /\ Of("qdrant") => "recover" \in Done
         /\ Op = "control" => Done \intersect {"control", "purge", "lookAgain"} = {}
         /\ Op = "purge" => Done \intersect {"purge", "lookAgain"} = {}
         /\ Op = "lookAgain" => "lookAgain" \notin Done
         /\ Op = "record" =>
              /\ "lookPrimary" \in Done
              /\ Here.fault # "coverage_fault" => {"lookDerivative", "purge", "lookAgain"} \subseteq Done
              /\ Here.fault = "recovery_regeneration" => "lookRecovered" \in Done
         /\ "lookDerivative" \in Done => Here.fault # "coverage_fault"
<1>. DEFINE S == Steps(Here)
<1>1. line \in 1..Len(S) /\ Len(S) \in Nat /\ Op = S[line]
  BY HereIs DEF RunOK, Place, Op
<1>2. InOrder(S) /\ IsComplete(S, Here.family, Here.fault)
  BY HereIs DEF RunOK
<1>3. Done = { op \in Looks : \E j \in 1..(line - 1) : S[j] = op }
  BY DEF Done
<1>. HIDE DEF S
<1>4. \A j \in 1..(line - 1) : j \in 1..Len(S) /\ j < line
  BY <1>1
<1>5. /\ Op \in {"putSubject", "snapshot", "logArtifact", "export", "nativeDelete", "lookPrimary"} =>
           Done = {}
      /\ Op = "lookDerivative" => Done \subseteq {"lookPrimary"}
      /\ Op \in {"recover", "import"} => Done \subseteq {"lookPrimary", "lookDerivative"}
      /\ Op = "lookRecovered" => Done \subseteq {"lookPrimary", "lookDerivative", "recover"}
      /\ Op = "control" => Done \intersect {"control", "purge", "lookAgain"} = {}
      /\ Op = "purge" => Done \intersect {"purge", "lookAgain"} = {}
      /\ Op = "lookAgain" => "lookAgain" \notin Done
  BY <1>1, <1>2, <1>3, <1>4 DEF InOrder, Looks
<1>6. \A op \in Looks : Before(S, line, op) => op \in Done
  BY <1>3 DEF Before
<1>7. /\ Op = "lookRecovered" /\ Of("qdrant") => "recover" \in Done
      /\ Op = "record" =>
           /\ "lookPrimary" \in Done
           /\ Here.fault # "coverage_fault" => {"lookDerivative", "purge", "lookAgain"} \subseteq Done
           /\ Here.fault = "recovery_regeneration" => "lookRecovered" \in Done
  BY <1>1, <1>2, <1>6 DEF IsComplete, Looks, Of
<1>8. "lookDerivative" \in Done => Here.fault # "coverage_fault"
  <2>1. Belongs(S, Here.family, Here.fault)
    BY HereIs DEF RunOK, S
  <2>. QED  BY <1>3, <1>4, <2>1 DEF Belongs
<1>. QED  BY <1>5, <1>7, <1>8

\* A step that changes nothing the erasure of a case depends on.
SameSight ==
  /\ held' = held /\ artifacts' = artifacts /\ again' = again
  /\ outcome'.absent = outcome.absent /\ outcome'.derivative = outcome.derivative
  /\ outcome'.recurrence = outcome.recurrence /\ outcome'.covered = outcome.covered

LEMMA NeutralStep ==
  ASSUME RunOK, CaseInv, SameSight, Here' = Here, line > 1,
         disturbances' \in Nat, disturbances' >= disturbances,
         (at' = at /\ line' = line) \/ (GoesOn /\ Op \notin Looks)
  PROVE  CaseInv'
<1>. SUFFICES ASSUME Here.name = "case"
              PROVE  CaseInv'
  BY DEF CaseInv
<1>1. Done' = Done /\ disturbances \in Nat
  <2>1. Done' = Done
    BY DoneGrows
  <2>. QED  BY <2>1 DEF RunOK
<1>2. (\A f : Of(f)' <=> Of(f)) /\ (Needed' <=> Needed)
  BY DEF Of, Needed, Recurred, SameSight
<1>3. /\ outcome'.covered => "lookDerivative" \in Done'
      /\ (Of("qdrant") => QdrantInv) /\ (Of("mlflow") => MlflowInv)
      /\ (Of("keycloak") => KeycloakInv)
  BY <1>1 DEF CaseInv, SameSight
<1>4. QdrantInv => QdrantInv'
  BY <1>1, <1>2 DEF QdrantInv, SameSight
<1>5. MlflowInv => MlflowInv'
  BY <1>1, <1>2 DEF MlflowInv, SameSight
<1>6. KeycloakInv => KeycloakInv'
  BY <1>1, <1>2 DEF KeycloakInv, SameSight
<1>. QED  BY <1>2, <1>3, <1>4, <1>5, <1>6 DEF CaseInv

LEMMA MarkedCase ==
  ASSUME RunOK, Mark, CampaignNext
  PROVE  CaseInv'
<1>. SUFFICES ASSUME Here'.name = "case", line' > 1
              PROVE  CaseInv'
  BY DEF CaseInv
<1>1. /\ held' = {} /\ outcome' = Unseen /\ artifacts' = artifacts /\ disturbances' = disturbances
      /\ Op = "mark" /\ Advance
  BY DEF Mark, InCase, Doing
<1>2. Here' = Here /\ GoesOn
  <2>1. Place /\ Here.name = "case"
    BY <1>1, OpElsewhere DEF RunOK, CaseVerbs, KeycloakVerbs
  <2>2. ~ ToEnd
    BY <2>1, HereIs DEF ToEnd, Kind
  <2>. QED  BY <1>1, <2>1, <2>2, StepMoves, Advances DEF ToNext, GoesOn, Proceeds
<1>3. line = 1
  BY <1>1, <1>2, OpOfCase DEF RunOK
<1>4. Done' = {}
  <2>1. Done = {}
    BY <1>3 DEF Done
  <2>. QED  BY <1>1, <1>2, <2>1, DoneGrows DEF Looks
<1>5. outcome'.covered = FALSE
  BY <1>1 DEF Unseen
<1>. QED  BY <1>1, <1>4, <1>5 DEF CaseInv, QdrantInv, MlflowInv, KeycloakInv

\* What a step may put in or take out.
LEMMA QdrantStep ==
  ASSUME RunOK, CaseInv, Here.name = "case", line > 1, Of("qdrant"), GoesOn, CampaignNext,
         \/ Prepare \/ LogArtifact \/ NativeDelete \/ Recover \/ LookPrimary \/ LookDerivative
         \/ LookRecovered \/ ApplyControl \/ Purge \/ LookAgain \/ RunOneShot,
         outcome \in PhysicalOutcome
  PROVE  CaseInv'
<1>0. /\ Here' = Here /\ Done' = Done \union ({Op} \intersect Looks) /\ Of("qdrant")'
      /\ Here.fault \in FaultNames /\ Here.family = "qdrant"
      /\ QdrantInv /\ (outcome.covered => "lookDerivative" \in Done)
      /\ disturbances' \in Nat /\ disturbances \in Nat /\ disturbances' >= disturbances
  BY DoneGrows, HereIs, StepMoves DEF GoesOn, RunOK, CaseInv, Of
<1>. SUFFICES QdrantInv' /\ (outcome'.covered => "lookDerivative" \in Done')
  BY <1>0 DEF CaseInv, Of
<1>1. CASE Prepare
  <2>1. /\ Op \in DOMAIN Setup /\ outcome' = outcome /\ again' = again
        /\ disturbances' = disturbances
        /\ held' = held \union Setup[Op] \union
             (IF Op = "putSubject" /\ Here.fault = "surviving_derivative" THEN {"derivative"} ELSE {})
    BY <1>0, <1>1 DEF Prepare, Of
  <2>2. CASE Op = "putSubject"
    <3>1. Done = {} /\ Done' = {} /\ Setup[Op] = {"primary"}
      BY <1>0, <2>2, Order DEF Looks, Setup
    <3>. QED  BY <1>0, <2>1, <2>2, <3>1 DEF QdrantInv
  <2>3. CASE Op = "snapshot"
    <3>1. Done = {} /\ Done' = {} /\ Setup[Op] = {"carrier"}
      BY <1>0, <2>3, Order DEF Looks, Setup
    <3>2. Here.fault \in {"recovery_regeneration", "coverage_fault"}
      BY <2>3, OpOfCase DEF RunOK
    <3>. QED  BY <1>0, <2>1, <2>3, <3>1, <3>2 DEF QdrantInv
  <2>4. CASE Op \notin {"putSubject", "snapshot"}
    <3>1. Setup[Op] = {} /\ Op \notin Looks
      BY <2>1, <2>4 DEF Setup, Looks
    <3>2. held' = held /\ Done' = Done
      BY <1>0, <2>1, <2>4, <3>1
    <3>. QED  BY <1>0, <2>1, <3>2 DEF QdrantInv, Needed, Recurred
  <2>. QED  BY <2>2, <2>3, <2>4
<1>2. CASE LogArtifact \/ RunOneShot
  <2>1. Op \in {"logArtifact", "export", "import", "bootstrap"}
    BY <1>2 DEF LogArtifact, RunOneShot, OneShot, Doing
  <2>. QED  BY <1>0, <2>1, OpOfCase DEF RunOK, KeycloakVerbs
<1>3. CASE NativeDelete
  <2>1. Op = "nativeDelete" /\ outcome' = outcome /\ held' \in {held, held \ {"primary"}}
    BY <1>0, <1>3 DEF NativeDelete, Doing, Deleted, Of
  <2>2. Done = {} /\ Done' = {}
    BY <1>0, <2>1, Order DEF Looks
  <2>. QED  BY <1>0, <2>1, <2>2 DEF QdrantInv
<1>4. CASE Recover
  <2>1. /\ Op = "recover" /\ outcome' = outcome /\ again' = again
        /\ \/ held' = (held \ {"hidden"}) \union {"primary"} /\ disturbances' = disturbances
           \/ disturbances' = disturbances + 1 /\ held' = held
    BY <1>4 DEF Recover, Doing, Disturb
  <2>2. Done \subseteq {"lookPrimary", "lookDerivative"} /\ Here.fault = "recovery_regeneration"
    BY <2>1, Order, OpOfCase DEF RunOK
  <2>3. Done' = Done \union {"recover"}
    BY <1>0, <2>1 DEF Looks
  <2>4. disturbances' = 0 => "primary" \in held'
    BY <1>0, <2>1
  <2>5. held' \subseteq held \union {"primary"}
    BY <2>1
  <2>. QED  BY <1>0, <2>1, <2>2, <2>3, <2>4, <2>5 DEF QdrantInv
<1>5. CASE LookPrimary
  <2>1. /\ Op = "lookPrimary" /\ held' = held /\ again' = again
        /\ outcome'.derivative = outcome.derivative /\ outcome'.recurrence = outcome.recurrence
        /\ outcome'.covered = outcome.covered
    BY <1>5 DEF LookPrimary, Observe, Doing, PhysicalOutcome
  <2>2. Done = {} /\ Done' = {"lookPrimary"}
    BY <1>0, <2>1, Order DEF Looks
  <2>. QED  BY <1>0, <2>1, <2>2 DEF QdrantInv
<1>6. CASE LookDerivative
  <2>1. /\ Op = "lookDerivative" /\ held' = held /\ again' = again
        /\ outcome'.derivative = YesNo(DerivativeSeen)
    BY <1>6 DEF LookDerivative, Observe, Doing, PhysicalOutcome
  <2>2. Done \subseteq {"lookPrimary"} /\ Done' = Done \union {"lookDerivative"}
    BY <1>0, <2>1, Order DEF Looks
  <2>3. DerivativeSeen <=> held \intersect {"primary", "derivative"} # {}
    BY <1>0 DEF DerivativeSeen, Of
  <2>. QED  BY <1>0, <2>1, <2>2, <2>3 DEF QdrantInv, YesNo
<1>7. CASE LookRecovered
  <2>1. /\ Op = "lookRecovered" /\ held' = held /\ again' = again
        /\ outcome'.recurrence = YesNo(RecurrenceSeen)
        /\ outcome'.derivative = outcome.derivative /\ outcome'.covered = outcome.covered
        /\ disturbances' = disturbances
    BY <1>7 DEF LookRecovered, Observe, Doing, PhysicalOutcome
  <2>2. Done \subseteq {"lookPrimary", "lookDerivative", "recover"} /\ "recover" \in Done
        /\ Done' = Done \union {"lookRecovered"} /\ Here.fault = "recovery_regeneration"
    BY <1>0, <2>1, Order, OpOfCase DEF Looks, RunOK
  <2>3. RecurrenceSeen <=> held \intersect {"primary", "derivative"} # {}
    BY <1>0 DEF RecurrenceSeen, DerivativeSeen, Of
  <2>. QED  BY <1>0, <2>1, <2>2, <2>3 DEF QdrantInv, YesNo
<1>8. CASE ApplyControl
  <2>1. /\ Op = "control" /\ outcome' = outcome /\ again' = again
        /\ held' \subseteq held
    BY <1>0, <1>8 DEF ApplyControl, Doing, Of, Disturb
  <2>2. Done \intersect {"control", "purge", "lookAgain"} = {} /\ Done' = Done \union {"control"}
    BY <1>0, <2>1, Order DEF Looks
  <2>. QED  BY <1>0, <2>1, <2>2 DEF QdrantInv
<1>9. CASE Purge
  <2>1. /\ Op = "purge" /\ outcome' = outcome /\ again' = again
        /\ held' \in {held, held \ {"carrier"}}
        /\ Needed /\ "carrier" \in held' => disturbances' > 0
    BY <1>0, <1>9 DEF Purge, Doing, Of, Disturb
  <2>2. Done \intersect {"purge", "lookAgain"} = {} /\ Done' = Done \union {"purge"}
    BY <1>0, <2>1, Order DEF Looks
  <2>. QED  BY <1>0, <2>1, <2>2 DEF QdrantInv, Needed, Recurred
<1>10. CASE LookAgain
  <2>1. /\ Op = "lookAgain" /\ outcome' = outcome /\ held' = held /\ disturbances' = disturbances
        /\ again' = (Needed /\ DerivativeSeen)
    BY <1>0, <1>10 DEF LookAgain, Doing, Of
  <2>2. Done' = Done \union {"lookAgain"} /\ (Needed' <=> Needed)
    BY <1>0, <2>1 DEF Looks, Needed, Recurred
  <2>3. DerivativeSeen <=> held \intersect {"primary", "derivative"} # {}
    BY <1>0 DEF DerivativeSeen, Of
  <2>. QED  BY <1>0, <2>1, <2>2, <2>3 DEF QdrantInv
<1>. QED  BY <1>1, <1>2, <1>3, <1>4, <1>5, <1>6, <1>7, <1>8, <1>9, <1>10

LEMMA MlflowStep ==
  ASSUME RunOK, CaseInv, Here.name = "case", line > 1, Of("mlflow"), GoesOn, CampaignNext,
         \/ Prepare \/ LogArtifact \/ NativeDelete \/ Recover \/ LookPrimary \/ LookDerivative
         \/ LookRecovered \/ ApplyControl \/ Purge \/ LookAgain \/ RunOneShot,
         outcome \in PhysicalOutcome
  PROVE  CaseInv'
<1>0. /\ Here' = Here /\ Done' = Done \union ({Op} \intersect Looks) /\ Of("mlflow")'
      /\ Here.fault \in FaultNames /\ Here.family = "mlflow"
      /\ MlflowInv /\ (outcome.covered => "lookDerivative" \in Done)
      /\ ~ Of("qdrant") /\ ~ Of("keycloak")
  BY DoneGrows, HereIs DEF GoesOn, RunOK, CaseInv, Of
<1>. SUFFICES MlflowInv' /\ (outcome'.covered => "lookDerivative" \in Done')
  BY <1>0 DEF CaseInv, Of
<1>1. CASE Prepare
  <2>1. /\ Op \in DOMAIN Setup /\ outcome' = outcome /\ again' = again /\ artifacts' = artifacts
        /\ held' = held \union Setup[Op]
    BY <1>0, <1>1 DEF Prepare, Of
  <2>2. CASE Op = "putSubject"
    <3>1. Done = {} /\ Done' = {} /\ Setup[Op] = {"primary"}
      BY <1>0, <2>2, Order DEF Looks, Setup
    <3>. QED  BY <1>0, <2>1, <2>2, <3>1 DEF MlflowInv
  <2>3. CASE Op # "putSubject"
    <3>1. Op # "snapshot"
      BY <1>0, OpOfCase DEF RunOK
    <3>2. Setup[Op] = {} /\ Op \notin Looks
      BY <2>1, <2>3, <3>1 DEF Setup, Looks
    <3>3. held' = held /\ Done' = Done
      BY <1>0, <2>1, <3>2
    <3>. QED  BY <1>0, <2>1, <3>3 DEF MlflowInv, Needed, Recurred
  <2>. QED  BY <2>2, <2>3
<1>2. CASE LogArtifact
  <2>1. Op = "logArtifact" /\ outcome' = outcome /\ held' = held
    BY <1>2 DEF LogArtifact, Doing
  <2>2. Done = {} /\ Done' = {}
    BY <1>0, <2>1, Order DEF Looks
  <2>. QED  BY <1>0, <2>1, <2>2 DEF MlflowInv
<1>3. CASE RunOneShot
  <2>1. Op \in {"export", "import", "bootstrap"}
    BY <1>3 DEF RunOneShot, OneShot, Doing
  <2>. QED  BY <1>0, <2>1, OpOfCase DEF RunOK, KeycloakVerbs
<1>4. CASE NativeDelete
  <2>1. Op = "nativeDelete" /\ outcome' = outcome
        /\ held' \in {held, (held \ {"primary"}) \union {"hidden"}}
    BY <1>0, <1>4 DEF NativeDelete, Doing, Deleted
  <2>2. Done = {} /\ Done' = {}
    BY <1>0, <2>1, Order DEF Looks
  <2>. QED  BY <1>0, <2>1, <2>2 DEF MlflowInv
<1>5. CASE Recover
  <2>1. /\ Op = "recover" /\ outcome' = outcome /\ again' = again /\ artifacts' = artifacts
        /\ held' \subseteq held \union {"primary"}
    BY <1>5 DEF Recover, Doing
  <2>2. Done \subseteq {"lookPrimary", "lookDerivative"} /\ Here.fault = "recovery_regeneration"
    BY <2>1, Order, OpOfCase DEF RunOK
  <2>3. Done' = Done \union {"recover"}
    BY <1>0, <2>1 DEF Looks
  <2>. QED  BY <1>0, <2>1, <2>2, <2>3 DEF MlflowInv
<1>6. CASE LookPrimary
  <2>1. /\ Op = "lookPrimary" /\ held' = held /\ outcome'.absent = ("primary" \notin held)
        /\ outcome'.covered = outcome.covered
    BY <1>6 DEF LookPrimary, Observe, Doing, PhysicalOutcome
  <2>2. Done = {} /\ Done' = {"lookPrimary"}
    BY <1>0, <2>1, Order DEF Looks
  <2>. QED  BY <1>0, <2>1, <2>2 DEF MlflowInv
<1>7. CASE LookDerivative
  <2>1. /\ Op = "lookDerivative" /\ held' = held /\ artifacts' = artifacts
        /\ outcome'.derivative = YesNo(DerivativeSeen) /\ outcome'.absent = outcome.absent
    BY <1>7 DEF LookDerivative, Observe, Doing, PhysicalOutcome
  <2>2. Done \subseteq {"lookPrimary"} /\ Done' = Done \union {"lookDerivative"}
    BY <1>0, <2>1, Order DEF Looks
  <2>3. DerivativeSeen <=> artifacts # {}
    BY <1>0 DEF DerivativeSeen, Of
  <2>. QED  BY <1>0, <2>1, <2>2, <2>3 DEF MlflowInv, YesNo
<1>8. CASE LookRecovered
  <2>1. /\ Op = "lookRecovered" /\ held' = held /\ artifacts' = artifacts
        /\ outcome'.recurrence = YesNo(RecurrenceSeen) /\ outcome'.absent = outcome.absent
        /\ outcome'.derivative = outcome.derivative /\ outcome'.covered = outcome.covered
    BY <1>8 DEF LookRecovered, Observe, Doing, PhysicalOutcome
  <2>2. Done \subseteq {"lookPrimary", "lookDerivative", "recover"}
        /\ Done' = Done \union {"lookRecovered"}
    BY <1>0, <2>1, Order DEF Looks
  <2>3. RecurrenceSeen <=> "primary" \in held
    BY <1>0 DEF RecurrenceSeen, ActivePrimary, Of
  <2>. QED  BY <1>0, <2>1, <2>2, <2>3 DEF MlflowInv, YesNo
<1>9. CASE ApplyControl
  <2>1. /\ Op = "control" /\ outcome' = outcome /\ again' = again /\ artifacts' = artifacts
        /\ held' \in {held, (held \ {"primary"}) \union {"hidden"}}
    BY <1>0, <1>9 DEF ApplyControl, Doing, Deleted
  <2>2. Done \intersect {"control", "purge", "lookAgain"} = {} /\ Done' = Done \union {"control"}
    BY <1>0, <2>1, Order DEF Looks
  <2>. QED  BY <1>0, <2>1, <2>2 DEF MlflowInv
<1>10. CASE Purge
  <2>1. /\ Op = "purge" /\ outcome' = outcome /\ again' = again
        /\ held' \in {held, held \ {"hidden"}} /\ artifacts' \subseteq artifacts
        /\ Needed => "primary" \notin held
    <3>1. ~ Raise
      BY WhereNext DEF Raise, GoesOn
    <3>. QED  BY <1>0, <1>10, <3>1 DEF Purge, Doing, Of
  <2>2. Done \intersect {"purge", "lookAgain"} = {} /\ Done' = Done \union {"purge"}
    BY <1>0, <2>1, Order DEF Looks
  <2>. QED  BY <1>0, <2>1, <2>2 DEF MlflowInv, Needed, Recurred
<1>11. CASE LookAgain
  <2>1. /\ Op = "lookAgain" /\ outcome' = outcome /\ held' = held /\ artifacts' = artifacts
        /\ again' = DerivativeSeen
    BY <1>0, <1>11 DEF LookAgain, Doing
  <2>2. Done' = Done \union {"lookAgain"} /\ (Needed' <=> Needed)
    BY <1>0, <2>1 DEF Looks, Needed, Recurred
  <2>3. DerivativeSeen <=> artifacts # {}
    BY <1>0 DEF DerivativeSeen, Of
  <2>. QED  BY <1>0, <2>1, <2>2, <2>3 DEF MlflowInv
<1>. QED
  BY <1>1, <1>2, <1>3, <1>4, <1>5, <1>6, <1>7, <1>8, <1>9, <1>10, <1>11

LEMMA KeycloakStep ==
  ASSUME RunOK, CaseInv, Here.name = "case", line > 1, Of("keycloak"), GoesOn, CampaignNext,
         \/ Prepare \/ LogArtifact \/ NativeDelete \/ Recover \/ LookPrimary \/ LookDerivative
         \/ LookRecovered \/ ApplyControl \/ Purge \/ LookAgain \/ RunOneShot,
         outcome \in PhysicalOutcome
  PROVE  CaseInv'
<1>0. /\ Here' = Here /\ Done' = Done \union ({Op} \intersect Looks) /\ Of("keycloak")'
      /\ Here.fault \in FaultNames /\ Here.family = "keycloak"
      /\ KeycloakInv /\ (outcome.covered => "lookDerivative" \in Done)
      /\ ~ Of("qdrant") /\ ~ Of("mlflow")
  BY DoneGrows, HereIs DEF GoesOn, RunOK, CaseInv, Of
<1>. SUFFICES KeycloakInv' /\ (outcome'.covered => "lookDerivative" \in Done')
  BY <1>0 DEF CaseInv, Of
<1>1. CASE Prepare
  <2>1. /\ Op \in DOMAIN Setup /\ outcome' = outcome /\ again' = again
        /\ held' = held \union Setup[Op]
    BY <1>0, <1>1 DEF Prepare, Of
  <2>2. CASE Op = "putSubject"
    <3>1. Done = {} /\ Done' = {} /\ Setup[Op] = {"primary"}
      BY <1>0, <2>2, Order DEF Looks, Setup
    <3>. QED  BY <1>0, <2>1, <2>2, <3>1 DEF KeycloakInv
  <2>3. CASE Op # "putSubject"
    <3>1. Op # "snapshot"
      BY <1>0, OpOfCase DEF RunOK
    <3>2. Setup[Op] = {} /\ Op \notin Looks
      BY <2>1, <2>3, <3>1 DEF Setup, Looks
    <3>3. held' = held /\ Done' = Done
      BY <1>0, <2>1, <3>2
    <3>. QED  BY <1>0, <2>1, <3>3 DEF KeycloakInv, Needed, Recurred
  <2>. QED  BY <2>2, <2>3
<1>2. CASE LogArtifact \/ Recover
  <2>1. Op \in {"logArtifact", "recover"}
    BY <1>2 DEF LogArtifact, Recover, Doing
  <2>. QED  BY <1>0, <2>1, OpOfCase DEF RunOK
<1>3. CASE RunOneShot
  <2>1. /\ Op \in {"export", "import", "bootstrap"} /\ outcome' = outcome /\ again' = again
        /\ held' \subseteq held \union OneShot[Op]
    BY <1>3 DEF RunOneShot, OneShot, Doing
  <2>2. Done' = Done
    BY <1>0, <2>1 DEF Looks
  <2>3. CASE Op = "export"
    <3>1. Done = {} /\ OneShot[Op] = {"derivative"}
      BY <2>3, Order DEF OneShot
    <3>. QED  BY <1>0, <2>1, <2>2, <3>1 DEF KeycloakInv
  <2>4. CASE Op = "import"
    <3>1. Done \subseteq {"lookPrimary", "lookDerivative"} /\ OneShot[Op] = {"restored"}
          /\ Here.fault = "recovery_regeneration"
      BY <2>4, Order, OpOfCase DEF OneShot, RunOK
    <3>. QED  BY <1>0, <2>1, <2>2, <3>1 DEF KeycloakInv
  <2>5. CASE Op = "bootstrap"
    <3>1. held' \subseteq held
      BY <2>1, <2>5 DEF OneShot
    <3>. QED  BY <1>0, <2>1, <2>2, <3>1 DEF KeycloakInv, Needed, Recurred
  <2>. QED  BY <2>1, <2>3, <2>4, <2>5
<1>4. CASE NativeDelete
  <2>1. Op = "nativeDelete" /\ outcome' = outcome /\ held' \subseteq held
    BY <1>0, <1>4 DEF NativeDelete, Doing, Deleted
  <2>2. Done = {} /\ Done' = {}
    BY <1>0, <2>1, Order DEF Looks
  <2>. QED  BY <1>0, <2>1, <2>2 DEF KeycloakInv
<1>5. CASE LookPrimary
  <2>1. /\ Op = "lookPrimary" /\ held' = held /\ outcome'.absent = ("primary" \notin held)
        /\ outcome'.covered = outcome.covered
    BY <1>5 DEF LookPrimary, Observe, Doing, PhysicalOutcome
  <2>2. Done = {} /\ Done' = {"lookPrimary"}
    BY <1>0, <2>1, Order DEF Looks
  <2>. QED  BY <1>0, <2>1, <2>2 DEF KeycloakInv
<1>6. CASE LookDerivative
  <2>1. /\ Op = "lookDerivative" /\ held' = held
        /\ outcome'.derivative = YesNo(DerivativeSeen) /\ outcome'.absent = outcome.absent
    BY <1>6 DEF LookDerivative, Observe, Doing, PhysicalOutcome
  <2>2. Done \subseteq {"lookPrimary"} /\ Done' = Done \union {"lookDerivative"}
    BY <1>0, <2>1, Order DEF Looks
  <2>3. DerivativeSeen <=> "derivative" \in held
    BY <1>0 DEF DerivativeSeen, Of
  <2>. QED  BY <1>0, <2>1, <2>2, <2>3 DEF KeycloakInv, YesNo
<1>7. CASE LookRecovered
  <2>1. /\ Op = "lookRecovered" /\ held' = held
        /\ outcome'.recurrence = YesNo(RecurrenceSeen) /\ outcome'.absent = outcome.absent
        /\ outcome'.derivative = outcome.derivative /\ outcome'.covered = outcome.covered
    BY <1>7 DEF LookRecovered, Observe, Doing, PhysicalOutcome
  <2>2. Done \subseteq {"lookPrimary", "lookDerivative", "recover"}
        /\ Done' = Done \union {"lookRecovered"} /\ Here.fault = "recovery_regeneration"
    BY <1>0, <2>1, Order, OpOfCase DEF Looks, RunOK
  <2>3. RecurrenceSeen <=> "restored" \in held
    BY <1>0, <2>2 DEF RecurrenceSeen, ActivePrimary, Of
  <2>. QED  BY <1>0, <2>1, <2>2, <2>3 DEF KeycloakInv, YesNo
<1>8. CASE ApplyControl
  <2>1. /\ Op = "control" /\ outcome' = outcome /\ again' = again /\ held' \subseteq held
    BY <1>0, <1>8 DEF ApplyControl, Doing, Of
  <2>2. Done \intersect {"control", "purge", "lookAgain"} = {} /\ Done' = Done \union {"control"}
    BY <1>0, <2>1, Order DEF Looks
  <2>. QED  BY <1>0, <2>1, <2>2 DEF KeycloakInv
<1>9. CASE Purge
  <2>1. /\ Op = "purge" /\ outcome' = outcome /\ again' = again /\ held' \subseteq held
        /\ Needed => "derivative" \notin held'
    BY <1>0, <1>9 DEF Purge, Doing, Of
  <2>2. Done \intersect {"purge", "lookAgain"} = {} /\ Done' = Done \union {"purge"}
    BY <1>0, <2>1, Order DEF Looks
  <2>. QED  BY <1>0, <2>1, <2>2 DEF KeycloakInv, Needed, Recurred
<1>10. CASE LookAgain
  <2>1. /\ Op = "lookAgain" /\ outcome' = outcome /\ held' = held
        /\ again' = (ActivePrimary \in held)
    BY <1>0, <1>10 DEF LookAgain, Doing, Of
  <2>2. Done' = Done \union {"lookAgain"} /\ (Needed' <=> Needed)
    BY <1>0, <2>1 DEF Looks, Needed, Recurred
  <2>3. Here.fault = "recovery_regeneration" => ActivePrimary = "restored"
    BY <1>0 DEF ActivePrimary, Of
  <2>. QED  BY <1>0, <2>1, <2>2, <2>3 DEF KeycloakInv
<1>. QED
  BY <1>1, <1>2, <1>3, <1>4, <1>5, <1>6, <1>7, <1>8, <1>9, <1>10

\* The steps that leave what the case holds and sees alone.
LEMMA SightSteps ==
  ASSUME RunOK, outcome \in PhysicalOutcome,
         \/ StartService \/ StopService \/ Finally \/ Unwind \/ Fail
         \/ CountBefore \/ CountAfter \/ CountLast \/ Record
         \/ OpenAssets \/ PrepareAssets \/ HashCore \/ HashCoreAgain \/ WriteBundle
         \/ Edit \/ Kill \/ Rerun \/ Ended
  PROVE  SameSight /\ (GoesOn => Op \notin Looks)
<1>0. line \in Nat /\ (GoesOn => line' # line)
  BY HereIs, Kinds DEF RunOK, Place, GoesOn
<1>1. CASE StartService \/ StopService \/ Finally
  BY <1>1 DEF StartService, StopService, Finally, Doing, SameSight, caseState, Looks
<1>2. CASE Unwind \/ Fail \/ Edit \/ Kill \/ Ended
  BY <1>0, <1>2 DEF Unwind, Fail, Raise, Edit, Kill, Ended, Runs, campaignVars, SameSight, caseState
<1>3. CASE Rerun
  <2>1. SameSight
    BY <1>3 DEF Rerun, Runs, SameSight, caseState
  <2>2. files = {} => line = 1
    BY HereIs, Kinds DEF RunOK, Place
  <2>. QED  BY <1>0, <1>3, <2>1, <2>2 DEF Rerun
<1>4. CASE CountBefore \/ CountAfter \/ CountLast
  <2>1. /\ held' = held /\ artifacts' = artifacts /\ again' = again
        /\ Op \in {"countBefore", "countAfter", "countLast"}
    BY <1>4 DEF CountBefore, CountAfter, CountLast, Observe, Doing
  <2>2. /\ outcome'.absent = outcome.absent /\ outcome'.derivative = outcome.derivative
        /\ outcome'.recurrence = outcome.recurrence /\ outcome'.covered = outcome.covered
    BY <1>4 DEF CountBefore, CountAfter, CountLast, Observe, PhysicalOutcome
  <2>. QED  BY <2>1, <2>2 DEF SameSight, Looks
<1>5. CASE Record
  BY <1>5 DEF Record, Doing, caseState, SameSight, Looks
<1>6. CASE OpenAssets \/ PrepareAssets \/ HashCore \/ HashCoreAgain \/ WriteBundle
  BY <1>6, RunnerSteps DEF Runs, caseState, SameSight, Looks, RunnerVerbs
<1>. QED  BY <1>1, <1>2, <1>3, <1>4, <1>5, <1>6

LEMMA CaseInvStep ==
  ASSUME RunOK, outcome \in PhysicalOutcome, CaseInv, CampaignNext
  PROVE  CaseInv'
<1>. SUFFICES ASSUME Here'.name = "case", line' > 1
              PROVE  CaseInv'
  BY DEF CaseInv
<1>1. /\ (at' = at /\ line' = line) \/ GoesOn
      /\ Here' = Here /\ Here.name = "case" /\ line \in Nat /\ line >= 1
      /\ disturbances' \in Nat /\ disturbances' >= disturbances
  BY WhereNext, StepMoves DEF GoesOn, ToNext
<1>2. CASE line = 1
  <2>1. Mark
    BY <1>1, <1>2, FirstSteps DEF GoesOn
  <2>. QED  BY <2>1, MarkedCase
<1>3. CASE line > 1
  <2>1. ~ Mark
    BY <1>1, <1>3, OpOfCase DEF Mark, Doing, RunOK
  <2>2. CASE \/ StartService \/ StopService \/ Finally \/ Unwind \/ Fail
             \/ CountBefore \/ CountAfter \/ CountLast \/ Record
             \/ OpenAssets \/ PrepareAssets \/ HashCore \/ HashCoreAgain \/ WriteBundle
             \/ Edit \/ Kill \/ Rerun \/ Ended
    BY <1>1, <1>3, <2>2, SightSteps, NeutralStep
  <2>3. CASE \/ Prepare \/ LogArtifact \/ NativeDelete \/ Recover \/ LookPrimary \/ LookDerivative
             \/ LookRecovered \/ ApplyControl \/ Purge \/ LookAgain \/ RunOneShot
    <3>1. CASE GoesOn
      <4>1. Of("qdrant") \/ Of("mlflow") \/ Of("keycloak")
        BY <1>1, HereIs DEF RunOK, FamilyNames, Of
      <4>. QED  BY <1>1, <1>3, <2>3, <3>1, <4>1, QdrantStep, MlflowStep, KeycloakStep
    <3>2. CASE ~ GoesOn
      <4>1. at' = at /\ line' = line /\ smoke' = smoke
        BY <1>1, <3>2, StepMoves DEF Proceeds
      <4>2. ~ Advance
        <5>1. ~ ToEnd
          BY <1>1, HereIs DEF RunOK, ToEnd, Kind
        <5>. QED  BY <1>1, <3>2, <4>1, <5>1, WhereNext, Advances DEF RunOK, ToNext
      <4>3. SameSight
        <5>1. CASE RunOneShot
          BY <4>2, <5>1 DEF RunOneShot, SameSight
        <5>2. CASE Purge
          BY <4>2, <5>2 DEF Purge, SameSight
        <5>3. CASE \/ Prepare \/ LogArtifact \/ NativeDelete \/ Recover \/ LookPrimary
                   \/ LookDerivative \/ LookRecovered \/ ApplyControl \/ LookAgain
          BY <4>2, <5>3 DEF Prepare, LogArtifact, NativeDelete, Recover, LookPrimary,
                            LookDerivative, LookRecovered, Observe, ApplyControl, LookAgain
        <5>. QED  BY <2>3, <5>1, <5>2, <5>3
      <4>. QED  BY <1>1, <1>3, <4>1, <4>3, NeutralStep
    <3>. QED  BY <3>1, <3>2
  <2>. QED  BY StepKinds, <2>1, <2>2, <2>3
<1>. QED  BY <1>1, <1>2, <1>3

\* What a case has seen is an outcome.
LEMMA OutcomeStep ==
  ASSUME outcome \in PhysicalOutcome, CampaignNext
  PROVE  outcome' \in PhysicalOutcome
<1>1. CASE \/ StartService \/ StopService \/ Finally \/ Unwind \/ RunOneShot
           \/ Fail \/ Prepare \/ LogArtifact \/ NativeDelete \/ Recover
           \/ ApplyControl \/ Purge \/ LookAgain \/ Record
  BY <1>1 DEF StartService, StopService, Finally, Unwind, RunOneShot, Fail, Prepare, LogArtifact,
              NativeDelete, Recover, ApplyControl, Purge, LookAgain, Record, caseState
<1>2. CASE OpenAssets \/ PrepareAssets \/ HashCore \/ HashCoreAgain \/ WriteBundle
  BY <1>2, RunnerSteps DEF Runs, caseState
<1>3. CASE Edit \/ Kill \/ Rerun \/ Ended
  BY <1>3 DEF Edit, Kill, Rerun, Ended, Runs, campaignVars, caseState
<1>4. CASE Mark
  BY <1>4 DEF Mark, Unseen, PhysicalOutcome, Seen
<1>5. CASE CountBefore \/ CountAfter \/ CountLast
  <2>1. Count \in {0, 1}
    BY DEF Count
  <2>. QED  BY <1>5, <2>1 DEF CountBefore, CountAfter, CountLast, Observe, PhysicalOutcome
<1>6. CASE LookPrimary
  BY <1>6 DEF LookPrimary, Observe, PhysicalOutcome
<1>7. CASE LookDerivative
  BY <1>7 DEF LookDerivative, Observe, PhysicalOutcome, Seen, YesNo
<1>8. CASE LookRecovered
  BY <1>8 DEF LookRecovered, Observe, PhysicalOutcome, Seen, YesNo
<1>. QED  BY StepKinds, <1>1, <1>2, <1>3, <1>4, <1>5, <1>6, <1>7, <1>8

\* A report without risks has seen nothing; one with risks has them closed.
LEMMA Reports ==
  ASSUME outcome \in PhysicalOutcome
  PROVE  LET decided == Decide(outcome, Controls)
         IN  /\ decided.native = outcome.absent
             /\ decided.verdict = "COMPLETE" =>
                  /\ outcome.covered /\ outcome.absent
                  /\ outcome.derivative = "no" /\ outcome.recurrence = "no"
             /\ decided.verdict = "INCOMPLETE" /\ decided.native =>
                  outcome.covered /\ Needed
<1>. DEFINE decided == Decide(outcome, Controls)
<1>1. decided.native = outcome.absent /\ decided.verdict = Verdict(outcome)
  BY DEF Decide
<1>2. outcome.derivative \in Seen /\ outcome.recurrence \in Seen /\ outcome.absent \in BOOLEAN
      /\ outcome.covered \in BOOLEAN
  BY DEF PhysicalOutcome
<1>. HIDE DEF decided
<1>3. Verdict(outcome) = "COMPLETE" =>
        /\ outcome.covered /\ outcome.absent
        /\ outcome.derivative = "no" /\ outcome.recurrence = "no"
  <2>. SUFFICES ASSUME Verdict(outcome) = "COMPLETE"
                PROVE  /\ outcome.covered /\ outcome.absent
                       /\ outcome.derivative = "no" /\ outcome.recurrence = "no"
    OBVIOUS
  <2>1. Covered(outcome) /\ RequiredRisks(outcome) = {}
    BY DEF Verdict
  <2>2. outcome.absent /\ outcome.derivative # "yes" /\ outcome.recurrence # "yes"
    BY <2>1 DEF RequiredRisks
  <2>. QED  BY <1>2, <2>1, <2>2 DEF Covered, Seen
<1>4. Verdict(outcome) = "INCOMPLETE" /\ outcome.absent => outcome.covered /\ Needed
  <2>. SUFFICES ASSUME Verdict(outcome) = "INCOMPLETE", outcome.absent
                PROVE  outcome.covered /\ Needed
    OBVIOUS
  <2>1. Covered(outcome) /\ RequiredRisks(outcome) # {}
    BY DEF Verdict
  <2>. QED  BY <2>1 DEF RequiredRisks, Needed, Recurred, Covered
<1>. QED  BY <1>1, <1>3, <1>4 DEF decided

\* What the record of a case says of the subject is so.
LEMMA RecordedErasure ==
  ASSUME RunOK, outcome \in PhysicalOutcome, CaseInv, Op = "record",
         LET decided == Decide(outcome, Controls)
         IN  \/ decided.verdict = "COMPLETE"
             \/ decided.verdict = "INCOMPLETE" /\ decided.native /\ ~ again
  PROVE  /\ RecordHere.left \intersect OnlineFacts = {}
         /\ "carrier" \in RecordHere.left => disturbances > 0
<1>1. Here.name = "case" /\ line > 1 /\ Here.family \in FamilyNames /\ Here.fault \in FaultNames
  <2>1. Here.name = "case" /\ line \in Nat /\ line >= 1
    BY OpElsewhere, HereIs, Kinds DEF RunOK, Place, CaseVerbs, KeycloakVerbs
  <2>. QED  BY <2>1, OpOfCase, HereIs DEF RunOK
<1>2. /\ "lookPrimary" \in Done
      /\ Here.fault # "coverage_fault" => {"lookDerivative", "purge", "lookAgain"} \subseteq Done
      /\ Here.fault = "recovery_regeneration" => "lookRecovered" \in Done
      /\ "lookDerivative" \in Done => Here.fault # "coverage_fault"
  BY <1>1, Order
<1>3. /\ outcome.covered => "lookDerivative" \in Done
      /\ Of("qdrant") => QdrantInv
      /\ Of("mlflow") => MlflowInv
      /\ Of("keycloak") => KeycloakInv
  BY <1>1 DEF CaseInv
<1>4. /\ outcome.covered
      /\ \/ outcome.absent /\ outcome.derivative = "no" /\ outcome.recurrence = "no"
         \/ outcome.absent /\ Needed /\ ~ again
  BY Reports
<1>5. /\ Here.fault # "coverage_fault"
      /\ {"lookPrimary", "lookDerivative", "purge", "lookAgain"} \subseteq Done
  BY <1>2, <1>3, <1>4
<1>6. RecordHere.left =
        held \union (IF Of("mlflow") /\ Here.fault \in artifacts THEN {"derivative"} ELSE {})
  BY DEF RecordHere
<1>7. CASE Of("qdrant")
  <2>1. RecordHere.left = held
    BY <1>6, <1>7 DEF Of
  <2>2. held \intersect {"primary", "derivative"} = {}
    BY <1>2, <1>3, <1>4, <1>5, <1>7 DEF QdrantInv
  <2>3. "carrier" \in held => disturbances > 0
    BY <1>2, <1>3, <1>4, <1>5, <1>7 DEF QdrantInv
  <2>4. held \subseteq {"primary", "derivative", "carrier"}
    BY <1>3, <1>7 DEF QdrantInv
  <2>. QED  BY <2>1, <2>2, <2>3, <2>4 DEF OnlineFacts
<1>8. CASE Of("mlflow")
  <2>1. "primary" \notin held /\ held \subseteq {"primary", "hidden"}
    BY <1>2, <1>3, <1>4, <1>5, <1>8 DEF MlflowInv
  <2>2. artifacts = {}
    BY <1>2, <1>3, <1>4, <1>5, <1>8 DEF MlflowInv
  <2>3. RecordHere.left = held
    BY <1>6, <2>2
  <2>. QED  BY <2>1, <2>3 DEF OnlineFacts
<1>9. CASE Of("keycloak")
  <2>1. RecordHere.left = held
    BY <1>6, <1>9 DEF Of
  <2>2. "primary" \notin held /\ "derivative" \notin held /\ "restored" \notin held
        /\ held \subseteq {"primary", "derivative", "restored"}
    BY <1>2, <1>3, <1>4, <1>5, <1>9 DEF KeycloakInv
  <2>. QED  BY <2>1, <2>2 DEF OnlineFacts
<1>. QED  BY <1>1, <1>7, <1>8, <1>9 DEF Of, FamilyNames

LEMMA ErasureStep ==
  ASSUME RunOK, ErasureInv, CampaignNext
  PROVE  ErasureInv'
<1>1. outcome' \in PhysicalOutcome /\ CaseInv'
  BY OutcomeStep, CaseInvStep DEF ErasureInv
<1>2. disturbances \in Nat /\ disturbances' \in Nat /\ disturbances' >= disturbances
  BY StepMoves DEF RunOK
<1>. DEFINE Real(r, d) ==
       \/ r.decided.verdict = "COMPLETE"
       \/ r.decided.verdict = "INCOMPLETE" /\ r.decided.native /\ ~ r.recurs
       => r.left \intersect OnlineFacts = {} /\ ("carrier" \in r.left => d > 0)
<1>3. \A c \in DOMAIN records : Real(records[c], disturbances)
  BY DEF ErasureInv, ReportedErasureIsReal
<1>4. \A c \in DOMAIN records : Real(records[c], disturbances')
  BY <1>2, <1>3
<1>5. \A c \in DOMAIN records' : Real(records'[c], disturbances')
  <2>1. CASE records' = records
    BY <1>4, <2>1
  <2>2. CASE Record
    <3>1. /\ records' = [c \in DOMAIN records \union {ThisCase} |->
                           IF c = ThisCase THEN RecordHere ELSE records[c]]
          /\ Op = "record" /\ disturbances' = disturbances
      BY <2>2 DEF Record, Doing
    <3>2. Real(RecordHere, disturbances)
      <4>1. /\ RecordHere.decided = Decide(outcome, Controls)
            /\ RecordHere.recurs = again
        BY DEF RecordHere
      <4>. QED  BY <3>1, <4>1, RecordedErasure DEF ErasureInv
    <3>. HIDE DEF Real
    <3>. QED  BY <1>4, <3>1, <3>2
  <2>. QED  BY <2>1, <2>2, Writers
<1>6. ReportedErasureIsReal'
  BY <1>5 DEF ReportedErasureIsReal
<1>. QED  BY <1>1, <1>6 DEF ErasureInv

-----------------------------------------------------------------------------
(* The campaign.                                                            *)

CampaignInv == RunOK /\ DockerInv /\ CoreInv /\ EvidenceInv /\ ErasureInv

LEMMA CampaignStarts ==
  ASSUME CampaignInit
  PROVE  CampaignInv
<1>1. Place /\ Here.name = "open" /\ at = 1 /\ line = 1
  <2>1. smoke \in BOOLEAN /\ at = 1 /\ line = 1
    BY DEF CampaignInit
  <2>2. Len(Parts) \in Nat /\ Len(Parts) > 2 /\ Kind(1) /\ Here = Parts[1]
    BY <2>1, Kinds DEF Here
  <2>3. Len(Steps(Parts[1])) \in Nat /\ Len(Steps(Parts[1])) > 0
    BY <2>1, <2>2, StepsLength
  <2>. QED  BY <2>1, <2>2, <2>3 DEF Place, Kind
<1>2. RunOK
  BY <1>1 DEF RunOK, CampaignInit
<1>3. DockerInv
  <2>1. containers \ {service} = {} /\ containers = {}
    BY DEF CampaignInit
  <2>2. IsFiniteSet({}) /\ Cardinality({}) = 0
    BY FS_EmptySet
  <2>. QED  BY <1>1, <2>1, <2>2 DEF DockerInv, Counted, LeaksAreDockers, CampaignInit
<1>4. CoreInv
  BY DEF CoreInv, CampaignInit
<1>5. EvidenceInv
  <2>1. {Families[i] : i \in DOMAIN Families} = FamilyNames
    BY DEF Families, FamilyNames
  <2>2. ledger = [f \in FamilyNames |-> <<>>]
    BY <2>1 DEF CampaignInit
  <2>3. LedgerOK
    BY <2>2 DEF LedgerOK
  <2>4. \A c \in CaseKeys : Own(c) = {}
    BY <2>2 DEF Own, CaseKeys
  <2>5. RecordsOwn
    BY DEF RecordsOwn, CampaignInit
  <2>6. ClientNumbers /\ MarkIsStart
    BY <1>1 DEF ClientNumbers, MarkIsStart, CampaignInit
  <2>. QED  BY <2>3, <2>4, <2>5, <2>6 DEF EvidenceInv, NothingAhead
<1>6. ErasureInv
  <2>1. outcome \in PhysicalOutcome
    BY DEF CampaignInit, Unseen, PhysicalOutcome, Seen
  <2>2. CaseInv
    BY <1>1 DEF CaseInv
  <2>3. ReportedErasureIsReal
    BY DEF ReportedErasureIsReal, CampaignInit
  <2>. QED  BY <2>1, <2>2, <2>3 DEF ErasureInv
<1>. QED  BY <1>2, <1>3, <1>4, <1>5, <1>6 DEF CampaignInv

LEMMA CampaignRests ==
  ASSUME CampaignInv, UNCHANGED campaignVars
  PROVE  CampaignInv'
<1>. USE DEF campaignVars, caseState, evidence, docker
<1>1. /\ Parts' = Parts /\ Here' = Here /\ Op' = Op
      /\ Place' = Place /\ (Up' <=> Up)
  BY DEF Parts, Here, Op, Steps, Place, Up
<1>2. RunOK' /\ DockerInv' /\ CoreInv'
  BY <1>1 DEF CampaignInv, RunOK, DockerInv, Counted, LeaksAreDockers, CoreInv
<1>3. EvidenceInv'
  <2>1. \A c : Own(c)' = Own(c)
    BY DEF Own
  <2>. QED
    BY <1>1, <2>1 DEF CampaignInv, EvidenceInv, LedgerOK, RecordsOwn, IsOwn, IsOver, NothingAhead,
                      MarkIsStart, ThisCase, ClientNumbers
<1>4. ErasureInv'
  <2>1. Done' = Done /\ (\A f : Of(f)' <=> Of(f)) /\ (Needed' <=> Needed)
    BY <1>1 DEF Done, Steps, Of, Needed, Recurred
  <2>. QED  BY <1>1, <2>1 DEF CampaignInv, ErasureInv, CaseInv, QdrantInv, MlflowInv, KeycloakInv,
                              ReportedErasureIsReal
<1>. QED  BY <1>2, <1>3, <1>4 DEF CampaignInv

\* The run is where its steps say, the containers that exist are accounted
\* for, the records carry the frozen core, the lines of a case are its own and
\* consecutive, and what a case holds agrees with what it has looked at.
THEOREM CampaignInvariant == CampaignSpec => []CampaignInv
<1>1. CampaignInit => CampaignInv
  BY CampaignStarts
<1>2. CampaignInv /\ [CampaignNext]_campaignVars => CampaignInv'
  <2>. SUFFICES ASSUME CampaignInv, [CampaignNext]_campaignVars PROVE CampaignInv'
    OBVIOUS
  <2>1. CASE CampaignNext
    BY <2>1, StepRunOK, DockerStep, CoreStep, EvidenceStep, ErasureStep DEF CampaignInv
  <2>2. CASE UNCHANGED campaignVars
    BY <2>2, CampaignRests
  <2>. QED  BY <2>1, <2>2
<1>. QED  BY <1>1, <1>2, PTL DEF CampaignSpec

\* A container outlives the run only if docker itself failed or the process
\* was killed: no path of an exception through the runner, the families and
\* their finally clauses forgets a service.
THEOREM LeaksAreOfDocker == CampaignSpec => []LeaksAreDockers
<1>1. CampaignInv => LeaksAreDockers
  BY DEF CampaignInv, DockerInv
<1>. QED  BY <1>1, CampaignInvariant, PTL

\* What the verifier passes is the whole bundle of a finished full run, and the
\* core files were the same before the first case, at the end and now.
THEOREM PassMeansOneCore == CampaignSpec => []PassIsOfOneCore
<1>1. CampaignInv => PassIsOfOneCore
  BY PassFollows DEF CampaignInv
<1>. QED  BY <1>1, CampaignInvariant, PTL

\* The slice of the ledger a record is bound to is every line of its own case
\* and no other, and a live client numbers the next line with its place.
THEOREM EvidenceIsOfTheCase == CampaignSpec => []EvidenceIsOwn
<1>1. CampaignInv => EvidenceIsOwn
  BY EvidenceFollows DEF CampaignInv
<1>. QED  BY <1>1, CampaignInvariant, PTL

\* A case reported COMPLETE, or INCOMPLETE with a deletion that worked and
\* controls without recurrence, left nothing of the subject online.
THEOREM ErasureReportsAreReal == CampaignSpec => []ReportedErasureIsReal
<1>1. CampaignInv => ReportedErasureIsReal
  BY DEF CampaignInv, ErasureInv
<1>. QED  BY <1>1, CampaignInvariant, PTL

-----------------------------------------------------------------------------
(* The control plans.                                                       *)

\* The permitted controls are finitely many, and cost something or nothing.
LEMMA PermittedIs ==
  ASSUME NEW cat \in Seq(Control)
  PROVE  /\ Len(cat) \in Nat /\ Permitted(cat) \subseteq 1..Len(cat) /\ IsFiniteSet(Permitted(cat))
         /\ Permitted(cat) \subseteq Nat
         /\ \A i \in Permitted(cat) : Costs(cat)[i] \in Nat
<1>1. Len(cat) \in Nat /\ DOMAIN cat = 1..Len(cat) /\ \A i \in 1..Len(cat) : cat[i] \in Control
  OBVIOUS
<1>2. Permitted(cat) \subseteq 1..Len(cat)
  BY <1>1 DEF Permitted
<1>3. IsFiniteSet(Permitted(cat))
  <2>1. IsFiniteSet(1..Len(cat))
    BY <1>1, FS_Interval
  <2>. QED  BY <1>2, <2>1, FS_Subset
<1>4. \A i \in 1..Len(cat) : Costs(cat)[i] = cat[i].cost /\ cat[i].cost \in Nat
  BY <1>1 DEF Costs, Control
<1>. QED  BY <1>1, <1>2, <1>3, <1>4

Cost(cat, ids) == PlanOf(cat, ids).cost

\* Larger sets of controls cost no less and are larger.
LEMMA PlanIs ==
  ASSUME NEW cat \in Seq(Control), NEW S \in SUBSET Permitted(cat)
  PROVE  /\ PlanOf(cat, S) \in ControlPlan /\ PlanOf(cat, S).ids = S /\ Cost(cat, S) \in Nat
         /\ Cardinality(S) \in Nat
         /\ \A R \in SUBSET S : /\ Cost(cat, R) <= Cost(cat, S) /\ Cardinality(R) <= Cardinality(S)
                                /\ Cardinality(R) = Cardinality(S) => R = S
<1>. DEFINE w == Costs(cat)
<1>1. \A T : Cost(cat, T) = Total(w, T)
  BY DEF Cost, PlanOf, Total, MapThenSumSet, MapThenFoldSet
<1>2. S \subseteq Nat /\ IsFiniteSet(S) /\ \A i \in S : w[i] \in Nat
  BY PermittedIs, FS_Subset
<1>. HIDE DEF w
<1>3. \A R \in SUBSET S : IsFiniteSet(R) /\ Total(w, R) \in Nat
  BY <1>2, FS_Subset, TotalType
<1>4. ASSUME NEW R \in SUBSET S PROVE Cost(cat, R) <= Cost(cat, S)
  <2>. DEFINE T == S \ R
  <2>1. R \union T = S /\ R \intersect T = {} /\ IsFiniteSet(R) /\ IsFiniteSet(T)
    BY <1>3
  <2>2. \A x \in R \union T : w[x] \in Nat
    BY <1>2
  <2>3. Total(w, R \union T) = Total(w, R) + Total(w, T)
    BY <2>1, <2>2, TotalOfUnion
  <2>4. Total(w, R) \in Nat /\ Total(w, T) \in Nat
    BY <1>3
  <2>5. Total(w, S) = Total(w, R) + Total(w, T)
    <3>. HIDE DEF T
    <3>. QED  BY <2>1, <2>3
  <2>. HIDE DEF T
  <2>. QED  BY <1>1, <2>4, <2>5
<1>5. Cost(cat, S) \in Nat
  BY <1>1, <1>3
<1>6. PlanOf(cat, S) \in ControlPlan /\ PlanOf(cat, S).ids = S
  <2>1. PlanOf(cat, S) = [ids |-> S, cost |-> Cost(cat, S)]
    BY DEF PlanOf, Cost
  <2>. QED  BY <1>2, <1>5, <2>1 DEF ControlPlan
<1>7. /\ Cardinality(S) \in Nat
      /\ \A R \in SUBSET S : Cardinality(R) <= Cardinality(S) /\ (Cardinality(R) = Cardinality(S) => R = S)
  BY <1>2, FS_Subset, FS_CardinalityType
<1>. QED  BY <1>4, <1>5, <1>6, <1>7

\* The plans over a catalogue.
PlansOf(cat) == {PlanOf(cat, S) : S \in SUBSET Permitted(cat)}

\* KeyLess is a strict total order on the plans over a catalogue.
LEMMA KeysOrder ==
  ASSUME NEW cat \in Seq(Control)
  PROVE  /\ \A p, q \in PlansOf(cat) : p # q => KeyLess(p, q) \/ KeyLess(q, p)
         /\ \A p, q \in PlansOf(cat) : KeyLess(p, q) => ~ KeyLess(q, p)
         /\ \A p, q, r \in PlansOf(cat) : KeyLess(p, q) /\ KeyLess(q, r) => KeyLess(p, r)
<1>1. \A p \in PlansOf(cat) : /\ p.cost \in Nat /\ Cardinality(p.ids) \in Nat
                              /\ p.ids \in SUBSET Nat /\ IsFiniteSet(p.ids)
                              /\ p = PlanOf(cat, p.ids)
  <2>. SUFFICES ASSUME NEW S \in SUBSET Permitted(cat)
                PROVE  LET p == PlanOf(cat, S)
                       IN  /\ p.cost \in Nat /\ Cardinality(p.ids) \in Nat
                           /\ p.ids \in SUBSET Nat /\ IsFiniteSet(p.ids)
                           /\ p = PlanOf(cat, p.ids)
    BY DEF PlansOf
  <2>1. S \in SUBSET Nat /\ IsFiniteSet(S)
    BY PermittedIs, FS_Subset
  <2>. QED  BY <2>1, PlanIs DEF Cost
<1>2. \A A, B, C \in SUBSET Nat : IdsLess(A, B) /\ IdsLess(B, C) => IdsLess(A, C)
  BY LexTransitive DEF IdsLess
<1>3. \A A, B \in SUBSET Nat : IdsLess(A, B) => ~ IdsLess(B, A)
  <2>. SUFFICES ASSUME NEW A \in SUBSET Nat, NEW B \in SUBSET Nat, IdsLess(A, B), IdsLess(B, A)
                PROVE  FALSE
    OBVIOUS
  <2>1. PICK x \in A \ B : \A y \in B \ A : x < y
    BY DEF IdsLess
  <2>2. PICK y \in B \ A : \A z \in A \ B : y < z
    BY DEF IdsLess
  <2>3. x \in Nat /\ y \in Nat /\ x < y /\ y < x
    BY <2>1, <2>2
  <2>. QED  BY <2>3
<1>4. ASSUME NEW A \in SUBSET Nat, NEW B \in SUBSET Nat, A # B,
             IsFiniteSet(A), IsFiniteSet(B), Cardinality(A) = Cardinality(B)
      PROVE  IdsLess(A, B) \/ IdsLess(B, A)
  <2>1. A \ B # {} /\ B \ A # {}
    BY <1>4, FS_Subset
  <2>2. PICK x \in A \ B : \A y \in A \ B : x <= y
    <3>1. A \ B \in SUBSET Nat
      OBVIOUS
    <3>. QED  BY <2>1, <3>1, LeastNat
  <2>3. PICK y \in B \ A : \A z \in B \ A : y <= z
    <3>1. B \ A \in SUBSET Nat
      OBVIOUS
    <3>. QED  BY <2>1, <3>1, LeastNat
  <2>4. x \in Nat /\ y \in Nat /\ x # y
    OBVIOUS
  <2>5. CASE x < y
    <3>1. \A z \in B \ A : x < z
      <4>. TAKE z \in B \ A
      <4>1. y <= z /\ z \in Nat
        BY <2>3
      <4>. QED  BY <2>4, <2>5, <4>1
    <3>. QED  BY <3>1 DEF IdsLess
  <2>6. CASE y < x
    <3>1. \A z \in A \ B : y < z
      <4>. TAKE z \in A \ B
      <4>1. x <= z /\ z \in Nat
        BY <2>2
      <4>. QED  BY <2>4, <2>6, <4>1
    <3>. QED  BY <3>1 DEF IdsLess
  <2>. QED  BY <2>4, <2>5, <2>6
<1>5. ASSUME NEW p \in PlansOf(cat), NEW q \in PlansOf(cat), p # q
      PROVE  KeyLess(p, q) \/ KeyLess(q, p)
  <2>1. p.ids # q.ids
    BY <1>1, <1>5
  <2>2. CASE p.cost = q.cost /\ Cardinality(p.ids) = Cardinality(q.ids)
    BY <1>1, <1>4, <2>1, <2>2 DEF KeyLess
  <2>3. CASE ~ (p.cost = q.cost /\ Cardinality(p.ids) = Cardinality(q.ids))
    BY <1>1, <2>3 DEF KeyLess
  <2>. QED  BY <2>2, <2>3
<1>6. ASSUME NEW p \in PlansOf(cat), NEW q \in PlansOf(cat), KeyLess(p, q), KeyLess(q, p)
      PROVE  FALSE
  BY <1>1, <1>3, <1>6 DEF KeyLess
<1>7. ASSUME NEW p \in PlansOf(cat), NEW q \in PlansOf(cat), NEW r \in PlansOf(cat),
             KeyLess(p, q), KeyLess(q, r)
      PROVE  KeyLess(p, r)
  <2>1. IdsLess(p.ids, q.ids) /\ IdsLess(q.ids, r.ids) => IdsLess(p.ids, r.ids)
    BY <1>1, <1>2
  <2>. QED  BY <1>1, <1>7, <2>1 DEF KeyLess
<1>. QED  BY <1>5, <1>6, <1>7

-----------------------------------------------------------------------------
(* The search as a function on its calls.                                   *)

\* The recursion of ExactControlPlan.
IsSearch(required, cat, f) ==
  f = [call \in Calls(cat) |->
         IF Settles(required, cat, call) THEN Settled(required, cat, call)
         ELSE f[Call(Min(Undecided(cat, call)) + 1, call.ids,
                     f[Call(Min(Undecided(cat, call)) + 1,
                            call.ids \union {Min(Undecided(cat, call))}, call.best)])]]

\* The plan is what the first call of the search leaves.
LEMMA PlanBySearch ==
  ASSUME NEW required, NEW cat
  PROVE  ExactControlPlan(required, cat) =
           LET found == (CHOOSE f : IsSearch(required, cat, f))[Call(1, {}, {})]
           IN  IF found = {} THEN NoPlan ELSE CHOOSE plan \in found : TRUE
BY DEF ExactControlPlan, IsSearch

\* What is left to decide.
LEMMA NextIs ==
  ASSUME NEW cat \in Seq(Control), NEW call \in Calls(cat), Undecided(cat, call) # {}
  PROVE  LET next == Min(Undecided(cat, call))
         IN  /\ next \in Permitted(cat) /\ next >= call.index /\ next \in 1..Len(cat)
             /\ \A i \in Permitted(cat) : i >= call.index => next <= i
<1>. DEFINE U == Undecided(cat, call)
<1>1. U \in SUBSET Nat
  BY PermittedIs DEF Undecided
<1>2. PICK m \in U : \A i \in U : m <= i
  <2>1. U # {}
    OBVIOUS
  <2>. HIDE DEF U
  <2>. QED  BY <1>1, <2>1, LeastNat
<1>3. Min(U) \in U /\ \A i \in U : Min(U) <= i
  <2>. HIDE DEF U
  <2>. QED  BY <1>2 DEF Min
<1>. QED  BY <1>3, PermittedIs DEF Undecided

\* Both calls that a call makes are calls.
LEMMA CallIs ==
  ASSUME NEW cat \in Seq(Control), NEW call \in Calls(cat), Undecided(cat, call) # {},
         NEW best \in SUBSET ControlPlan
  PROVE  LET next == Min(Undecided(cat, call))
         IN  /\ Call(next + 1, call.ids \union {next}, best) \in Calls(cat)
             /\ Call(next + 1, call.ids, best) \in Calls(cat)
<1>. DEFINE next == Min(Undecided(cat, call))
<1>1. next \in Permitted(cat) /\ next \in 1..Len(cat) /\ Len(cat) \in Nat
  BY NextIs, PermittedIs
<1>2. call.ids \in SUBSET Permitted(cat)
  BY DEF Calls
<1>. HIDE DEF next
<1>3. next + 1 \in 1..(Len(cat) + 1) /\ call.ids \union {next} \in SUBSET Permitted(cat)
  BY <1>1, <1>2
<1>. QED  BY <1>2, <1>3 DEF Call, Calls, next

\* Calls at one index, and what they return when the later calls return what g says.
Spots(cat) == [ids : SUBSET Permitted(cat), best : SUBSET ControlPlan]
Spot(ids, best) == [ids |-> ids, best |-> best]
CallAt(i, u) == Call(i, u.ids, u.best)
Goes(g, m, u) == g[Spot(u.ids, g[Spot(u.ids \union {m}, u.best)])]

\* A settled call leaves a plan or none.
LEMMA SettledType ==
  ASSUME NEW cat \in Seq(Control), NEW required, NEW i, NEW u \in Spots(cat)
  PROVE  Settled(required, cat, CallAt(i, u)) \in SUBSET ControlPlan
<1>1. u.ids \in SUBSET Permitted(cat) /\ u.best \in SUBSET ControlPlan
  BY DEF Spots
<1>2. PlanOf(cat, u.ids) \in ControlPlan
  BY <1>1, PlanIs
<1>. QED  BY <1>1, <1>2 DEF Settled, CallAt, Call

\* So do the two calls of a call that goes on.
LEMMA GoesType ==
  ASSUME NEW cat, NEW g \in [Spots(cat) -> SUBSET ControlPlan],
         NEW u \in Spots(cat), NEW m \in Permitted(cat)
  PROVE  Goes(g, m, u) \in SUBSET ControlPlan
<1>1. Spot(u.ids \union {m}, u.best) \in Spots(cat)
  BY DEF Spots, Spot
<1>2. g[Spot(u.ids \union {m}, u.best)] \in SUBSET ControlPlan
  BY <1>1
<1>3. Spot(u.ids, g[Spot(u.ids \union {m}, u.best)]) \in Spots(cat)
  BY <1>2 DEF Spots, Spot
<1>. QED  BY <1>3 DEF Goes

\* Where there is no control to decide at an index, its calls are those at the next.
LEMMA SameCalls ==
  ASSUME NEW cat \in Seq(Control), NEW required, NEW i \in 1..Len(cat), i \notin Permitted(cat), NEW u
  PROVE  /\ Undecided(cat, CallAt(i, u)) = Undecided(cat, CallAt(i + 1, u))
         /\ Settles(required, cat, CallAt(i, u)) <=> Settles(required, cat, CallAt(i + 1, u))
         /\ Settled(required, cat, CallAt(i, u)) = Settled(required, cat, CallAt(i + 1, u))
<1>1. \A j \in Permitted(cat) : j >= i <=> j >= i + 1
  BY PermittedIs
<1>2. /\ CallAt(i, u).index = i /\ CallAt(i + 1, u).index = i + 1
      /\ CallAt(i, u).ids = CallAt(i + 1, u).ids /\ CallAt(i, u).best = CallAt(i + 1, u).best
  BY DEF CallAt, Call
<1>3. Undecided(cat, CallAt(i, u)) = Undecided(cat, CallAt(i + 1, u))
  BY <1>1, <1>2 DEF Undecided
<1>. QED  BY <1>2, <1>3 DEF Settles, Settled

\* There is a search: its calls are answered from the last index to the first.
LEMMA SearchExists ==
  ASSUME NEW cat \in Seq(Control), NEW required
  PROVE  \E f : IsSearch(required, cat, f) /\ f \in [Calls(cat) -> SUBSET ControlPlan]
<1>. DEFINE A == Permitted(cat)
            n == Len(cat)
            U == Spots(cat)
            D == [U -> SUBSET ControlPlan]
            Sets(i, u) == Settles(required, cat, CallAt(i, u))
            Left(i, u) == Settled(required, cat, CallAt(i, u))
            Body(i, g) == [u \in U |-> IF Sets(i, u) THEN Left(i, u) ELSE Goes(g, i, u)]
            start == [u \in U |-> Left(n + 1, u)]
            step == [k \in 1..n |-> [g \in D |-> IF n + 1 - k \in A THEN Body(n + 1 - k, g) ELSE g]]
<1>1. n \in Nat /\ A \subseteq 1..n
  BY PermittedIs
<1>2. \A i : \A u \in U : Left(i, u) \in SUBSET ControlPlan
  BY SettledType
<1>3. \A g \in D : \A u \in U : \A m \in A : Goes(g, m, u) \in SUBSET ControlPlan
  BY GoesType
<1>. HIDE DEF A, n, U, Left, Sets
<1>4. start \in D
  BY <1>2
<1>5. ASSUME NEW i \in A, NEW g \in D PROVE Body(i, g) \in D
  <2>1. \A u \in U : (IF Sets(i, u) THEN Left(i, u) ELSE Goes(g, i, u)) \in SUBSET ControlPlan
    <3>. HIDE DEF D
    <3>. QED  BY <1>2, <1>3
  <2>. QED  BY <2>1
<1>6. step \in [1..n -> [D -> D]]
  <2>. HIDE DEF D, Body
  <2>. QED  BY <1>5
<1>7. PICK G : Iterates(D, start, n, step, G)
  <2>. HIDE DEF D, start, step
  <2>. QED  BY <1>1, <1>4, <1>6, IteratesExist
<1>8. G \in [0..n -> D] /\ G[0] = start /\ \A k \in 1..n : G[k] = step[k][G[k - 1]]
  <2>. HIDE DEF D, start, step
  <2>. QED  BY <1>7 DEF Iterates
<1>9. ASSUME NEW k \in 1..n
      PROVE  /\ k - 1 \in 0..n /\ G[k - 1] \in D
             /\ G[k] = IF n + 1 - k \in A THEN Body(n + 1 - k, G[k - 1]) ELSE G[k - 1]
  <2>1. k - 1 \in 0..n
    BY <1>1
  <2>2. G[k - 1] \in D
    <3>. HIDE DEF D, start, step
    <3>. QED  BY <1>8, <2>1
  <2>. HIDE DEF D, Body
  <2>3. step[k][G[k - 1]] = IF n + 1 - k \in A THEN Body(n + 1 - k, G[k - 1]) ELSE G[k - 1]
    BY <2>2
  <2>. HIDE DEF step
  <2>. QED  BY <1>8, <2>1, <2>2, <2>3
<1>. DEFINE Low(i, u) == Min(Undecided(cat, CallAt(i, u)))
            Eq(k) == \A u \in U :
                       G[k][u] = IF Sets(n + 1 - k, u) THEN Left(n + 1 - k, u)
                                 ELSE Goes(G[n - Low(n + 1 - k, u)], Low(n + 1 - k, u), u)
<1>10. Eq(0)
  <2>. SUFFICES ASSUME NEW u \in U PROVE Sets(n + 1, u) /\ G[0][u] = Left(n + 1, u)
    BY <1>1
  <2>1. G[0][u] = Left(n + 1, u)
    BY <1>8
  <2>2. Undecided(cat, CallAt(n + 1, u)) = {}
    <3>1. \A i \in A : ~ (i >= n + 1)
      BY <1>1
    <3>2. CallAt(n + 1, u).index = n + 1
      BY DEF CallAt, Call
    <3>. QED  BY <3>1, <3>2 DEF Undecided, A
  <2>. QED  BY <2>1, <2>2 DEF Sets, Settles
<1>11. ASSUME NEW k \in 1..n, Eq(k - 1) PROVE Eq(k)
  <2>. DEFINE i == n + 1 - k
  <2>1. i \in 1..n /\ n + 1 - (k - 1) = i + 1 /\ n - i = k - 1 /\ i \in Int
    BY <1>1
  <2>. HIDE DEF i
  <2>2. CASE i \in A
    <3>. SUFFICES ASSUME NEW u \in U, ~ Sets(i, u)
                  PROVE  Goes(G[k - 1], i, u) = Goes(G[n - Low(i, u)], Low(i, u), u)
      BY <1>9, <2>2 DEF i
    <3>1. CallAt(i, u).index = i
      BY DEF CallAt, Call
    <3>2. i \in Undecided(cat, CallAt(i, u))
      BY <2>1, <2>2, <3>1 DEF Undecided, A
    <3>3. CallAt(i, u) \in Calls(cat)
      BY <1>1, <2>1 DEF CallAt, Call, Calls, U, Spots, n
    <3>4. Low(i, u) \in Permitted(cat) /\ Low(i, u) >= i /\ Low(i, u) <= i
      <4>1. Undecided(cat, CallAt(i, u)) # {}
        BY <3>2
      <4>2. i \in Permitted(cat) /\ i >= CallAt(i, u).index
        BY <2>1, <2>2, <3>1 DEF A
      <4>. QED  BY <3>1, <3>3, <4>1, <4>2, NextIs
    <3>5. Low(i, u) = i
      <4>1. Low(i, u) \in Int
        BY <3>4, PermittedIs
      <4>. QED  BY <2>1, <3>4, <4>1
    <3>. QED  BY <2>1, <3>5
  <2>3. CASE i \notin A
    <3>1. G[k] = G[k - 1]
      BY <1>9, <2>3 DEF i
    <3>2. \A u : /\ Sets(i, u) <=> Sets(i + 1, u)
                 /\ Left(i, u) = Left(i + 1, u) /\ Low(i, u) = Low(i + 1, u)
      BY <2>1, <2>3, SameCalls DEF Sets, Left, A, n
    <3>3. \A u \in U : G[k - 1][u] = IF Sets(i + 1, u) THEN Left(i + 1, u)
                                     ELSE Goes(G[n - Low(i + 1, u)], Low(i + 1, u), u)
      BY <1>11, <2>1
    <3>. HIDE DEF Low
    <3>. QED  BY <3>1, <3>2, <3>3 DEF i
  <2>. QED  BY <2>2, <2>3
<1>12. \A k \in 0..n : Eq(k)
  <2>. DEFINE bad == {k \in 0..n : ~ Eq(k)}
  <2>. SUFFICES ASSUME bad # {} PROVE FALSE
    OBVIOUS
  <2>1. bad \in SUBSET Nat
    OBVIOUS
  <2>2. PICK k \in bad : \A j \in bad : k <= j
    <3>. HIDE DEF bad
    <3>. QED  BY <2>1, LeastNat
  <2>3. k \in 0..n /\ ~ Eq(k)
    OBVIOUS
  <2>. HIDE DEF Eq
  <2>4. k \in 1..n /\ k - 1 \in 0..n /\ ~ (k <= k - 1)
    BY <1>1, <1>10, <2>3
  <2>5. Eq(k - 1)
    BY <2>2, <2>4
  <2>. QED  BY <1>11, <2>3, <2>4, <2>5
<1>. DEFINE f == [c \in Calls(cat) |-> G[n + 1 - c.index][Spot(c.ids, c.best)]]
<1>13. ASSUME NEW c \in Calls(cat)
       PROVE  /\ n + 1 - c.index \in 0..n /\ n + 1 - (n + 1 - c.index) = c.index
              /\ Spot(c.ids, c.best) \in U /\ CallAt(c.index, Spot(c.ids, c.best)) = c
  <2>1. c.index \in 1..(n + 1) /\ c.ids \in SUBSET Permitted(cat) /\ c.best \in SUBSET ControlPlan
        /\ c = [index |-> c.index, ids |-> c.ids, best |-> c.best]
    BY DEF Calls, n
  <2>2. Spot(c.ids, c.best) \in U
    BY <2>1 DEF U, Spots, Spot
  <2>3. CallAt(c.index, Spot(c.ids, c.best)) = c
    BY <2>1 DEF CallAt, Call, Spot
  <2>. QED  BY <1>1, <2>1, <2>2, <2>3
<1>14. f \in [Calls(cat) -> SUBSET ControlPlan]
  <2>1. \A c \in Calls(cat) : G[n + 1 - c.index] \in D
    <3>. HIDE DEF D
    <3>. QED  BY <1>8, <1>13
  <2>2. \A c \in Calls(cat) : G[n + 1 - c.index][Spot(c.ids, c.best)] \in SUBSET ControlPlan
    BY <1>13, <2>1
  <2>. QED  BY <2>2
<1>15. ASSUME NEW c \in Calls(cat)
       PROVE  f[c] = IF Settles(required, cat, c) THEN Settled(required, cat, c)
                     ELSE f[Call(Min(Undecided(cat, c)) + 1, c.ids,
                            f[Call(Min(Undecided(cat, c)) + 1,
                                   c.ids \union {Min(Undecided(cat, c))}, c.best)])]
  <2>. DEFINE u == Spot(c.ids, c.best)
              m == Min(Undecided(cat, c))
              inner == Call(m + 1, c.ids \union {m}, c.best)
  <2>1. u \in U /\ CallAt(c.index, u) = c /\ u.ids = c.ids /\ u.best = c.best
    BY <1>13 DEF Spot
  <2>2. f[c] = IF Settles(required, cat, c) THEN Settled(required, cat, c)
               ELSE Goes(G[n - m], m, u)
    <3>1. Eq(n + 1 - c.index)
      <4>. HIDE DEF Eq
      <4>. QED  BY <1>12, <1>13
    <3>2. G[n + 1 - c.index][u] = IF Sets(c.index, u) THEN Left(c.index, u)
                                  ELSE Goes(G[n - Low(c.index, u)], Low(c.index, u), u)
      BY <1>13, <2>1, <3>1
    <3>3. f[c] = G[n + 1 - c.index][u]
      OBVIOUS
    <3>4. (Sets(c.index, u) <=> Settles(required, cat, c)) /\ Left(c.index, u) = Settled(required, cat, c)
          /\ Low(c.index, u) = m
      BY <2>1 DEF Sets, Left
    <3>. HIDE DEF f, u, m, Low, Eq
    <3>. QED  BY <3>2, <3>3, <3>4
  <2>3. ASSUME ~ Settles(required, cat, c)
        PROVE  Goes(G[n - m], m, u) = f[Call(m + 1, c.ids, f[inner])]
    <3>1. Undecided(cat, c) # {} /\ c.best \in SUBSET ControlPlan
      BY <2>3 DEF Settles, Calls
    <3>2. m \in 1..n /\ inner \in Calls(cat)
      BY <3>1, NextIs, CallIs DEF n
    <3>3. f[inner] = G[n + 1 - (m + 1)][Spot(c.ids \union {m}, c.best)]
      <4>1. inner.index = m + 1 /\ inner.ids = c.ids \union {m} /\ inner.best = c.best
        BY DEF Call
      <4>. HIDE DEF m, inner
      <4>. QED  BY <3>2, <4>1
    <3>4. f[inner] \in SUBSET ControlPlan
      <4>. HIDE DEF f, m, inner
      <4>. QED  BY <1>14, <3>2
    <3>. DEFINE outer == Call(m + 1, c.ids, f[inner])
    <3>5. outer \in Calls(cat)
      <4>. HIDE DEF f, inner
      <4>. QED  BY <3>1, <3>4, CallIs
    <3>6. f[outer] = G[n + 1 - (m + 1)][Spot(c.ids, f[inner])]
      <4>1. outer.index = m + 1 /\ outer.ids = c.ids /\ outer.best = f[inner]
        BY DEF Call
      <4>. HIDE DEF m, inner, outer
      <4>. QED  BY <3>5, <4>1
    <3>7. n + 1 - (m + 1) = n - m
      <4>. HIDE DEF m
      <4>. QED  BY <1>1, <3>2
    <3>. HIDE DEF f, m, inner, u
    <3>. QED  BY <2>1, <3>3, <3>6, <3>7 DEF Goes
  <2>. HIDE DEF f, u
  <2>. QED  BY <2>2, <2>3
<1>16. IsSearch(required, cat, f)
  <2>1. f = [c \in Calls(cat) |-> f[c]]
    OBVIOUS
  <2>. HIDE DEF f
  <2>. QED  BY <1>15, <2>1 DEF IsSearch
<1>. HIDE DEF f
<1>. QED  BY <1>14, <1>16

\* The sets of controls that close what is required, and those that a call may reach.
Closing(required, cat) == {S \in SUBSET Permitted(cat) : required \subseteq Closed(cat, S)}
Reached(cat, call) ==
  {S \in SUBSET Permitted(cat) : call.ids \subseteq S /\ \A i \in S : i < call.index => i \in call.ids}

\* A plan that comes no later; what beats a set of controls; a best plan so far.
NoLater(p, q) == p = q \/ KeyLess(p, q)
Beats(cat, best, S) == \E b \in best : NoLater(b, PlanOf(cat, S))
IsBest(required, cat, best) ==
  best = {} \/ \E S \in Closing(required, cat) : best = {PlanOf(cat, S)}

\* A call that the search may make.
ValidCall(required, cat, call) ==
  /\ call \in Calls(cat) /\ IsBest(required, cat, call.best)
  /\ \A i \in call.ids : i < call.index
\* What a call has to leave: a plan that comes no later than those it can reach
\* and than those that the best plan before it came no later than.
GoodAnswer(required, cat, call, best) ==
  /\ IsBest(required, cat, best)
  /\ \A S \in Closing(required, cat) :
       S \in Reached(cat, call) \/ Beats(cat, call.best, S) => Beats(cat, best, S)

\* Where the search stops nothing better is to be reached.
LEMMA SettledIsGood ==
  ASSUME NEW cat \in Seq(Control), NEW required, NEW call, ValidCall(required, cat, call),
         Settles(required, cat, call)
  PROVE  GoodAnswer(required, cat, call, Settled(required, cat, call))
<1>. DEFINE A == Permitted(cat)
            plan == PlanOf(cat, call.ids)
            best == call.best
            closed == required \subseteq Closed(cat, call.ids)
            P == PlansOf(cat)
<1>1. call.ids \in SUBSET A /\ IsBest(required, cat, best) /\ plan \in P
  BY DEF ValidCall, Calls, PlansOf
<1>2. \A S \in Closing(required, cat) : S \in SUBSET A /\ PlanOf(cat, S) \in P
  BY DEF Closing, PlansOf
<1>3. \A b \in best : b \in P
  BY <1>1, <1>2 DEF IsBest
<1>4. /\ \A p, q \in P : p # q => KeyLess(p, q) \/ KeyLess(q, p)
      /\ \A p, q, r \in P : KeyLess(p, q) /\ KeyLess(q, r) => KeyLess(p, r)
  BY KeysOrder
<1>5. ASSUME NEW S \in SUBSET A, call.ids \subseteq S
      PROVE  /\ PlanOf(cat, S).cost \in Nat /\ Cardinality(S) \in Nat /\ PlanOf(cat, S).ids = S
             /\ plan.ids = call.ids /\ plan.cost \in Nat /\ Cardinality(call.ids) \in Nat
             /\ plan.cost <= PlanOf(cat, S).cost /\ Cardinality(call.ids) <= Cardinality(S)
             /\ Cardinality(call.ids) = Cardinality(S) => call.ids = S
  BY <1>1, <1>5, PlanIs DEF Cost
<1>6. ASSUME NEW S \in Reached(cat, call) PROVE NoLater(plan, PlanOf(cat, S))
  <2>1. S \in SUBSET A /\ call.ids \subseteq S
    BY DEF Reached
  <2>2. CASE call.ids = S
    BY <2>2 DEF NoLater
  <2>3. CASE call.ids # S
    BY <1>5, <2>1, <2>3 DEF NoLater, KeyLess
  <2>. QED  BY <2>2, <2>3
<1>7. \A b \in best : b.cost \in Nat /\ Cardinality(b.ids) \in Nat
  <2>1. \A S \in SUBSET A : /\ PlanOf(cat, S).cost \in Nat /\ PlanOf(cat, S).ids = S
                            /\ Cardinality(S) \in Nat
    BY PlanIs DEF Cost
  <2>. QED  BY <1>3, <2>1 DEF PlansOf
<1>. HIDE DEF A, plan, best, closed, P
<1>8. CASE Hopeless(plan, best)
  <2>1. Settled(required, cat, call) = best
    BY <1>8 DEF Settled, plan, best
  <2>2. ASSUME NEW S \in Reached(cat, call) PROVE Beats(cat, best, S)
    <3>1. PICK b \in best : \/ plan.cost > b.cost
                            \/ plan.cost = b.cost /\ Cardinality(plan.ids) > Cardinality(b.ids)
      BY <1>8 DEF Hopeless
    <3>2. S \in SUBSET A /\ call.ids \subseteq S
      BY DEF Reached, A
    <3>3. KeyLess(b, PlanOf(cat, S))
      BY <1>5, <1>7, <3>1, <3>2 DEF KeyLess
    <3>. QED  BY <3>3 DEF Beats, NoLater
  <2>. QED  BY <1>1, <2>1, <2>2 DEF GoodAnswer, best
<1>9. CASE ~ Hopeless(plan, best) /\ closed /\ Better(plan, best)
  <2>1. Settled(required, cat, call) = {plan}
    BY <1>9 DEF Settled, plan, best, closed
  <2>2. IsBest(required, cat, {plan})
    <3>1. call.ids \in Closing(required, cat)
      BY <1>1, <1>9 DEF Closing, A, closed
    <3>. QED  BY <3>1 DEF IsBest, plan
  <2>3. ASSUME NEW S \in Closing(required, cat), Beats(cat, best, S) PROVE Beats(cat, {plan}, S)
    <3>1. PICK b \in best : NoLater(b, PlanOf(cat, S))
      BY <2>3 DEF Beats
    <3>2. KeyLess(plan, b)
      BY <1>9 DEF Better
    <3>3. KeyLess(plan, PlanOf(cat, S))
      BY <1>1, <1>2, <1>3, <1>4, <3>1, <3>2 DEF NoLater
    <3>. QED  BY <3>3 DEF Beats, NoLater
  <2>4. ASSUME NEW S \in Reached(cat, call) PROVE Beats(cat, {plan}, S)
    BY <1>6 DEF Beats
  <2>. QED  BY <2>1, <2>2, <2>3, <2>4 DEF GoodAnswer, best
<1>10. CASE ~ Hopeless(plan, best) /\ closed /\ ~ Better(plan, best)
  <2>1. Settled(required, cat, call) = best
    BY <1>10 DEF Settled, plan, best, closed
  <2>2. PICK b \in best : ~ KeyLess(plan, b)
    BY <1>10 DEF Better
  <2>3. NoLater(b, plan)
    BY <1>1, <1>3, <1>4, <2>2 DEF NoLater
  <2>4. ASSUME NEW S \in Closing(required, cat), S \in Reached(cat, call) PROVE Beats(cat, best, S)
    <3>1. NoLater(plan, PlanOf(cat, S))
      BY <1>6, <2>4
    <3>2. NoLater(b, PlanOf(cat, S))
      BY <1>1, <1>2, <1>3, <1>4, <2>3, <3>1 DEF NoLater
    <3>. QED  BY <3>2 DEF Beats
  <2>. QED  BY <1>1, <2>1, <2>4 DEF GoodAnswer, best
<1>11. CASE ~ Hopeless(plan, best) /\ ~ closed
  <2>1. Settled(required, cat, call) = best
    BY <1>11 DEF Settled, plan, best, closed
  <2>2. Undecided(cat, call) = {}
    BY <1>11 DEF Settles, plan, best, closed
  <2>3. ASSUME NEW S \in Closing(required, cat), S \in Reached(cat, call) PROVE FALSE
    <3>1. \A i \in A : ~ (i >= call.index)
      BY <2>2 DEF Undecided, A
    <3>2. \A i \in A : i < call.index
      <4>1. A \subseteq Nat /\ call.index \in Nat
        BY PermittedIs DEF A, ValidCall, Calls
      <4>. QED  BY <3>1, <4>1
    <3>3. S = call.ids
      BY <2>3, <3>2 DEF Reached, A
    <3>. QED  BY <1>11, <3>3 DEF Closing, closed
  <2>. QED  BY <1>1, <2>1, <2>3 DEF GoodAnswer, best
<1>. QED  BY <1>8, <1>9, <1>10, <1>11

\* First the plans with the next control, then those without it.
LEMMA BranchesAreGood ==
  ASSUME NEW cat \in Seq(Control), NEW required, NEW call, ValidCall(required, cat, call),
         ~ Settles(required, cat, call), NEW taken, NEW left,
         GoodAnswer(required, cat,
                    Call(Min(Undecided(cat, call)) + 1,
                         call.ids \union {Min(Undecided(cat, call))}, call.best), taken),
         GoodAnswer(required, cat, Call(Min(Undecided(cat, call)) + 1, call.ids, taken), left)
  PROVE  GoodAnswer(required, cat, call, left)
<1>. DEFINE m == Min(Undecided(cat, call))
            inner == Call(m + 1, call.ids \union {m}, call.best)
            outer == Call(m + 1, call.ids, taken)
<1>1. /\ GoodAnswer(required, cat, inner, taken) /\ GoodAnswer(required, cat, outer, left)
  OBVIOUS
<1>2. /\ inner.index = m + 1 /\ inner.ids = call.ids \union {m} /\ inner.best = call.best
      /\ outer.index = m + 1 /\ outer.ids = call.ids /\ outer.best = taken
  BY DEF Call
<1>3. call \in Calls(cat) /\ Undecided(cat, call) # {} /\ call.index \in Nat
  BY DEF Settles, ValidCall, Calls
<1>4. m \in Permitted(cat) /\ \A i \in Permitted(cat) : i >= call.index => m <= i
  BY <1>3, NextIs
<1>. HIDE DEF m, inner, outer
<1>5. m \in Nat /\ Permitted(cat) \subseteq Nat
  BY <1>4, PermittedIs
<1>6. ASSUME NEW S \in Reached(cat, call) PROVE S \in Reached(cat, inner) \/ S \in Reached(cat, outer)
  <2>1. S \in SUBSET Permitted(cat) /\ call.ids \subseteq S /\ \A i \in S : i < call.index => i \in call.ids
    BY DEF Reached
  <2>2. ASSUME NEW i \in S, i < m + 1 PROVE i = m \/ i \in call.ids
    <3>1. i \in Nat /\ (i >= call.index => m <= i)
      BY <1>4, <1>5, <2>1
    <3>. QED  BY <1>3, <1>5, <2>1, <2>2, <3>1
  <2>. QED  BY <1>2, <2>1, <2>2 DEF Reached
<1>7. ASSUME NEW S \in Closing(required, cat), S \in Reached(cat, call) \/ Beats(cat, call.best, S)
      PROVE  Beats(cat, left, S)
  <2>1. S \in Reached(cat, inner) \/ Beats(cat, inner.best, S) => Beats(cat, taken, S)
    BY <1>1 DEF GoodAnswer
  <2>2. S \in Reached(cat, outer) \/ Beats(cat, outer.best, S) => Beats(cat, left, S)
    BY <1>1 DEF GoodAnswer
  <2>. QED  BY <1>2, <1>6, <1>7, <2>1, <2>2
<1>. QED  BY <1>1, <1>7 DEF GoodAnswer

\* By induction over the indices, from the last.
LEMMA SearchIsGood ==
  ASSUME NEW cat \in Seq(Control), NEW required, NEW f, IsSearch(required, cat, f)
  PROVE  \A call : ValidCall(required, cat, call) => GoodAnswer(required, cat, call, f[call])
<1>. DEFINE n == Len(cat)
            Sure(k) == \A call : ValidCall(required, cat, call) /\ call.index = n + 1 - k
                                   => GoodAnswer(required, cat, call, f[call])
<1>1. n \in Nat
  BY PermittedIs
<1>2. ASSUME NEW k \in 0..n, \A j \in 0..n : j < k => Sure(j) PROVE Sure(k)
  <2>. SUFFICES ASSUME NEW call, ValidCall(required, cat, call), call.index = n + 1 - k
                PROVE  GoodAnswer(required, cat, call, f[call])
    OBVIOUS
  <2>. DEFINE m == Min(Undecided(cat, call))
              inner == Call(m + 1, call.ids \union {m}, call.best)
              outer == Call(m + 1, call.ids, f[inner])
  <2>1. call \in Calls(cat)
    BY DEF ValidCall
  <2>2. f[call] = IF Settles(required, cat, call) THEN Settled(required, cat, call)
                  ELSE f[outer]
    BY <2>1 DEF IsSearch
  <2>3. CASE Settles(required, cat, call)
    <3>. HIDE DEF outer
    <3>. QED  BY <2>2, <2>3, SettledIsGood
  <2>4. CASE ~ Settles(required, cat, call)
    <3>1. Undecided(cat, call) # {} /\ call.best \in SUBSET ControlPlan
      BY <2>1, <2>4 DEF Settles, Calls
    <3>2. /\ m \in Permitted(cat) /\ m >= call.index /\ m \in 1..n
      BY <2>1, <3>1, NextIs
    <3>3. inner \in Calls(cat)
      BY <2>1, <3>1, CallIs
    <3>4. /\ inner.index = m + 1 /\ inner.ids = call.ids \union {m} /\ inner.best = call.best
          /\ outer.index = m + 1 /\ outer.ids = call.ids /\ outer.best = f[inner]
      BY DEF Call
    <3>. HIDE DEF m, inner, outer
    <3>5. \A i \in call.ids : i < m + 1
      <4>1. \A i \in call.ids : i \in Nat /\ i < call.index
        BY <2>1, PermittedIs DEF ValidCall, Calls
      <4>. QED  BY <1>1, <3>2, <4>1
    <3>6. n - m \in 0..n /\ n - m < k /\ n + 1 - (n - m) = m + 1 /\ m < m + 1
      BY <1>1, <3>2
    <3>7. ValidCall(required, cat, inner)
      BY <3>3, <3>4, <3>5, <3>6 DEF ValidCall
    <3>8. GoodAnswer(required, cat, inner, f[inner])
      <4>1. inner.index = n + 1 - (n - m)
        BY <3>4, <3>6
      <4>. QED  BY <1>2, <3>6, <3>7, <4>1
    <3>9. f[inner] \in SUBSET ControlPlan
      <4>1. \A S \in Closing(required, cat) : PlanOf(cat, S) \in ControlPlan
        BY PlanIs DEF Closing
      <4>. QED  BY <3>8, <4>1 DEF GoodAnswer, IsBest
    <3>10. outer \in Calls(cat)
      BY <2>1, <3>1, <3>9, CallIs DEF outer, m
    <3>11. ValidCall(required, cat, outer)
      BY <3>4, <3>5, <3>6, <3>8, <3>10 DEF ValidCall, GoodAnswer
    <3>12. GoodAnswer(required, cat, outer, f[outer])
      <4>1. outer.index = n + 1 - (n - m)
        BY <3>4, <3>6
      <4>. QED  BY <1>2, <3>6, <3>11, <4>1
    <3>13. GoodAnswer(required, cat, call, f[outer])
      BY <2>4, <3>8, <3>12, BranchesAreGood DEF outer, inner, m
    <3>. QED  BY <2>2, <2>4, <3>13
  <2>. QED  BY <2>3, <2>4
<1>. HIDE DEF Sure
<1>3. \A k \in 0..n : Sure(k)
  <2>. DEFINE bad == {k \in 0..n : ~ Sure(k)}
  <2>. SUFFICES ASSUME bad # {} PROVE FALSE
    OBVIOUS
  <2>1. bad \in SUBSET Nat
    OBVIOUS
  <2>2. PICK k \in bad : \A j \in bad : k <= j
    <3>. HIDE DEF bad
    <3>. QED  BY <2>1, LeastNat
  <2>3. \A j \in 0..n : j < k => Sure(j)
    BY <1>1, <2>2
  <2>. QED  BY <1>2, <2>2, <2>3
<1>4. ASSUME NEW call, ValidCall(required, cat, call) PROVE GoodAnswer(required, cat, call, f[call])
  <2>1. call.index \in 1..(n + 1)
    BY <1>4 DEF ValidCall, Calls
  <2>2. n + 1 - call.index \in 0..n /\ call.index = n + 1 - (n + 1 - call.index)
    BY <1>1, <2>1
  <2>. QED  BY <1>3, <1>4, <2>2 DEF Sure
<1>. QED  BY <1>4

\* The pruned search returns the plan of the brute-force oracle.
LEMMA SearchIsOracle ==
  ASSUME NEW cat \in Seq(Control), NEW required
  PROVE  ExactControlPlan(required, cat) = BruteForceControlPlan(required, cat)
<1>. DEFINE f == CHOOSE g : IsSearch(required, cat, g)
            root == Call(1, {}, {})
            closing == {PlanOf(cat, S) : S \in Closing(required, cat)}
<1>1. IsSearch(required, cat, f)
  BY SearchExists
<1>2. ExactControlPlan(required, cat) =
        IF f[root] = {} THEN NoPlan ELSE CHOOSE plan \in f[root] : TRUE
  BY PlanBySearch
<1>3. BruteForceControlPlan(required, cat) =
        IF closing = {} THEN NoPlan
        ELSE CHOOSE p \in closing : \A q \in closing \ {p} : KeyLess(p, q)
  BY DEF BruteForceControlPlan, Closing
<1>. HIDE DEF f
<1>4. root \in Calls(cat) /\ root.index = 1 /\ root.ids = {} /\ root.best = {}
  <2>1. Len(cat) \in Nat
    BY PermittedIs
  <2>. QED  BY <2>1 DEF Call, Calls
<1>. HIDE DEF root
<1>5. ValidCall(required, cat, root)
  BY <1>4 DEF ValidCall, IsBest
<1>6. GoodAnswer(required, cat, root, f[root])
  BY <1>1, <1>5, SearchIsGood
<1>7. ASSUME NEW S \in Closing(required, cat) PROVE Beats(cat, f[root], S)
  <2>1. \A i \in S : ~ (i < 1)
    BY PermittedIs DEF Closing
  <2>2. S \in Reached(cat, root)
    BY <1>4, <2>1 DEF Reached, Closing
  <2>. QED  BY <1>6, <2>2 DEF GoodAnswer
<1>8. IsBest(required, cat, f[root])
  BY <1>6 DEF GoodAnswer
<1>9. CASE f[root] = {}
  <2>1. Closing(required, cat) = {}
    BY <1>7, <1>9 DEF Beats
  <2>. QED  BY <1>2, <1>3, <1>9, <2>1
<1>10. CASE f[root] # {}
  <2>1. PICK T \in Closing(required, cat) : f[root] = {PlanOf(cat, T)}
    BY <1>8, <1>10 DEF IsBest
  <2>. DEFINE p == PlanOf(cat, T)
  <2>2. p \in closing /\ \A q \in closing \ {p} : KeyLess(p, q)
    BY <1>7, <2>1 DEF Beats, NoLater
  <2>3. ASSUME NEW r \in closing, \A q \in closing \ {r} : KeyLess(r, q) PROVE r = p
    <3>1. p \in PlansOf(cat) /\ r \in PlansOf(cat)
      BY DEF PlansOf, Closing
    <3>2. KeyLess(p, r) => ~ KeyLess(r, p)
      BY <3>1, KeysOrder
    <3>. HIDE DEF p, closing
    <3>. QED  BY <2>2, <2>3, <3>2
  <2>. HIDE DEF p, closing
  <2>4. closing # {} /\ (CHOOSE r \in closing : \A q \in closing \ {r} : KeyLess(r, q)) = p
    BY <2>2, <2>3
  <2>5. (CHOOSE plan \in f[root] : TRUE) = p
    BY <2>1 DEF p
  <2>. QED  BY <1>2, <1>3, <1>10, <2>4, <2>5
<1>. QED  BY <1>9, <1>10

\* For every catalogue and every set of risks, the pruned search returns the
\* plan that the brute-force oracle returns.
THEOREM SearchAlwaysFindsOraclePlan == CampaignSpec => []SearchFindsOraclePlan
<1>1. SearchFindsOraclePlan
  BY CataloguesAssumption, SearchIsOracle DEF SearchFindsOraclePlan
<1>. QED  BY <1>1, PTL

=============================================================================
