------------------------ MODULE MCRegenerationSearch ------------------------
(* Small instances of RegenerationSearch.                                  *)
EXTENDS RegenerationSearch

MCFacts == {"archive", "backup", "queue", "source"}
MCResidual == {"source"}
MCTransitionIds == 1..3
MCSensors == {"storage", "pipeline"}
MCSensorOf == [t \in MCTransitionIds |-> IF t = 1 THEN "storage" ELSE "pipeline"]

T(requires, forbids, adds, removes) ==
  [requires |-> requires, forbids |-> forbids, adds |-> adds, removes |-> removes]

\* Restore, enqueue, archive, replay (which consumes the queued entry), a replay
\* that a surviving backup forbids, and workflows that rotate the backup away.
Shapes == { T({"backup"}, {}, {"source"}, {}),
            T({"backup"}, {}, {"queue"}, {}),
            T({"backup"}, {}, {"archive"}, {}),
            T({"queue"}, {}, {"source"}, {"queue"}),
            T({"queue"}, {"backup"}, {"source"}, {}),
            T({}, {"queue"}, {"queue"}, {"backup"}),
            T({}, {}, {}, {"backup", "queue"}) }

AllSeen(ids) ==
  { [sensor |-> MCSensorOf[t], transition |-> t, verified |-> TRUE] : t \in ids }

\* The search itself: any workflows and guards, full coverage; and what is
\* answered before it, a guard that is not registered or residual data.
MCSearchCases ==
  { [workflows |-> w, registered |-> MCTransitionIds, guarded |-> g,
     snapshot |-> s, requiredSensors |-> MCSensors,
     observations |-> AllSeen(MCTransitionIds), running |-> MCTransitionIds] :
      w \in [MCTransitionIds -> Shapes],
      g \in {{}, {3}, {1, 2}}, s \in {{"backup"}} }
  \union
  { [workflows |-> w, registered |-> MCTransitionIds \ {3}, guarded |-> g,
     snapshot |-> {"backup", "source"}, requiredSensors |-> MCSensors,
     observations |-> AllSeen(MCTransitionIds), running |-> MCTransitionIds] :
      w \in [MCTransitionIds -> { T({"backup"}, {}, {"source"}, {}),
                                 T({"queue"}, {}, {"source"}, {"queue"}) }],
      g \in {{}, {1}, {3}} }

\* Coverage: any registry, any running workflows, any reports about them.
MCObservations ==
  { [sensor |-> MCSensorOf[t], transition |-> t, verified |-> v] :
      t \in MCTransitionIds, v \in BOOLEAN }

MCCoverageCases ==
  { c \in
    { [workflows |-> [t \in MCTransitionIds |->
                        CASE t = 1 -> T({"backup"}, {}, {"queue"}, {})
                          [] t = 2 -> T({"queue"}, {}, {"source"}, {})
                          [] t = 3 -> T({}, {}, {}, {"backup"})],
       registered |-> r, guarded |-> g, snapshot |-> {"backup"},
       requiredSensors |-> q, observations |-> o, running |-> n] :
         r \in {{1, 2, 3}, {1, 2}, {1, 3}},
         g \in {{}, {2}},
         q \in {MCSensors, {"storage"}},
         o \in SUBSET MCObservations,
         n \in SUBSET MCTransitionIds } : SensorsAreExhaustive(c) }

MCCases == MCSearchCases \union MCCoverageCases
=============================================================================
