------------------------- MODULE ServiceStudy_proofs -------------------------
(***************************************************************************)
(* For every study and pilot the scripts can be started with: what an      *)
(* audit finds erased is erased, and a process that ends has stopped its   *)
(* services.                                                               *)
(*                                                                         *)
(* The process follows its script, so the invariant says what holds after  *)
(* each number of its operations.  The first part is about the scripts     *)
(* alone: a trial is a block of 25 operations, every trial of a study is   *)
(* such a block at some offset, the audits and the plan come where they    *)
(* must, and the clean-up is the last but for the writing.  The second     *)
(* part is the invariant: for a trial that starts at offset b, what the    *)
(* stores hold is a function of how far the process is beyond b, in either *)
(* order of the two remediations.  The third takes the operations one by   *)
(* one, the last the exceptions, kills and restarts.                       *)
(***************************************************************************)
EXTENDS ServiceStudy, DataInduction, SequenceTheorems

TrialVerbs ==
  {"load", "mkdir trial", "set vector", "set cache", "set backups", "set model", "delete source",
   "read retained", "delete point", "delete entry", "unlink key", "subtract", "drop collection",
   "fill collection", "refill cache", "restage backups", "refit", "audit", "clear"}
EnterVerbs ==
  {"refuse existing", "mkdir output", "start postgres", "start redis", "start qdrant", "ready"}
PilotVerbs ==
  {"started", "populate", "dump", "audit before", "delete derived", "unlink dump", "audit after"}
StudyVerbs == TrialVerbs \union EnterVerbs \union PilotVerbs \union {"plan", "write", "stop"}
Vias == {"", Targeted, RebuildAll, PilotCopy}
Operations == [do : StudyVerbs, seed : Nat, via : Vias]

-----------------------------------------------------------------------------
(* The scripts.                                                            *)

LEMMA ArgumentFacts ==
  ASSUME NEW s \in Studies
  PROVE  /\ s.program \in {"study", "pilot"} /\ s.people \in Nat /\ s.people >= 2
         /\ s.calibration \in Seq(Nat) /\ s.holdout \in Seq(Nat) /\ s.only \in BOOLEAN
BY StudiesAssumption

LEMMA BlockFacts ==
  ASSUME NEW verbs \in Seq(StudyVerbs), NEW seed \in Nat, NEW via \in Vias
  PROVE  /\ Steps(verbs, seed, via) \in Seq(Operations)
         /\ Len(Steps(verbs, seed, via)) = Len(verbs)
         /\ \A i \in 1..Len(verbs) :
              Steps(verbs, seed, via)[i] = [do |-> verbs[i], seed |-> seed, via |-> via]
<1>1. /\ Len(verbs) \in Nat /\ DOMAIN verbs = 1..Len(verbs)
      /\ \A i \in 1..Len(verbs) : verbs[i] \in StudyVerbs
  OBVIOUS
<1>2. Steps(verbs, seed, via) =
        [i \in 1..Len(verbs) |-> [do |-> verbs[i], seed |-> seed, via |-> via]]
  BY <1>1 DEF Steps
<1>3. \A i \in 1..Len(verbs) : [do |-> verbs[i], seed |-> seed, via |-> via] \in Operations
  BY <1>1 DEF Operations
<1>. HIDE DEF Steps
<1>. QED  BY <1>1, <1>2, <1>3

LEMMA JoinSteps ==
  ASSUME NEW p \in Seq(Operations), NEW q \in Seq(Operations)
  PROVE  /\ p \o q \in Seq(Operations)
         /\ Len(p) \in Nat /\ Len(q) \in Nat /\ Len(p \o q) = Len(p) + Len(q)
         /\ \A i \in 1..Len(p) : (p \o q)[i] = p[i]
         /\ \A i \in 1..Len(q) : (p \o q)[Len(p) + i] = q[i]
         /\ \A i \in 1..Len(p \o q) :
              \/ i \in 1..Len(p) /\ (p \o q)[i] = p[i]
              \/ i - Len(p) \in 1..Len(q) /\ (p \o q)[i] = q[i - Len(p)]
OBVIOUS

\* The blocks a script is put together from.
SetVerbs == <<"set vector", "set cache", "set backups", "set model">>
TargetedVerbs == <<"delete point", "delete entry", "unlink key", "subtract">>
RebuildVerbs == <<"drop collection", "fill collection", "refill cache", "restage backups", "refit">>

LEMMA VerbLists ==
  /\ \A v \in StudyVerbs : <<v>> \in Seq(StudyVerbs) /\ Len(<<v>>) = 1 /\ <<v>>[1] = v
  /\ \A v, w \in StudyVerbs :
       <<v, w>> \in Seq(StudyVerbs) /\ Len(<<v, w>>) = 2 /\ <<v, w>>[1] = v /\ <<v, w>>[2] = w
  /\ SetVerbs \in Seq(StudyVerbs) /\ Len(SetVerbs) = 4
  /\ TargetedVerbs \in Seq(StudyVerbs) /\ Len(TargetedVerbs) = 4
  /\ RebuildVerbs \in Seq(StudyVerbs) /\ Len(RebuildVerbs) = 5
  /\ Targeted \in Vias /\ RebuildAll \in Vias /\ PilotCopy \in Vias /\ "" \in Vias
  /\ RebuildAll # Targeted /\ PilotCopy # Targeted /\ PilotCopy # RebuildAll
<1>1. \A v \in StudyVerbs : <<v>> \in Seq(StudyVerbs) /\ Len(<<v>>) = 1 /\ <<v>>[1] = v
  OBVIOUS
<1>2. \A v, w \in StudyVerbs :
        <<v, w>> \in Seq(StudyVerbs) /\ Len(<<v, w>>) = 2 /\ <<v, w>>[1] = v /\ <<v, w>>[2] = w
  OBVIOUS
<1>3. \A a, b, c, d \in StudyVerbs : <<a, b, c, d>> \in Seq(StudyVerbs) /\ Len(<<a, b, c, d>>) = 4
  OBVIOUS
<1>4. \A a, b, c, d, e \in StudyVerbs :
        <<a, b, c, d, e>> \in Seq(StudyVerbs) /\ Len(<<a, b, c, d, e>>) = 5
  OBVIOUS
<1>5. SetVerbs \in Seq(StudyVerbs) /\ Len(SetVerbs) = 4
  BY <1>3 DEF SetVerbs, StudyVerbs, TrialVerbs
<1>6. TargetedVerbs \in Seq(StudyVerbs) /\ Len(TargetedVerbs) = 4
  BY <1>3 DEF TargetedVerbs, StudyVerbs, TrialVerbs
<1>7. RebuildVerbs \in Seq(StudyVerbs) /\ Len(RebuildVerbs) = 5
  BY <1>4 DEF RebuildVerbs, StudyVerbs, TrialVerbs
<1>8. /\ Targeted \in Vias /\ RebuildAll \in Vias /\ PilotCopy \in Vias /\ "" \in Vias
      /\ RebuildAll # Targeted /\ PilotCopy # Targeted /\ PilotCopy # RebuildAll
  BY DEF Vias, Targeted, RebuildAll, PilotCopy
<1>. QED  BY <1>1, <1>2, <1>5, <1>6, <1>7, <1>8

\* A trial, as a table.
TargetedFirstVerbs ==
  <<"load", "mkdir trial", "set vector", "set cache", "set backups", "set model", "set vector",
    "set cache", "set backups", "set model", "delete source", "read retained", "delete point",
    "delete entry", "unlink key", "subtract", "audit", "drop collection", "fill collection",
    "refill cache", "restage backups", "refit", "audit", "clear", "clear">>
TargetedFirstVias ==
  <<"", "", Targeted, Targeted, Targeted, Targeted, RebuildAll, RebuildAll, RebuildAll,
    RebuildAll, "", "", Targeted, Targeted, Targeted, Targeted, Targeted, RebuildAll,
    RebuildAll, RebuildAll, RebuildAll, RebuildAll, RebuildAll, Targeted, RebuildAll>>
RebuildFirstVerbs ==
  <<"load", "mkdir trial", "set vector", "set cache", "set backups", "set model", "set vector",
    "set cache", "set backups", "set model", "delete source", "read retained",
    "drop collection", "fill collection", "refill cache", "restage backups", "refit", "audit",
    "delete point", "delete entry", "unlink key", "subtract", "audit", "clear", "clear">>
RebuildFirstVias ==
  <<"", "", Targeted, Targeted, Targeted, Targeted, RebuildAll, RebuildAll, RebuildAll,
    RebuildAll, "", "", RebuildAll, RebuildAll, RebuildAll, RebuildAll, RebuildAll, RebuildAll,
    Targeted, Targeted, Targeted, Targeted, Targeted, Targeted, RebuildAll>>
Table(verbs, vias, seed) ==
  [i \in 1..25 |-> [do |-> verbs[i], seed |-> seed, via |-> vias[i]]]
TrialTable(seed) ==
  IF seed % 2 = 1 THEN Table(TargetedFirstVerbs, TargetedFirstVias, seed)
  ELSE Table(RebuildFirstVerbs, RebuildFirstVias, seed)

LEMMA TargetedFirstIs ==
  /\ TargetedFirstVerbs[1] = "load" /\ TargetedFirstVerbs[2] = "mkdir trial"
  /\ TargetedFirstVerbs[3] = "set vector" /\ TargetedFirstVerbs[4] = "set cache"
  /\ TargetedFirstVerbs[5] = "set backups" /\ TargetedFirstVerbs[6] = "set model"
  /\ TargetedFirstVerbs[7] = "set vector" /\ TargetedFirstVerbs[8] = "set cache"
  /\ TargetedFirstVerbs[9] = "set backups" /\ TargetedFirstVerbs[10] = "set model"
  /\ TargetedFirstVerbs[11] = "delete source" /\ TargetedFirstVerbs[12] = "read retained"
  /\ TargetedFirstVerbs[13] = "delete point" /\ TargetedFirstVerbs[14] = "delete entry"
  /\ TargetedFirstVerbs[15] = "unlink key" /\ TargetedFirstVerbs[16] = "subtract"
  /\ TargetedFirstVerbs[17] = "audit" /\ TargetedFirstVerbs[18] = "drop collection"
  /\ TargetedFirstVerbs[19] = "fill collection" /\ TargetedFirstVerbs[20] = "refill cache"
  /\ TargetedFirstVerbs[21] = "restage backups" /\ TargetedFirstVerbs[22] = "refit"
  /\ TargetedFirstVerbs[23] = "audit" /\ TargetedFirstVerbs[24] = "clear"
  /\ TargetedFirstVerbs[25] = "clear"
  /\ TargetedFirstVias[1] = "" /\ TargetedFirstVias[2] = ""
  /\ TargetedFirstVias[3] = Targeted /\ TargetedFirstVias[4] = Targeted
  /\ TargetedFirstVias[5] = Targeted /\ TargetedFirstVias[6] = Targeted
  /\ TargetedFirstVias[7] = RebuildAll /\ TargetedFirstVias[8] = RebuildAll
  /\ TargetedFirstVias[9] = RebuildAll /\ TargetedFirstVias[10] = RebuildAll
  /\ TargetedFirstVias[11] = "" /\ TargetedFirstVias[12] = ""
  /\ TargetedFirstVias[13] = Targeted /\ TargetedFirstVias[14] = Targeted
  /\ TargetedFirstVias[15] = Targeted /\ TargetedFirstVias[16] = Targeted
  /\ TargetedFirstVias[17] = Targeted /\ TargetedFirstVias[18] = RebuildAll
  /\ TargetedFirstVias[19] = RebuildAll /\ TargetedFirstVias[20] = RebuildAll
  /\ TargetedFirstVias[21] = RebuildAll /\ TargetedFirstVias[22] = RebuildAll
  /\ TargetedFirstVias[23] = RebuildAll /\ TargetedFirstVias[24] = Targeted
  /\ TargetedFirstVias[25] = RebuildAll
BY DEF TargetedFirstVerbs, TargetedFirstVias

LEMMA RebuildFirstIs ==
  /\ RebuildFirstVerbs[1] = "load" /\ RebuildFirstVerbs[2] = "mkdir trial"
  /\ RebuildFirstVerbs[3] = "set vector" /\ RebuildFirstVerbs[4] = "set cache"
  /\ RebuildFirstVerbs[5] = "set backups" /\ RebuildFirstVerbs[6] = "set model"
  /\ RebuildFirstVerbs[7] = "set vector" /\ RebuildFirstVerbs[8] = "set cache"
  /\ RebuildFirstVerbs[9] = "set backups" /\ RebuildFirstVerbs[10] = "set model"
  /\ RebuildFirstVerbs[11] = "delete source" /\ RebuildFirstVerbs[12] = "read retained"
  /\ RebuildFirstVerbs[13] = "drop collection" /\ RebuildFirstVerbs[14] = "fill collection"
  /\ RebuildFirstVerbs[15] = "refill cache" /\ RebuildFirstVerbs[16] = "restage backups"
  /\ RebuildFirstVerbs[17] = "refit" /\ RebuildFirstVerbs[18] = "audit"
  /\ RebuildFirstVerbs[19] = "delete point" /\ RebuildFirstVerbs[20] = "delete entry"
  /\ RebuildFirstVerbs[21] = "unlink key" /\ RebuildFirstVerbs[22] = "subtract"
  /\ RebuildFirstVerbs[23] = "audit" /\ RebuildFirstVerbs[24] = "clear"
  /\ RebuildFirstVerbs[25] = "clear"
  /\ RebuildFirstVias[1] = "" /\ RebuildFirstVias[2] = ""
  /\ RebuildFirstVias[3] = Targeted /\ RebuildFirstVias[4] = Targeted
  /\ RebuildFirstVias[5] = Targeted /\ RebuildFirstVias[6] = Targeted
  /\ RebuildFirstVias[7] = RebuildAll /\ RebuildFirstVias[8] = RebuildAll
  /\ RebuildFirstVias[9] = RebuildAll /\ RebuildFirstVias[10] = RebuildAll
  /\ RebuildFirstVias[11] = "" /\ RebuildFirstVias[12] = ""
  /\ RebuildFirstVias[13] = RebuildAll /\ RebuildFirstVias[14] = RebuildAll
  /\ RebuildFirstVias[15] = RebuildAll /\ RebuildFirstVias[16] = RebuildAll
  /\ RebuildFirstVias[17] = RebuildAll /\ RebuildFirstVias[18] = RebuildAll
  /\ RebuildFirstVias[19] = Targeted /\ RebuildFirstVias[20] = Targeted
  /\ RebuildFirstVias[21] = Targeted /\ RebuildFirstVias[22] = Targeted
  /\ RebuildFirstVias[23] = Targeted /\ RebuildFirstVias[24] = Targeted
  /\ RebuildFirstVias[25] = RebuildAll
BY DEF RebuildFirstVerbs, RebuildFirstVias

\* The first m operations of a table.
Lists(q, m, table) ==
  /\ q \in Seq(Operations) /\ Len(q) = m
  /\ \A i \in 1..m : q[i] = table[i]

LEMMA JoinLists ==
  ASSUME NEW p, NEW m \in Nat, NEW table, Lists(p, m, table),
         NEW q \in Seq(Operations), \A i \in 1..Len(q) : q[i] = table[m + i]
  PROVE  Lists(p \o q, m + Len(q), table)
<1>1. p \in Seq(Operations) /\ Len(p) = m /\ \A i \in 1..m : p[i] = table[i]
  BY DEF Lists
<1>. DEFINE r == p \o q
<1>2. /\ r \in Seq(Operations) /\ Len(q) \in Nat /\ Len(r) = m + Len(q)
      /\ \A i \in 1..Len(r) : \/ i \in 1..m /\ r[i] = p[i]
                              \/ i - m \in 1..Len(q) /\ r[i] = q[i - m]
  BY <1>1, JoinSteps
<1>. HIDE DEF r
<1>3. ASSUME NEW i \in 1..Len(r) PROVE r[i] = table[i]
  <2>1. CASE i \in 1..m /\ r[i] = p[i]
    BY <1>1, <2>1
  <2>2. CASE i - m \in 1..Len(q) /\ r[i] = q[i - m]
    <3>1. q[i - m] = table[m + (i - m)] /\ m + (i - m) = i
      BY <2>2
    <3>. QED  BY <2>2, <3>1
  <2>. QED  BY <1>2, <2>1, <2>2
<1>4. Lists(r, m + Len(q), table)
  BY <1>2, <1>3 DEF Lists
<1>. QED  BY <1>4 DEF r

\* A block of steps that a table holds from place m on.
LEMMA JoinBlock1 ==
  ASSUME NEW p, NEW m \in Nat, NEW table, Lists(p, m, table), NEW seed \in Nat, NEW via \in Vias,
         NEW a \in StudyVerbs,
         table[m + 1] = [do |-> a, seed |-> seed, via |-> via]
  PROVE  Lists(p \o Steps(<<a>>, seed, via), m + 1, table)
<1>. DEFINE verbs == <<a>>
<1>1. verbs \in Seq(StudyVerbs) /\ Len(verbs) = 1
  OBVIOUS
<1>2. verbs[1] = a
  OBVIOUS
<1>. HIDE DEF verbs
<1>3. \A i \in 1..1 : i = 1
  OBVIOUS
<1>4. \A i \in 1..1 : table[m + i] = [do |-> verbs[i], seed |-> seed, via |-> via]
  BY <1>2, <1>3
<1>5. Lists(p \o Steps(verbs, seed, via), m + Len(verbs), table)
  <2>1. /\ Steps(verbs, seed, via) \in Seq(Operations) /\ Len(Steps(verbs, seed, via)) = Len(verbs)
        /\ \A i \in 1..Len(verbs) : Steps(verbs, seed, via)[i] = [do |-> verbs[i], seed |-> seed, via |-> via]
    BY <1>1, BlockFacts
  <2>. DEFINE q == Steps(verbs, seed, via)
  <2>. HIDE DEF q
  <2>2. q \in Seq(Operations) /\ Len(q) = Len(verbs) /\ \A i \in 1..Len(q) : q[i] = table[m + i]
    BY <1>1, <1>4, <2>1 DEF q
  <2>3. Lists(p \o q, m + Len(q), table)
    BY <2>2, JoinLists
  <2>. QED  BY <2>2, <2>3 DEF q
<1>. QED  BY <1>1, <1>5 DEF verbs

LEMMA JoinBlock2 ==
  ASSUME NEW p, NEW m \in Nat, NEW table, Lists(p, m, table), NEW seed \in Nat, NEW via \in Vias,
         NEW a \in StudyVerbs, NEW b \in StudyVerbs,
         table[m + 1] = [do |-> a, seed |-> seed, via |-> via],
         table[m + 2] = [do |-> b, seed |-> seed, via |-> via]
  PROVE  Lists(p \o Steps(<<a, b>>, seed, via), m + 2, table)
<1>. DEFINE verbs == <<a, b>>
<1>1. verbs \in Seq(StudyVerbs) /\ Len(verbs) = 2
  OBVIOUS
<1>2. verbs[1] = a /\ verbs[2] = b
  OBVIOUS
<1>. HIDE DEF verbs
<1>3. \A i \in 1..2 : i = 1 \/ i = 2
  OBVIOUS
<1>4. \A i \in 1..2 : table[m + i] = [do |-> verbs[i], seed |-> seed, via |-> via]
  BY <1>2, <1>3
<1>5. Lists(p \o Steps(verbs, seed, via), m + Len(verbs), table)
  <2>1. /\ Steps(verbs, seed, via) \in Seq(Operations) /\ Len(Steps(verbs, seed, via)) = Len(verbs)
        /\ \A i \in 1..Len(verbs) : Steps(verbs, seed, via)[i] = [do |-> verbs[i], seed |-> seed, via |-> via]
    BY <1>1, BlockFacts
  <2>. DEFINE q == Steps(verbs, seed, via)
  <2>. HIDE DEF q
  <2>2. q \in Seq(Operations) /\ Len(q) = Len(verbs) /\ \A i \in 1..Len(q) : q[i] = table[m + i]
    BY <1>1, <1>4, <2>1 DEF q
  <2>3. Lists(p \o q, m + Len(q), table)
    BY <2>2, JoinLists
  <2>. QED  BY <2>2, <2>3 DEF q
<1>. QED  BY <1>1, <1>5 DEF verbs

LEMMA JoinBlock4 ==
  ASSUME NEW p, NEW m \in Nat, NEW table, Lists(p, m, table), NEW seed \in Nat, NEW via \in Vias,
         NEW a \in StudyVerbs, NEW b \in StudyVerbs, NEW c \in StudyVerbs, NEW d \in StudyVerbs,
         table[m + 1] = [do |-> a, seed |-> seed, via |-> via],
         table[m + 2] = [do |-> b, seed |-> seed, via |-> via],
         table[m + 3] = [do |-> c, seed |-> seed, via |-> via],
         table[m + 4] = [do |-> d, seed |-> seed, via |-> via]
  PROVE  Lists(p \o Steps(<<a, b, c, d>>, seed, via), m + 4, table)
<1>. DEFINE verbs == <<a, b, c, d>>
<1>1. verbs \in Seq(StudyVerbs) /\ Len(verbs) = 4
  OBVIOUS
<1>2. verbs[1] = a /\ verbs[2] = b /\ verbs[3] = c /\ verbs[4] = d
  OBVIOUS
<1>. HIDE DEF verbs
<1>3. \A i \in 1..4 : i = 1 \/ i = 2 \/ i = 3 \/ i = 4
  OBVIOUS
<1>4. \A i \in 1..4 : table[m + i] = [do |-> verbs[i], seed |-> seed, via |-> via]
  BY <1>2, <1>3
<1>5. Lists(p \o Steps(verbs, seed, via), m + Len(verbs), table)
  <2>1. /\ Steps(verbs, seed, via) \in Seq(Operations) /\ Len(Steps(verbs, seed, via)) = Len(verbs)
        /\ \A i \in 1..Len(verbs) : Steps(verbs, seed, via)[i] = [do |-> verbs[i], seed |-> seed, via |-> via]
    BY <1>1, BlockFacts
  <2>. DEFINE q == Steps(verbs, seed, via)
  <2>. HIDE DEF q
  <2>2. q \in Seq(Operations) /\ Len(q) = Len(verbs) /\ \A i \in 1..Len(q) : q[i] = table[m + i]
    BY <1>1, <1>4, <2>1 DEF q
  <2>3. Lists(p \o q, m + Len(q), table)
    BY <2>2, JoinLists
  <2>. QED  BY <2>2, <2>3 DEF q
<1>. QED  BY <1>1, <1>5 DEF verbs

LEMMA JoinBlock5 ==
  ASSUME NEW p, NEW m \in Nat, NEW table, Lists(p, m, table), NEW seed \in Nat, NEW via \in Vias,
         NEW a \in StudyVerbs, NEW b \in StudyVerbs, NEW c \in StudyVerbs, NEW d \in StudyVerbs, NEW e \in StudyVerbs,
         table[m + 1] = [do |-> a, seed |-> seed, via |-> via],
         table[m + 2] = [do |-> b, seed |-> seed, via |-> via],
         table[m + 3] = [do |-> c, seed |-> seed, via |-> via],
         table[m + 4] = [do |-> d, seed |-> seed, via |-> via],
         table[m + 5] = [do |-> e, seed |-> seed, via |-> via]
  PROVE  Lists(p \o Steps(<<a, b, c, d, e>>, seed, via), m + 5, table)
<1>. DEFINE verbs == <<a, b, c, d, e>>
<1>1. verbs \in Seq(StudyVerbs) /\ Len(verbs) = 5
  OBVIOUS
<1>2. verbs[1] = a /\ verbs[2] = b /\ verbs[3] = c /\ verbs[4] = d /\ verbs[5] = e
  OBVIOUS
<1>. HIDE DEF verbs
<1>3. \A i \in 1..5 : i = 1 \/ i = 2 \/ i = 3 \/ i = 4 \/ i = 5
  OBVIOUS
<1>4. \A i \in 1..5 : table[m + i] = [do |-> verbs[i], seed |-> seed, via |-> via]
  BY <1>2, <1>3
<1>5. Lists(p \o Steps(verbs, seed, via), m + Len(verbs), table)
  <2>1. /\ Steps(verbs, seed, via) \in Seq(Operations) /\ Len(Steps(verbs, seed, via)) = Len(verbs)
        /\ \A i \in 1..Len(verbs) : Steps(verbs, seed, via)[i] = [do |-> verbs[i], seed |-> seed, via |-> via]
    BY <1>1, BlockFacts
  <2>. DEFINE q == Steps(verbs, seed, via)
  <2>. HIDE DEF q
  <2>2. q \in Seq(Operations) /\ Len(q) = Len(verbs) /\ \A i \in 1..Len(q) : q[i] = table[m + i]
    BY <1>1, <1>4, <2>1 DEF q
  <2>3. Lists(p \o q, m + Len(q), table)
    BY <2>2, JoinLists
  <2>. QED  BY <2>2, <2>3 DEF q
<1>. QED  BY <1>1, <1>5 DEF verbs

LEMMA TargetedFirstLayout ==
  ASSUME NEW seed \in Nat, seed % 2 = 1
  PROVE  Lists(RunTrial(seed), 25, TrialTable(seed))
<1>. DEFINE table == TrialTable(seed)
<1>1. \A i \in 1..25 : table[i] = [do |-> TargetedFirstVerbs[i], seed |-> seed, via |-> TargetedFirstVias[i]]
  BY DEF TrialTable, Table
<1>. HIDE DEF table
<1>. DEFINE q1 == Steps(<<"load", "mkdir trial">>, seed, "")
<1>2. Lists(q1, 2, table)
  <2>0. /\ 0 + 1 = 1 /\ 1 \in 1..25
        /\ 0 + 2 = 2 /\ 2 \in 1..25
    OBVIOUS
  <2>10. /\ table[0 + 1] = [do |-> "load", seed |-> seed, via |-> ""]
         /\ table[0 + 2] = [do |-> "mkdir trial", seed |-> seed, via |-> ""]
    BY <1>1, <2>0, TargetedFirstIs, ZenonT(60)
  <2>2. /\ "load" \in StudyVerbs
        /\ "mkdir trial" \in StudyVerbs
        /\ "" \in Vias
    BY VerbLists DEF StudyVerbs, TrialVerbs
  <2>3. Lists(<<>>, 0, table)
    BY DEF Lists
  <2>4. Lists(<<>> \o Steps(<<"load", "mkdir trial">>, seed, ""), 0 + 2, table)
    BY <2>10, <2>2, <2>3, JoinBlock2
  <2>5. <<"load", "mkdir trial">> \in Seq(StudyVerbs)
    BY DEF StudyVerbs, TrialVerbs
  <2>6. Steps(<<"load", "mkdir trial">>, seed, "") \in Seq(Operations)
    BY <2>2, <2>5, BlockFacts
  <2>7. \A q \in Seq(Operations) : <<>> \o q = q
    BY ConcatEmptySeq
  <2>8. 0 + 2 = 2
    OBVIOUS
  <2>. QED  BY <2>4, <2>6, <2>7, <2>8
<1>. DEFINE q2 == q1 \o Steps(SetVerbs, seed, Targeted)
<1>3. Lists(q2, 6, table)
  <2>0. /\ 2 + 1 = 3 /\ 3 \in 1..25
        /\ 2 + 2 = 4 /\ 4 \in 1..25
        /\ 2 + 3 = 5 /\ 5 \in 1..25
        /\ 2 + 4 = 6 /\ 6 \in 1..25
    OBVIOUS
  <2>10. /\ table[2 + 1] = [do |-> "set vector", seed |-> seed, via |-> Targeted]
         /\ table[2 + 2] = [do |-> "set cache", seed |-> seed, via |-> Targeted]
    BY <1>1, <2>0, TargetedFirstIs, ZenonT(60)
  <2>11. /\ table[2 + 3] = [do |-> "set backups", seed |-> seed, via |-> Targeted]
         /\ table[2 + 4] = [do |-> "set model", seed |-> seed, via |-> Targeted]
    BY <1>1, <2>0, TargetedFirstIs, ZenonT(60)
  <2>2. /\ "set vector" \in StudyVerbs
        /\ "set cache" \in StudyVerbs
        /\ "set backups" \in StudyVerbs
        /\ "set model" \in StudyVerbs
        /\ Targeted \in Vias
    BY VerbLists DEF StudyVerbs, TrialVerbs
  <2>. HIDE DEF q1
  <2>3. Lists(q1 \o Steps(SetVerbs, seed, Targeted), 2 + 4, table)
    BY <1>2, <2>10, <2>11, <2>2, JoinBlock4 DEF SetVerbs
  <2>4. 2 + 4 = 6
    OBVIOUS
  <2>. HIDE DEF q2
  <2>. QED  BY <2>3, <2>4 DEF q2
<1>. DEFINE q3 == q2 \o Steps(SetVerbs, seed, RebuildAll)
<1>4. Lists(q3, 10, table)
  <2>0. /\ 6 + 1 = 7 /\ 7 \in 1..25
        /\ 6 + 2 = 8 /\ 8 \in 1..25
        /\ 6 + 3 = 9 /\ 9 \in 1..25
        /\ 6 + 4 = 10 /\ 10 \in 1..25
    OBVIOUS
  <2>10. /\ table[6 + 1] = [do |-> "set vector", seed |-> seed, via |-> RebuildAll]
         /\ table[6 + 2] = [do |-> "set cache", seed |-> seed, via |-> RebuildAll]
    BY <1>1, <2>0, TargetedFirstIs, ZenonT(60)
  <2>11. /\ table[6 + 3] = [do |-> "set backups", seed |-> seed, via |-> RebuildAll]
         /\ table[6 + 4] = [do |-> "set model", seed |-> seed, via |-> RebuildAll]
    BY <1>1, <2>0, TargetedFirstIs, ZenonT(60)
  <2>2. /\ "set vector" \in StudyVerbs
        /\ "set cache" \in StudyVerbs
        /\ "set backups" \in StudyVerbs
        /\ "set model" \in StudyVerbs
        /\ RebuildAll \in Vias
    BY VerbLists DEF StudyVerbs, TrialVerbs
  <2>. HIDE DEF q2
  <2>3. Lists(q2 \o Steps(SetVerbs, seed, RebuildAll), 6 + 4, table)
    BY <1>3, <2>10, <2>11, <2>2, JoinBlock4 DEF SetVerbs
  <2>4. 6 + 4 = 10
    OBVIOUS
  <2>. HIDE DEF q3
  <2>. QED  BY <2>3, <2>4 DEF q3
<1>. DEFINE q4 == q3 \o Steps(<<"delete source", "read retained">>, seed, "")
<1>5. Lists(q4, 12, table)
  <2>0. /\ 10 + 1 = 11 /\ 11 \in 1..25
        /\ 10 + 2 = 12 /\ 12 \in 1..25
    OBVIOUS
  <2>10. /\ table[10 + 1] = [do |-> "delete source", seed |-> seed, via |-> ""]
         /\ table[10 + 2] = [do |-> "read retained", seed |-> seed, via |-> ""]
    BY <1>1, <2>0, TargetedFirstIs, ZenonT(60)
  <2>2. /\ "delete source" \in StudyVerbs
        /\ "read retained" \in StudyVerbs
        /\ "" \in Vias
    BY VerbLists DEF StudyVerbs, TrialVerbs
  <2>. HIDE DEF q3
  <2>3. Lists(q3 \o Steps(<<"delete source", "read retained">>, seed, ""), 10 + 2, table)
    BY <1>4, <2>10, <2>2, JoinBlock2
  <2>4. 10 + 2 = 12
    OBVIOUS
  <2>. HIDE DEF q4
  <2>. QED  BY <2>3, <2>4 DEF q4
<1>. DEFINE q5 == q4 \o Steps(TargetedVerbs, seed, Targeted)
<1>6. Lists(q5, 16, table)
  <2>0. /\ 12 + 1 = 13 /\ 13 \in 1..25
        /\ 12 + 2 = 14 /\ 14 \in 1..25
        /\ 12 + 3 = 15 /\ 15 \in 1..25
        /\ 12 + 4 = 16 /\ 16 \in 1..25
    OBVIOUS
  <2>10. /\ table[12 + 1] = [do |-> "delete point", seed |-> seed, via |-> Targeted]
         /\ table[12 + 2] = [do |-> "delete entry", seed |-> seed, via |-> Targeted]
    BY <1>1, <2>0, TargetedFirstIs, ZenonT(60)
  <2>11. /\ table[12 + 3] = [do |-> "unlink key", seed |-> seed, via |-> Targeted]
         /\ table[12 + 4] = [do |-> "subtract", seed |-> seed, via |-> Targeted]
    BY <1>1, <2>0, TargetedFirstIs, ZenonT(60)
  <2>2. /\ "delete point" \in StudyVerbs
        /\ "delete entry" \in StudyVerbs
        /\ "unlink key" \in StudyVerbs
        /\ "subtract" \in StudyVerbs
        /\ Targeted \in Vias
    BY VerbLists DEF StudyVerbs, TrialVerbs
  <2>. HIDE DEF q4
  <2>3. Lists(q4 \o Steps(TargetedVerbs, seed, Targeted), 12 + 4, table)
    BY <1>5, <2>10, <2>11, <2>2, JoinBlock4 DEF TargetedVerbs
  <2>4. 12 + 4 = 16
    OBVIOUS
  <2>. HIDE DEF q5
  <2>. QED  BY <2>3, <2>4 DEF q5
<1>. DEFINE q6 == q5 \o Steps(<<"audit">>, seed, Targeted)
<1>7. Lists(q6, 17, table)
  <2>0. /\ 16 + 1 = 17 /\ 17 \in 1..25
    OBVIOUS
  <2>10. /\ table[16 + 1] = [do |-> "audit", seed |-> seed, via |-> Targeted]
    BY <1>1, <2>0, TargetedFirstIs, ZenonT(60)
  <2>2. /\ "audit" \in StudyVerbs
        /\ Targeted \in Vias
    BY VerbLists DEF StudyVerbs, TrialVerbs
  <2>. HIDE DEF q5
  <2>3. Lists(q5 \o Steps(<<"audit">>, seed, Targeted), 16 + 1, table)
    BY <1>6, <2>10, <2>2, JoinBlock1
  <2>4. 16 + 1 = 17
    OBVIOUS
  <2>. HIDE DEF q6
  <2>. QED  BY <2>3, <2>4 DEF q6
<1>. DEFINE q7 == q6 \o Steps(RebuildVerbs, seed, RebuildAll)
<1>8. Lists(q7, 22, table)
  <2>0. /\ 17 + 1 = 18 /\ 18 \in 1..25
        /\ 17 + 2 = 19 /\ 19 \in 1..25
        /\ 17 + 3 = 20 /\ 20 \in 1..25
        /\ 17 + 4 = 21 /\ 21 \in 1..25
        /\ 17 + 5 = 22 /\ 22 \in 1..25
    OBVIOUS
  <2>10. /\ table[17 + 1] = [do |-> "drop collection", seed |-> seed, via |-> RebuildAll]
         /\ table[17 + 2] = [do |-> "fill collection", seed |-> seed, via |-> RebuildAll]
    BY <1>1, <2>0, TargetedFirstIs, ZenonT(60)
  <2>11. /\ table[17 + 3] = [do |-> "refill cache", seed |-> seed, via |-> RebuildAll]
         /\ table[17 + 4] = [do |-> "restage backups", seed |-> seed, via |-> RebuildAll]
    BY <1>1, <2>0, TargetedFirstIs, ZenonT(60)
  <2>12. /\ table[17 + 5] = [do |-> "refit", seed |-> seed, via |-> RebuildAll]
    BY <1>1, <2>0, TargetedFirstIs, ZenonT(60)
  <2>2. /\ "drop collection" \in StudyVerbs
        /\ "fill collection" \in StudyVerbs
        /\ "refill cache" \in StudyVerbs
        /\ "restage backups" \in StudyVerbs
        /\ "refit" \in StudyVerbs
        /\ RebuildAll \in Vias
    BY VerbLists DEF StudyVerbs, TrialVerbs
  <2>. HIDE DEF q6
  <2>3. Lists(q6 \o Steps(RebuildVerbs, seed, RebuildAll), 17 + 5, table)
    BY <1>7, <2>10, <2>11, <2>12, <2>2, JoinBlock5 DEF RebuildVerbs
  <2>4. 17 + 5 = 22
    OBVIOUS
  <2>. HIDE DEF q7
  <2>. QED  BY <2>3, <2>4 DEF q7
<1>. DEFINE q8 == q7 \o Steps(<<"audit">>, seed, RebuildAll)
<1>9. Lists(q8, 23, table)
  <2>0. /\ 22 + 1 = 23 /\ 23 \in 1..25
    OBVIOUS
  <2>10. /\ table[22 + 1] = [do |-> "audit", seed |-> seed, via |-> RebuildAll]
    BY <1>1, <2>0, TargetedFirstIs, ZenonT(60)
  <2>2. /\ "audit" \in StudyVerbs
        /\ RebuildAll \in Vias
    BY VerbLists DEF StudyVerbs, TrialVerbs
  <2>. HIDE DEF q7
  <2>3. Lists(q7 \o Steps(<<"audit">>, seed, RebuildAll), 22 + 1, table)
    BY <1>8, <2>10, <2>2, JoinBlock1
  <2>4. 22 + 1 = 23
    OBVIOUS
  <2>. HIDE DEF q8
  <2>. QED  BY <2>3, <2>4 DEF q8
<1>. DEFINE q9 == q8 \o Steps(<<"clear">>, seed, Targeted)
<1>10. Lists(q9, 24, table)
  <2>0. /\ 23 + 1 = 24 /\ 24 \in 1..25
    OBVIOUS
  <2>10. /\ table[23 + 1] = [do |-> "clear", seed |-> seed, via |-> Targeted]
    BY <1>1, <2>0, TargetedFirstIs, ZenonT(60)
  <2>2. /\ "clear" \in StudyVerbs
        /\ Targeted \in Vias
    BY VerbLists DEF StudyVerbs, TrialVerbs
  <2>. HIDE DEF q8
  <2>3. Lists(q8 \o Steps(<<"clear">>, seed, Targeted), 23 + 1, table)
    BY <1>9, <2>10, <2>2, JoinBlock1
  <2>4. 23 + 1 = 24
    OBVIOUS
  <2>. HIDE DEF q9
  <2>. QED  BY <2>3, <2>4 DEF q9
<1>. DEFINE q10 == q9 \o Steps(<<"clear">>, seed, RebuildAll)
<1>11. Lists(q10, 25, table)
  <2>0. /\ 24 + 1 = 25 /\ 25 \in 1..25
    OBVIOUS
  <2>10. /\ table[24 + 1] = [do |-> "clear", seed |-> seed, via |-> RebuildAll]
    BY <1>1, <2>0, TargetedFirstIs, ZenonT(60)
  <2>2. /\ "clear" \in StudyVerbs
        /\ RebuildAll \in Vias
    BY VerbLists DEF StudyVerbs, TrialVerbs
  <2>. HIDE DEF q9
  <2>3. Lists(q9 \o Steps(<<"clear">>, seed, RebuildAll), 24 + 1, table)
    BY <1>10, <2>10, <2>2, JoinBlock1
  <2>4. 24 + 1 = 25
    OBVIOUS
  <2>. HIDE DEF q10
  <2>. QED  BY <2>3, <2>4 DEF q10
<1>12. RunTrial(seed) = q10
  BY VerbLists DEF RunTrial, SetupSteps, RemediationSteps, SetVerbs, TargetedVerbs, RebuildVerbs
<1>. QED  BY <1>11, <1>12 DEF table

LEMMA RebuildFirstLayout ==
  ASSUME NEW seed \in Nat, seed % 2 # 1
  PROVE  Lists(RunTrial(seed), 25, TrialTable(seed))
<1>. DEFINE table == TrialTable(seed)
<1>1. \A i \in 1..25 : table[i] = [do |-> RebuildFirstVerbs[i], seed |-> seed, via |-> RebuildFirstVias[i]]
  BY DEF TrialTable, Table
<1>. HIDE DEF table
<1>. DEFINE q1 == Steps(<<"load", "mkdir trial">>, seed, "")
<1>2. Lists(q1, 2, table)
  <2>0. /\ 0 + 1 = 1 /\ 1 \in 1..25
        /\ 0 + 2 = 2 /\ 2 \in 1..25
    OBVIOUS
  <2>10. /\ table[0 + 1] = [do |-> "load", seed |-> seed, via |-> ""]
         /\ table[0 + 2] = [do |-> "mkdir trial", seed |-> seed, via |-> ""]
    BY <1>1, <2>0, RebuildFirstIs, ZenonT(60)
  <2>2. /\ "load" \in StudyVerbs
        /\ "mkdir trial" \in StudyVerbs
        /\ "" \in Vias
    BY VerbLists DEF StudyVerbs, TrialVerbs
  <2>3. Lists(<<>>, 0, table)
    BY DEF Lists
  <2>4. Lists(<<>> \o Steps(<<"load", "mkdir trial">>, seed, ""), 0 + 2, table)
    BY <2>10, <2>2, <2>3, JoinBlock2
  <2>5. <<"load", "mkdir trial">> \in Seq(StudyVerbs)
    BY DEF StudyVerbs, TrialVerbs
  <2>6. Steps(<<"load", "mkdir trial">>, seed, "") \in Seq(Operations)
    BY <2>2, <2>5, BlockFacts
  <2>7. \A q \in Seq(Operations) : <<>> \o q = q
    BY ConcatEmptySeq
  <2>8. 0 + 2 = 2
    OBVIOUS
  <2>. QED  BY <2>4, <2>6, <2>7, <2>8
<1>. DEFINE q2 == q1 \o Steps(SetVerbs, seed, Targeted)
<1>3. Lists(q2, 6, table)
  <2>0. /\ 2 + 1 = 3 /\ 3 \in 1..25
        /\ 2 + 2 = 4 /\ 4 \in 1..25
        /\ 2 + 3 = 5 /\ 5 \in 1..25
        /\ 2 + 4 = 6 /\ 6 \in 1..25
    OBVIOUS
  <2>10. /\ table[2 + 1] = [do |-> "set vector", seed |-> seed, via |-> Targeted]
         /\ table[2 + 2] = [do |-> "set cache", seed |-> seed, via |-> Targeted]
    BY <1>1, <2>0, RebuildFirstIs, ZenonT(60)
  <2>11. /\ table[2 + 3] = [do |-> "set backups", seed |-> seed, via |-> Targeted]
         /\ table[2 + 4] = [do |-> "set model", seed |-> seed, via |-> Targeted]
    BY <1>1, <2>0, RebuildFirstIs, ZenonT(60)
  <2>2. /\ "set vector" \in StudyVerbs
        /\ "set cache" \in StudyVerbs
        /\ "set backups" \in StudyVerbs
        /\ "set model" \in StudyVerbs
        /\ Targeted \in Vias
    BY VerbLists DEF StudyVerbs, TrialVerbs
  <2>. HIDE DEF q1
  <2>3. Lists(q1 \o Steps(SetVerbs, seed, Targeted), 2 + 4, table)
    BY <1>2, <2>10, <2>11, <2>2, JoinBlock4 DEF SetVerbs
  <2>4. 2 + 4 = 6
    OBVIOUS
  <2>. HIDE DEF q2
  <2>. QED  BY <2>3, <2>4 DEF q2
<1>. DEFINE q3 == q2 \o Steps(SetVerbs, seed, RebuildAll)
<1>4. Lists(q3, 10, table)
  <2>0. /\ 6 + 1 = 7 /\ 7 \in 1..25
        /\ 6 + 2 = 8 /\ 8 \in 1..25
        /\ 6 + 3 = 9 /\ 9 \in 1..25
        /\ 6 + 4 = 10 /\ 10 \in 1..25
    OBVIOUS
  <2>10. /\ table[6 + 1] = [do |-> "set vector", seed |-> seed, via |-> RebuildAll]
         /\ table[6 + 2] = [do |-> "set cache", seed |-> seed, via |-> RebuildAll]
    BY <1>1, <2>0, RebuildFirstIs, ZenonT(60)
  <2>11. /\ table[6 + 3] = [do |-> "set backups", seed |-> seed, via |-> RebuildAll]
         /\ table[6 + 4] = [do |-> "set model", seed |-> seed, via |-> RebuildAll]
    BY <1>1, <2>0, RebuildFirstIs, ZenonT(60)
  <2>2. /\ "set vector" \in StudyVerbs
        /\ "set cache" \in StudyVerbs
        /\ "set backups" \in StudyVerbs
        /\ "set model" \in StudyVerbs
        /\ RebuildAll \in Vias
    BY VerbLists DEF StudyVerbs, TrialVerbs
  <2>. HIDE DEF q2
  <2>3. Lists(q2 \o Steps(SetVerbs, seed, RebuildAll), 6 + 4, table)
    BY <1>3, <2>10, <2>11, <2>2, JoinBlock4 DEF SetVerbs
  <2>4. 6 + 4 = 10
    OBVIOUS
  <2>. HIDE DEF q3
  <2>. QED  BY <2>3, <2>4 DEF q3
<1>. DEFINE q4 == q3 \o Steps(<<"delete source", "read retained">>, seed, "")
<1>5. Lists(q4, 12, table)
  <2>0. /\ 10 + 1 = 11 /\ 11 \in 1..25
        /\ 10 + 2 = 12 /\ 12 \in 1..25
    OBVIOUS
  <2>10. /\ table[10 + 1] = [do |-> "delete source", seed |-> seed, via |-> ""]
         /\ table[10 + 2] = [do |-> "read retained", seed |-> seed, via |-> ""]
    BY <1>1, <2>0, RebuildFirstIs, ZenonT(60)
  <2>2. /\ "delete source" \in StudyVerbs
        /\ "read retained" \in StudyVerbs
        /\ "" \in Vias
    BY VerbLists DEF StudyVerbs, TrialVerbs
  <2>. HIDE DEF q3
  <2>3. Lists(q3 \o Steps(<<"delete source", "read retained">>, seed, ""), 10 + 2, table)
    BY <1>4, <2>10, <2>2, JoinBlock2
  <2>4. 10 + 2 = 12
    OBVIOUS
  <2>. HIDE DEF q4
  <2>. QED  BY <2>3, <2>4 DEF q4
<1>. DEFINE q5 == q4 \o Steps(RebuildVerbs, seed, RebuildAll)
<1>6. Lists(q5, 17, table)
  <2>0. /\ 12 + 1 = 13 /\ 13 \in 1..25
        /\ 12 + 2 = 14 /\ 14 \in 1..25
        /\ 12 + 3 = 15 /\ 15 \in 1..25
        /\ 12 + 4 = 16 /\ 16 \in 1..25
        /\ 12 + 5 = 17 /\ 17 \in 1..25
    OBVIOUS
  <2>10. /\ table[12 + 1] = [do |-> "drop collection", seed |-> seed, via |-> RebuildAll]
         /\ table[12 + 2] = [do |-> "fill collection", seed |-> seed, via |-> RebuildAll]
    BY <1>1, <2>0, RebuildFirstIs, ZenonT(60)
  <2>11. /\ table[12 + 3] = [do |-> "refill cache", seed |-> seed, via |-> RebuildAll]
         /\ table[12 + 4] = [do |-> "restage backups", seed |-> seed, via |-> RebuildAll]
    BY <1>1, <2>0, RebuildFirstIs, ZenonT(60)
  <2>12. /\ table[12 + 5] = [do |-> "refit", seed |-> seed, via |-> RebuildAll]
    BY <1>1, <2>0, RebuildFirstIs, ZenonT(60)
  <2>2. /\ "drop collection" \in StudyVerbs
        /\ "fill collection" \in StudyVerbs
        /\ "refill cache" \in StudyVerbs
        /\ "restage backups" \in StudyVerbs
        /\ "refit" \in StudyVerbs
        /\ RebuildAll \in Vias
    BY VerbLists DEF StudyVerbs, TrialVerbs
  <2>. HIDE DEF q4
  <2>3. Lists(q4 \o Steps(RebuildVerbs, seed, RebuildAll), 12 + 5, table)
    BY <1>5, <2>10, <2>11, <2>12, <2>2, JoinBlock5 DEF RebuildVerbs
  <2>4. 12 + 5 = 17
    OBVIOUS
  <2>. HIDE DEF q5
  <2>. QED  BY <2>3, <2>4 DEF q5
<1>. DEFINE q6 == q5 \o Steps(<<"audit">>, seed, RebuildAll)
<1>7. Lists(q6, 18, table)
  <2>0. /\ 17 + 1 = 18 /\ 18 \in 1..25
    OBVIOUS
  <2>10. /\ table[17 + 1] = [do |-> "audit", seed |-> seed, via |-> RebuildAll]
    BY <1>1, <2>0, RebuildFirstIs, ZenonT(60)
  <2>2. /\ "audit" \in StudyVerbs
        /\ RebuildAll \in Vias
    BY VerbLists DEF StudyVerbs, TrialVerbs
  <2>. HIDE DEF q5
  <2>3. Lists(q5 \o Steps(<<"audit">>, seed, RebuildAll), 17 + 1, table)
    BY <1>6, <2>10, <2>2, JoinBlock1
  <2>4. 17 + 1 = 18
    OBVIOUS
  <2>. HIDE DEF q6
  <2>. QED  BY <2>3, <2>4 DEF q6
<1>. DEFINE q7 == q6 \o Steps(TargetedVerbs, seed, Targeted)
<1>8. Lists(q7, 22, table)
  <2>0. /\ 18 + 1 = 19 /\ 19 \in 1..25
        /\ 18 + 2 = 20 /\ 20 \in 1..25
        /\ 18 + 3 = 21 /\ 21 \in 1..25
        /\ 18 + 4 = 22 /\ 22 \in 1..25
    OBVIOUS
  <2>10. /\ table[18 + 1] = [do |-> "delete point", seed |-> seed, via |-> Targeted]
         /\ table[18 + 2] = [do |-> "delete entry", seed |-> seed, via |-> Targeted]
    BY <1>1, <2>0, RebuildFirstIs, ZenonT(60)
  <2>11. /\ table[18 + 3] = [do |-> "unlink key", seed |-> seed, via |-> Targeted]
         /\ table[18 + 4] = [do |-> "subtract", seed |-> seed, via |-> Targeted]
    BY <1>1, <2>0, RebuildFirstIs, ZenonT(60)
  <2>2. /\ "delete point" \in StudyVerbs
        /\ "delete entry" \in StudyVerbs
        /\ "unlink key" \in StudyVerbs
        /\ "subtract" \in StudyVerbs
        /\ Targeted \in Vias
    BY VerbLists DEF StudyVerbs, TrialVerbs
  <2>. HIDE DEF q6
  <2>3. Lists(q6 \o Steps(TargetedVerbs, seed, Targeted), 18 + 4, table)
    BY <1>7, <2>10, <2>11, <2>2, JoinBlock4 DEF TargetedVerbs
  <2>4. 18 + 4 = 22
    OBVIOUS
  <2>. HIDE DEF q7
  <2>. QED  BY <2>3, <2>4 DEF q7
<1>. DEFINE q8 == q7 \o Steps(<<"audit">>, seed, Targeted)
<1>9. Lists(q8, 23, table)
  <2>0. /\ 22 + 1 = 23 /\ 23 \in 1..25
    OBVIOUS
  <2>10. /\ table[22 + 1] = [do |-> "audit", seed |-> seed, via |-> Targeted]
    BY <1>1, <2>0, RebuildFirstIs, ZenonT(60)
  <2>2. /\ "audit" \in StudyVerbs
        /\ Targeted \in Vias
    BY VerbLists DEF StudyVerbs, TrialVerbs
  <2>. HIDE DEF q7
  <2>3. Lists(q7 \o Steps(<<"audit">>, seed, Targeted), 22 + 1, table)
    BY <1>8, <2>10, <2>2, JoinBlock1
  <2>4. 22 + 1 = 23
    OBVIOUS
  <2>. HIDE DEF q8
  <2>. QED  BY <2>3, <2>4 DEF q8
<1>. DEFINE q9 == q8 \o Steps(<<"clear">>, seed, Targeted)
<1>10. Lists(q9, 24, table)
  <2>0. /\ 23 + 1 = 24 /\ 24 \in 1..25
    OBVIOUS
  <2>10. /\ table[23 + 1] = [do |-> "clear", seed |-> seed, via |-> Targeted]
    BY <1>1, <2>0, RebuildFirstIs, ZenonT(60)
  <2>2. /\ "clear" \in StudyVerbs
        /\ Targeted \in Vias
    BY VerbLists DEF StudyVerbs, TrialVerbs
  <2>. HIDE DEF q8
  <2>3. Lists(q8 \o Steps(<<"clear">>, seed, Targeted), 23 + 1, table)
    BY <1>9, <2>10, <2>2, JoinBlock1
  <2>4. 23 + 1 = 24
    OBVIOUS
  <2>. HIDE DEF q9
  <2>. QED  BY <2>3, <2>4 DEF q9
<1>. DEFINE q10 == q9 \o Steps(<<"clear">>, seed, RebuildAll)
<1>11. Lists(q10, 25, table)
  <2>0. /\ 24 + 1 = 25 /\ 25 \in 1..25
    OBVIOUS
  <2>10. /\ table[24 + 1] = [do |-> "clear", seed |-> seed, via |-> RebuildAll]
    BY <1>1, <2>0, RebuildFirstIs, ZenonT(60)
  <2>2. /\ "clear" \in StudyVerbs
        /\ RebuildAll \in Vias
    BY VerbLists DEF StudyVerbs, TrialVerbs
  <2>. HIDE DEF q9
  <2>3. Lists(q9 \o Steps(<<"clear">>, seed, RebuildAll), 24 + 1, table)
    BY <1>10, <2>10, <2>2, JoinBlock1
  <2>4. 24 + 1 = 25
    OBVIOUS
  <2>. HIDE DEF q10
  <2>. QED  BY <2>3, <2>4 DEF q10
<1>12. RunTrial(seed) = q10
  BY VerbLists DEF RunTrial, SetupSteps, RemediationSteps, SetVerbs, TargetedVerbs, RebuildVerbs
<1>. QED  BY <1>11, <1>12 DEF table

LEMMA TrialIs ==
  ASSUME NEW seed \in Nat
  PROVE  /\ RunTrial(seed) \in Seq(Operations) /\ Len(RunTrial(seed)) = 25
         /\ \A i \in 1..25 :
              RunTrial(seed)[i] =
                [do |-> IF seed % 2 = 1 THEN TargetedFirstVerbs[i] ELSE RebuildFirstVerbs[i],
                 seed |-> seed,
                 via |-> IF seed % 2 = 1 THEN TargetedFirstVias[i] ELSE RebuildFirstVias[i]]
<1>1. Lists(RunTrial(seed), 25, TrialTable(seed))
  BY TargetedFirstLayout, RebuildFirstLayout
<1>2. \A i \in 1..25 : RunTrial(seed)[i] = TrialTable(seed)[i]
  BY <1>1 DEF Lists
<1>3. \A i \in 1..25 :
        TrialTable(seed)[i] =
          [do |-> IF seed % 2 = 1 THEN TargetedFirstVerbs[i] ELSE RebuildFirstVerbs[i],
           seed |-> seed,
           via |-> IF seed % 2 = 1 THEN TargetedFirstVias[i] ELSE RebuildFirstVias[i]]
  BY DEF TrialTable, Table
<1>. QED  BY <1>1, <1>2, <1>3 DEF Lists

\* s[b + 1] .. s[b + 25] are the trial of the seed.
TrialAt(s, b, seed) ==
  /\ b \in Nat /\ seed \in Nat /\ b + 25 <= Len(s)
  /\ \A j \in 1..25 : s[b + j] = RunTrial(seed)[j]

\* Every operation of a trial belongs to a whole one.
InTrials(s) ==
  \A q \in 1..Len(s) : s[q].do \in TrialVerbs =>
    \E b \in Nat : \E seed \in Nat : b < q /\ q <= b + 25 /\ TrialAt(s, b, seed)

Within(s, verbs) == \A q \in 1..Len(s) : s[q].do \in verbs

Audits(s, seed) ==
  \A via \in Strategies : \E q \in 1..Len(s) :
    s[q].do = "audit" /\ s[q].seed = seed /\ s[q].via = via

LEMMA TrialStays ==
  ASSUME NEW p \in Seq(Operations), NEW q \in Seq(Operations), NEW b \in Nat, NEW seed \in Nat
  PROVE  /\ TrialAt(p, b, seed) => TrialAt(p \o q, b, seed)
         /\ TrialAt(q, b, seed) => TrialAt(p \o q, Len(p) + b, seed)
<1>. DEFINE r == p \o q
<1>1. /\ Len(p) \in Nat /\ Len(q) \in Nat /\ Len(r) = Len(p) + Len(q)
      /\ \A i \in 1..Len(p) : r[i] = p[i]
      /\ \A i \in 1..Len(q) : r[Len(p) + i] = q[i]
  BY JoinSteps
<1>. HIDE DEF r
<1>2. ASSUME TrialAt(p, b, seed) PROVE TrialAt(r, b, seed)
  <2>0. b + 25 <= Len(p) /\ Len(p) \in Nat /\ Len(r) \in Nat /\ Len(p) <= Len(r)
    BY <1>1, <1>2 DEF TrialAt
  <2>1. \A j \in 1..25 : p[b + j] = RunTrial(seed)[j]
    BY <1>2 DEF TrialAt
  <2>2. \A j \in 1..25 : b + j \in 1..Len(p)
    BY <2>0
  <2>3. \A j \in 1..25 : r[b + j] = RunTrial(seed)[j]
    BY <1>1, <2>1, <2>2
  <2>4. b + 25 <= Len(r)
    BY <2>0
  <2>. QED  BY <2>3, <2>4 DEF TrialAt
<1>3. ASSUME TrialAt(q, b, seed) PROVE TrialAt(r, Len(p) + b, seed)
  <2>0. b + 25 <= Len(q) /\ Len(p) \in Nat /\ Len(q) \in Nat /\ Len(r) = Len(p) + Len(q)
    BY <1>1, <1>3 DEF TrialAt
  <2>1. \A j \in 1..25 : q[b + j] = RunTrial(seed)[j]
    BY <1>3 DEF TrialAt
  <2>2. ASSUME NEW j \in 1..25 PROVE r[(Len(p) + b) + j] = RunTrial(seed)[j]
    <3>1. b + j \in 1..Len(q) /\ (Len(p) + b) + j = Len(p) + (b + j)
      BY <2>0
    <3>2. r[Len(p) + (b + j)] = q[b + j]
      BY <1>1, <3>1
    <3>. QED  BY <2>1, <3>1, <3>2
  <2>3. Len(p) + b \in Nat /\ (Len(p) + b) + 25 <= Len(r)
    BY <2>0
  <2>. QED  BY <2>2, <2>3 DEF TrialAt
<1>. QED  BY <1>2, <1>3 DEF r

LEMMA JoinInTrials ==
  ASSUME NEW p \in Seq(Operations), NEW q \in Seq(Operations), InTrials(p), InTrials(q)
  PROVE  p \o q \in Seq(Operations) /\ InTrials(p \o q)
<1>. DEFINE r == p \o q
<1>1. /\ r \in Seq(Operations) /\ Len(p) \in Nat /\ Len(q) \in Nat /\ Len(r) = Len(p) + Len(q)
      /\ \A i \in 1..Len(r) : \/ i \in 1..Len(p) /\ r[i] = p[i]
                              \/ i - Len(p) \in 1..Len(q) /\ r[i] = q[i - Len(p)]
  BY JoinSteps
<1>2. \A b \in Nat : \A seed \in Nat :
        /\ TrialAt(p, b, seed) => TrialAt(r, b, seed)
        /\ TrialAt(q, b, seed) => TrialAt(r, Len(p) + b, seed)
  BY TrialStays
<1>. HIDE DEF r
<1>3. ASSUME NEW i \in 1..Len(r), r[i].do \in TrialVerbs
      PROVE  \E b \in Nat : \E seed \in Nat : b < i /\ i <= b + 25 /\ TrialAt(r, b, seed)
  <2>1. CASE i \in 1..Len(p) /\ r[i] = p[i]
    <3>1. PICK b \in Nat : \E seed \in Nat : b < i /\ i <= b + 25 /\ TrialAt(p, b, seed)
      BY <1>3, <2>1 DEF InTrials
    <3>. QED  BY <1>2, <3>1
  <2>2. CASE i - Len(p) \in 1..Len(q) /\ r[i] = q[i - Len(p)]
    <3>. DEFINE k == i - Len(p)
    <3>1. PICK b \in Nat : \E seed \in Nat : b < k /\ k <= b + 25 /\ TrialAt(q, b, seed)
      BY <1>3, <2>2 DEF InTrials
    <3>2. PICK seed \in Nat : b < k /\ k <= b + 25 /\ TrialAt(q, b, seed)
      BY <3>1
    <3>3. Len(p) + b \in Nat /\ Len(p) + b < i /\ i <= (Len(p) + b) + 25
      BY <1>1, <3>2
    <3>. QED  BY <1>2, <3>2, <3>3
  <2>. QED  BY <1>1, <2>1, <2>2
<1>4. InTrials(r)
  BY <1>3 DEF InTrials
<1>. QED  BY <1>1, <1>4 DEF r

LEMMA JoinWithin ==
  ASSUME NEW p \in Seq(Operations), NEW q \in Seq(Operations), NEW verbs,
         Within(p, verbs), Within(q, verbs)
  PROVE  Within(p \o q, verbs)
<1>. DEFINE r == p \o q
<1>1. \A i \in 1..Len(r) : \/ i \in 1..Len(p) /\ r[i] = p[i]
                           \/ i - Len(p) \in 1..Len(q) /\ r[i] = q[i - Len(p)]
  BY JoinSteps
<1>. HIDE DEF r
<1>2. Within(r, verbs)
  BY <1>1 DEF Within
<1>. QED  BY <1>2 DEF r

LEMMA JoinAudits ==
  ASSUME NEW p \in Seq(Operations), NEW q \in Seq(Operations), NEW seed,
         Audits(p, seed) \/ Audits(q, seed)
  PROVE  Audits(p \o q, seed)
<1>. DEFINE r == p \o q
<1>1. /\ Len(p) \in Nat /\ Len(q) \in Nat /\ Len(r) = Len(p) + Len(q)
      /\ \A i \in 1..Len(p) : r[i] = p[i]
      /\ \A i \in 1..Len(q) : r[Len(p) + i] = q[i]
  BY JoinSteps
<1>. HIDE DEF r
<1>2. ASSUME NEW via \in Strategies
      PROVE  \E i \in 1..Len(r) : r[i].do = "audit" /\ r[i].seed = seed /\ r[i].via = via
  <2>1. CASE Audits(p, seed)
    <3>1. PICK i \in 1..Len(p) : p[i].do = "audit" /\ p[i].seed = seed /\ p[i].via = via
      BY <2>1 DEF Audits
    <3>2. i \in 1..Len(r) /\ r[i] = p[i]
      BY <1>1
    <3>. QED  BY <3>1, <3>2
  <2>2. CASE Audits(q, seed)
    <3>1. PICK i \in 1..Len(q) : q[i].do = "audit" /\ q[i].seed = seed /\ q[i].via = via
      BY <2>2 DEF Audits
    <3>2. Len(p) + i \in 1..Len(r) /\ r[Len(p) + i] = q[i]
      BY <1>1
    <3>. QED  BY <3>1, <3>2
  <2>. QED  BY <2>1, <2>2
<1>3. Audits(r, seed)
  BY <1>2 DEF Audits
<1>. QED  BY <1>3 DEF r

\* What the verbs of a trial are, at every place.
LEMMA TrialVerbIs ==
  ASSUME NEW i \in 1..25
  PROVE  TargetedFirstVerbs[i] \in TrialVerbs /\ RebuildFirstVerbs[i] \in TrialVerbs
<1>1. TargetedFirstVerbs \in Seq(TrialVerbs) /\ Len(TargetedFirstVerbs) = 25
  BY DEF TargetedFirstVerbs, TrialVerbs
<1>2. RebuildFirstVerbs \in Seq(TrialVerbs) /\ Len(RebuildFirstVerbs) = 25
  BY DEF RebuildFirstVerbs, TrialVerbs
<1>3. \A p \in Seq(TrialVerbs) : \A k \in 1..Len(p) : p[k] \in TrialVerbs
  BY ElementOfSeq
<1>. QED  BY <1>1, <1>2, <1>3

LEMMA TrialFits ==
  ASSUME NEW seed \in Nat
  PROVE  /\ RunTrial(seed) \in Seq(Operations) /\ InTrials(RunTrial(seed))
         /\ Within(RunTrial(seed), TrialVerbs) /\ Audits(RunTrial(seed), seed)
<1>. DEFINE r == RunTrial(seed)
<1>1. /\ r \in Seq(Operations) /\ Len(r) = 25
      /\ \A i \in 1..25 :
           /\ r[i].do = IF seed % 2 = 1 THEN TargetedFirstVerbs[i] ELSE RebuildFirstVerbs[i]
           /\ r[i].seed = seed
           /\ r[i].via = IF seed % 2 = 1 THEN TargetedFirstVias[i] ELSE RebuildFirstVias[i]
  <2>1. /\ r \in Seq(Operations) /\ Len(r) = 25
        /\ \A i \in 1..25 :
             r[i] =
               [do |-> IF seed % 2 = 1 THEN TargetedFirstVerbs[i] ELSE RebuildFirstVerbs[i],
                seed |-> seed,
                via |-> IF seed % 2 = 1 THEN TargetedFirstVias[i] ELSE RebuildFirstVias[i]]
    BY TrialIs
  <2>. DEFINE v(i) == IF seed % 2 = 1 THEN TargetedFirstVerbs[i] ELSE RebuildFirstVerbs[i]
              w(i) == IF seed % 2 = 1 THEN TargetedFirstVias[i] ELSE RebuildFirstVias[i]
  <2>2. \A i \in 1..25 : r[i] = [do |-> v(i), seed |-> seed, via |-> w(i)]
    <3>. HIDE DEF r
    <3>. QED  BY <2>1
  <2>3. \A i \in 1..25 : r[i].do = v(i) /\ r[i].seed = seed /\ r[i].via = w(i)
    <3>. HIDE DEF r, v, w
    <3>. QED  BY <2>2
  <2>. HIDE DEF r
  <2>. QED  BY <2>1, <2>3
<1>2. TrialAt(r, 0, seed)
  <2>1. \A j \in 1..25 : 0 + j = j
    OBVIOUS
  <2>. QED  BY <1>1, <2>1 DEF TrialAt
<1>. HIDE DEF r
<1>3. InTrials(r)
  <2>. SUFFICES ASSUME NEW q \in 1..Len(r)
                PROVE  \E b \in Nat : \E s \in Nat : b < q /\ q <= b + 25 /\ TrialAt(r, b, s)
    BY DEF InTrials
  <2>0. Len(r) = 25
    BY <1>1
  <2>1. 0 < q /\ q <= 0 + 25 /\ 0 \in Nat
    BY <2>0
  <2>. QED  BY <1>2, <2>1
<1>4. Within(r, TrialVerbs)
  BY <1>1, TrialVerbIs DEF Within
<1>5. Audits(r, seed)
  <2>0. Len(r) = 25
    BY <1>1
  <2>1. 17 \in 1..25 /\ 18 \in 1..25 /\ 23 \in 1..25
    OBVIOUS
  <2>2. CASE seed % 2 = 1
    <3>1. \A i \in 1..25 : r[i].do = TargetedFirstVerbs[i] /\ r[i].seed = seed /\ r[i].via = TargetedFirstVias[i]
      BY <1>1, <2>2
    <3>2. r[17].do = "audit" /\ r[17].via = Targeted /\ r[17].seed = seed
      BY <2>1, <3>1, TargetedFirstIs
    <3>3. r[23].do = "audit" /\ r[23].via = RebuildAll /\ r[23].seed = seed
      BY <2>1, <3>1, TargetedFirstIs
    <3>. QED  BY <2>0, <2>1, <3>2, <3>3 DEF Audits, Strategies
  <2>3. CASE seed % 2 # 1
    <3>1. \A i \in 1..25 : r[i].do = RebuildFirstVerbs[i] /\ r[i].seed = seed /\ r[i].via = RebuildFirstVias[i]
      BY <1>1, <2>3
    <3>2. r[23].do = "audit" /\ r[23].via = Targeted /\ r[23].seed = seed
      BY <2>1, <3>1, RebuildFirstIs
    <3>3. r[18].do = "audit" /\ r[18].via = RebuildAll /\ r[18].seed = seed
      BY <2>1, <3>1, RebuildFirstIs
    <3>. QED  BY <2>0, <2>1, <3>2, <3>3 DEF Audits, Strategies
  <2>. QED  BY <2>2, <2>3
<1>. QED  BY <1>1, <1>3, <1>4, <1>5 DEF r

\* The trials of a list of seeds, one after the other.
IsUpTo(f, seeds) ==
  f = [i \in 0..Len(seeds) |-> IF i = 0 THEN <<>> ELSE f[i - 1] \o RunTrial(seeds[i])]

LEMMA UpToExists ==
  ASSUME NEW seeds \in Seq(Nat)
  PROVE  \E f : IsUpTo(f, seeds)
<1>. DEFINE n == Len(seeds)
            D == Seq(Operations)
            start == <<>>
            Grow(k, q) == q \o RunTrial(seeds[k])
            step == [k \in 1..n |-> [q \in D |-> Grow(k, q)]]
<1>1. n \in Nat /\ start \in D
  OBVIOUS
<1>2. step \in [1..n -> [D -> D]]
  <2>1. \A k \in 1..n : RunTrial(seeds[k]) \in D
    BY TrialFits
  <2>2. \A k \in 1..n : \A q \in D : Grow(k, q) \in D
    BY <2>1, JoinSteps
  <2>. HIDE DEF Grow, D
  <2>. QED  BY <2>2
<1>3. PICK f : Iterates(D, start, n, step, f)
  <2>. HIDE DEF D, start, n, step
  <2>. QED  BY <1>1, <1>2, IteratesExist
<1>4. f \in [0..n -> D] /\ f[0] = start /\ \A k \in 1..n : f[k] = step[k][f[k - 1]]
  BY <1>3 DEF Iterates
<1>5. \A k \in 1..n : f[k] = Grow(k, f[k - 1])
  <2>. TAKE k \in 1..n
  <2>1. k - 1 \in 0..n
    BY <1>1
  <2>2. f[k - 1] \in D
    BY <1>4, <2>1
  <2>3. step[k][f[k - 1]] = Grow(k, f[k - 1])
    <3>. HIDE DEF Grow, D
    <3>. QED  BY <2>2
  <2>. QED  BY <1>4, <2>3
<1>6. \A i \in 0..n : f[i] = IF i = 0 THEN start ELSE Grow(i, f[i - 1])
  <2>1. \A i \in 0..n : i = 0 \/ i \in 1..n
    BY <1>1
  <2>. HIDE DEF Grow, start, D, step
  <2>. QED  BY <1>4, <1>5, <2>1
<1>7. f = [i \in 0..n |-> f[i]]
  BY <1>4
<1>8. f = [i \in 0..n |-> IF i = 0 THEN start ELSE Grow(i, f[i - 1])]
  <2>. HIDE DEF Grow, start, D, step
  <2>. QED  BY <1>6, <1>7
<1>9. IsUpTo(f, seeds)
  <2>. HIDE DEF RunTrial
  <2>. QED  BY <1>8 DEF IsUpTo
<1>. QED  BY <1>9

LEMMA TrialsFit ==
  ASSUME NEW seeds \in Seq(Nat)
  PROVE  /\ RunTrials(seeds) \in Seq(Operations) /\ InTrials(RunTrials(seeds))
         /\ Within(RunTrials(seeds), TrialVerbs)
         /\ \A k \in 1..Len(seeds) : Audits(RunTrials(seeds), seeds[k])
<1>. DEFINE n == Len(seeds)
            f == CHOOSE g : IsUpTo(g, seeds)
            Good(i) == /\ f[i] \in Seq(Operations) /\ InTrials(f[i]) /\ Within(f[i], TrialVerbs)
                       /\ \A k \in 1..i : Audits(f[i], seeds[k])
            bad == { i \in 0..n : ~ Good(i) }
<1>1. n \in Nat /\ RunTrials(seeds) = f[n]
  BY DEF RunTrials, IsUpTo
<1>2. f[0] = <<>> /\ \A i \in 1..n : f[i] = f[i - 1] \o RunTrial(seeds[i])
  <2>1. IsUpTo(f, seeds)
    BY UpToExists
  <2>2. 0 \in 0..n /\ \A i \in 1..n : i \in 0..n /\ i # 0
    BY <1>1
  <2>. HIDE DEF f
  <2>. QED  BY <2>1, <2>2 DEF IsUpTo
<1>. HIDE DEF f
<1>3. Good(0)
  BY <1>2 DEF InTrials, Within
<1>4. ASSUME NEW i \in 1..n, Good(i - 1) PROVE Good(i)
  <2>. DEFINE p == f[i - 1]
              q == RunTrial(seeds[i])
  <2>1. seeds[i] \in Nat /\ f[i] = p \o q
    <3>1. seeds[i] \in Nat
      OBVIOUS
    <3>2. f[i] = f[i - 1] \o RunTrial(seeds[i])
      BY <1>2
    <3>. QED  BY <3>1, <3>2
  <2>2. /\ q \in Seq(Operations) /\ InTrials(q) /\ Within(q, TrialVerbs) /\ Audits(q, seeds[i])
    BY <2>1, TrialFits
  <2>3. /\ p \in Seq(Operations) /\ InTrials(p) /\ Within(p, TrialVerbs)
        /\ \A k \in 1..(i - 1) : Audits(p, seeds[k])
    BY <1>4
  <2>. HIDE DEF p, q
  <2>4. p \o q \in Seq(Operations) /\ InTrials(p \o q) /\ Within(p \o q, TrialVerbs)
    BY <2>2, <2>3, JoinInTrials, JoinWithin
  <2>5. \A k \in 1..i : Audits(p \o q, seeds[k])
    <3>1. \A k \in 1..i : k = i \/ k \in 1..(i - 1)
      BY <1>1
    <3>. QED  BY <2>2, <2>3, <3>1, JoinAudits
  <2>. QED  BY <2>1, <2>4, <2>5
<1>5. bad = {}
  <2>. SUFFICES ASSUME bad # {} PROVE FALSE
    OBVIOUS
  <2>1. bad \in SUBSET Nat
    OBVIOUS
  <2>2. PICK i \in bad : \A k \in bad : i <= k
    <3>. HIDE DEF bad
    <3>. QED  BY <2>1, LeastNat
  <2>3. i \in 0..n /\ ~ Good(i)
    BY <2>2
  <2>4. i # 0
    BY <1>3, <2>3
  <2>5. i \in 1..n /\ i - 1 \in 0..n /\ ~ (i <= i - 1)
    BY <1>1, <2>3, <2>4
  <2>6. Good(i - 1)
    <3>. HIDE DEF Good
    <3>. QED  BY <2>2, <2>5
  <2>. HIDE DEF Good
  <2>. QED  BY <1>4, <2>3, <2>5, <2>6
<1>6. Good(n)
  <2>1. n \in 0..n
    BY <1>1
  <2>. HIDE DEF Good
  <2>. QED  BY <1>5, <2>1
<1>. QED  BY <1>1, <1>6

-----------------------------------------------------------------------------
(* The whole scripts.                                                      *)

BodyVerbs == TrialVerbs \union {"plan", "write", "stop"}

\* A script that enters the services and goes on with trials, a plan and an end.
Entering(p) ==
  /\ p \in Seq(Operations) /\ InTrials(p) /\ Len(p) >= 6
  /\ p[1].do = "refuse existing" /\ p[2].do = "mkdir output"
  /\ p[3].do = "start postgres" /\ p[4].do = "start redis" /\ p[5].do = "start qdrant"
  /\ p[6].do = "ready"
  /\ \A q \in 7..Len(p) : p[q].do \in BodyVerbs

Body(p) == p \in Seq(Operations) /\ InTrials(p) /\ Within(p, BodyVerbs)
Ends(p) == \E q \in 1..Len(p) : p[q].do = "stop"

LEMMA EnterJoin ==
  ASSUME NEW p, Entering(p), NEW q, Body(q)
  PROVE  /\ Entering(p \o q)
         /\ Ends(q) => \E i \in 7..Len(p \o q) : (p \o q)[i].do = "stop"
<1>. DEFINE r == p \o q
<1>1. p \in Seq(Operations) /\ q \in Seq(Operations) /\ InTrials(p) /\ InTrials(q)
  BY DEF Entering, Body
<1>2. /\ Len(p) \in Nat /\ Len(q) \in Nat /\ Len(r) = Len(p) + Len(q)
      /\ \A i \in 1..Len(p) : r[i] = p[i]
      /\ \A i \in 1..Len(q) : r[Len(p) + i] = q[i]
      /\ \A i \in 1..Len(r) : \/ i \in 1..Len(p) /\ r[i] = p[i]
                              \/ i - Len(p) \in 1..Len(q) /\ r[i] = q[i - Len(p)]
  BY <1>1, JoinSteps
<1>3. r \in Seq(Operations) /\ InTrials(r)
  BY <1>1, JoinInTrials
<1>. HIDE DEF r
<1>4. Len(p) >= 6
  BY DEF Entering
<1>5. Len(r) >= 6
  BY <1>2, <1>4
<1>6. /\ r[1].do = "refuse existing" /\ r[2].do = "mkdir output"
      /\ r[3].do = "start postgres" /\ r[4].do = "start redis" /\ r[5].do = "start qdrant"
      /\ r[6].do = "ready"
  <2>1. \A i \in 1..6 : i \in 1..Len(p)
    BY <1>2, <1>4
  <2>2. 1 \in 1..6 /\ 2 \in 1..6 /\ 3 \in 1..6 /\ 4 \in 1..6 /\ 5 \in 1..6 /\ 6 \in 1..6
    OBVIOUS
  <2>3. r[1] = p[1] /\ r[2] = p[2] /\ r[3] = p[3]
    BY <1>2, <2>1, <2>2
  <2>4. r[4] = p[4] /\ r[5] = p[5] /\ r[6] = p[6]
    BY <1>2, <2>1, <2>2
  <2>. QED  BY <2>3, <2>4 DEF Entering
<1>7. ASSUME NEW i \in 7..Len(r) PROVE r[i].do \in BodyVerbs
  <2>1. i \in 1..Len(r)
    BY <1>2
  <2>2. CASE i \in 1..Len(p) /\ r[i] = p[i]
    <3>1. i \in 7..Len(p)
      BY <2>2
    <3>. QED  BY <2>2, <3>1 DEF Entering
  <2>3. CASE i - Len(p) \in 1..Len(q) /\ r[i] = q[i - Len(p)]
    BY <2>3 DEF Body, Within
  <2>. QED  BY <1>2, <2>1, <2>2, <2>3
<1>8. Entering(r)
  BY <1>3, <1>5, <1>6, <1>7 DEF Entering
<1>9. ASSUME Ends(q) PROVE \E i \in 7..Len(r) : r[i].do = "stop"
  <2>1. PICK k \in 1..Len(q) : q[k].do = "stop"
    BY <1>9 DEF Ends
  <2>2. Len(p) + k \in 7..Len(r)
    BY <1>2, <1>4
  <2>3. r[Len(p) + k] = q[k]
    BY <1>2
  <2>. QED  BY <2>1, <2>2, <2>3
<1>. QED  BY <1>8, <1>9 DEF r

LEMMA Fields ==
  ASSUME NEW r, NEW a, NEW b, NEW c, r = [do |-> a, seed |-> b, via |-> c]
  PROVE  r.do = a /\ r.seed = b /\ r.via = c
OBVIOUS

LEMMA BlockOf ==
  ASSUME NEW verbs \in Seq(StudyVerbs), NEW seed \in Nat, NEW via \in Vias
  PROVE  /\ Steps(verbs, seed, via) \in Seq(Operations)
         /\ Len(Steps(verbs, seed, via)) = Len(verbs)
         /\ \A i \in 1..Len(verbs) : /\ Steps(verbs, seed, via)[i].do = verbs[i]
                                     /\ Steps(verbs, seed, via)[i].seed = seed
<1>. DEFINE r == Steps(verbs, seed, via)
<1>1. /\ r \in Seq(Operations) /\ Len(r) = Len(verbs)
      /\ \A i \in 1..Len(verbs) : r[i] = [do |-> verbs[i], seed |-> seed, via |-> via]
  BY BlockFacts
<1>. HIDE DEF r
<1>2. ASSUME NEW i \in 1..Len(verbs) PROVE r[i].do = verbs[i] /\ r[i].seed = seed
  <2>1. r[i] = [do |-> verbs[i], seed |-> seed, via |-> via]
    BY <1>1
  <2>. QED  BY <2>1, Fields
<1>. QED  BY <1>1, <1>2 DEF r

LEMMA OneBlock ==
  ASSUME NEW v \in {"plan", "write", "stop"}
  PROVE  /\ Steps(<<v>>, 0, "") \in Seq(Operations) /\ Len(Steps(<<v>>, 0, "")) = 1
         /\ Steps(<<v>>, 0, "")[1] = [do |-> v, seed |-> 0, via |-> ""]
<1>. DEFINE verbs == <<v>>
<1>1. v \in StudyVerbs
  BY DEF StudyVerbs
<1>2. verbs \in Seq(StudyVerbs) /\ Len(verbs) = 1 /\ verbs[1] = v /\ "" \in Vias /\ 0 \in Nat
  BY <1>1, VerbLists
<1>. HIDE DEF verbs
<1>3. /\ Steps(verbs, 0, "") \in Seq(Operations) /\ Len(Steps(verbs, 0, "")) = Len(verbs)
      /\ \A i \in 1..Len(verbs) :
           Steps(verbs, 0, "")[i] = [do |-> verbs[i], seed |-> 0, via |-> ""]
  BY <1>2, BlockFacts
<1>4. 1 \in 1..1 /\ 1 \in 1..Len(verbs)
  <2>1. Len(verbs) = 1
    BY <1>2
  <2>. QED  BY <2>1
<1>5. Steps(verbs, 0, "")[1] = [do |-> v, seed |-> 0, via |-> ""]
  BY <1>2, <1>3, <1>4
<1>6. Len(Steps(verbs, 0, "")) = 1
  BY <1>2, <1>3
<1>. QED  BY <1>3, <1>5, <1>6 DEF verbs

LEMMA OneEntry ==
  ASSUME NEW v \in {"plan", "write", "stop"}
  PROVE  Steps(<<v>>, 0, "")[1].do = v /\ Steps(<<v>>, 0, "")[1].seed = 0
<1>. DEFINE x == Steps(<<v>>, 0, "")[1]
<1>1. x = [do |-> v, seed |-> 0, via |-> ""]
  BY OneBlock
<1>. HIDE DEF x
<1>2. x.do = v /\ x.seed = 0
  BY <1>1, Fields
<1>. QED  BY <1>2 DEF x

LEMMA OneStep ==
  ASSUME NEW v \in {"plan", "write", "stop"}
  PROVE  /\ Body(Steps(<<v>>, 0, "")) /\ Len(Steps(<<v>>, 0, "")) = 1
         /\ Steps(<<v>>, 0, "")[1].do = v
<1>. DEFINE p == Steps(<<v>>, 0, "")
<1>1. v \in StudyVerbs /\ v \notin TrialVerbs /\ v \in BodyVerbs
  BY DEF StudyVerbs, TrialVerbs, BodyVerbs
<1>3. p \in Seq(Operations) /\ Len(p) = 1 /\ p[1] = [do |-> v, seed |-> 0, via |-> ""]
  BY OneBlock
<1>. HIDE DEF p
<1>4. \A i \in 1..Len(p) : p[i].do = v
  <2>1. Len(p) = 1 /\ p[1].do = v
    BY <1>3, Fields
  <2>2. \A i \in 1..Len(p) : i = 1
    BY <2>1
  <2>. QED  BY <2>1, <2>2
<1>5. InTrials(p) /\ Within(p, BodyVerbs)
  BY <1>1, <1>4 DEF InTrials, Within
<1>6. Body(p) /\ Len(p) = 1 /\ p[1].do = v
  <2>1. Len(p) = 1 /\ p[1].do = v
    BY <1>3, Fields
  <2>. QED  BY <1>3, <1>5, <2>1 DEF Body
<1>. QED  BY <1>6 DEF p

LEMMA TrialsBody ==
  ASSUME NEW seeds \in Seq(Nat)
  PROVE  Body(RunTrials(seeds))
<1>1. /\ RunTrials(seeds) \in Seq(Operations) /\ InTrials(RunTrials(seeds))
      /\ Within(RunTrials(seeds), TrialVerbs)
  BY TrialsFit
<1>2. TrialVerbs \subseteq BodyVerbs
  BY DEF BodyVerbs
<1>. QED  BY <1>1, <1>2 DEF Body, Within

LEMMA JoinBody ==
  ASSUME NEW p, Body(p), NEW q, Body(q)
  PROVE  Body(p \o q) /\ (Ends(p) \/ Ends(q) => Ends(p \o q))
<1>. DEFINE r == p \o q
<1>1. p \in Seq(Operations) /\ q \in Seq(Operations)
  BY DEF Body
<1>2. Body(r)
  BY <1>1, JoinInTrials, JoinWithin DEF Body
<1>3. /\ Len(p) \in Nat /\ Len(q) \in Nat /\ Len(r) = Len(p) + Len(q)
      /\ \A i \in 1..Len(p) : r[i] = p[i]
      /\ \A i \in 1..Len(q) : r[Len(p) + i] = q[i]
  BY <1>1, JoinSteps
<1>. HIDE DEF r
<1>4. ASSUME Ends(p) PROVE Ends(r)
  <2>1. PICK k \in 1..Len(p) : p[k].do = "stop"
    BY <1>4 DEF Ends
  <2>2. k \in 1..Len(r) /\ r[k] = p[k]
    BY <1>3
  <2>. QED  BY <2>1, <2>2 DEF Ends
<1>5. ASSUME Ends(q) PROVE Ends(r)
  <2>1. PICK k \in 1..Len(q) : q[k].do = "stop"
    BY <1>5 DEF Ends
  <2>2. Len(p) + k \in 1..Len(r) /\ r[Len(p) + k] = q[k]
    BY <1>3
  <2>. QED  BY <2>1, <2>2 DEF Ends
<1>. QED  BY <1>2, <1>4, <1>5 DEF r

\* Before the trials: the output is made, and the services entered.
LEMMA FrontFacts ==
  Entering(Steps(<<"refuse existing", "mkdir output">>, 0, "") \o Enter)
<1>. DEFINE u == <<"refuse existing", "mkdir output">>
            w == <<"start postgres", "start redis", "start qdrant", "ready">>
            p == Steps(u, 0, "")
            q == Steps(w, 0, "")
            r == p \o q
<1>1. u \in Seq(StudyVerbs) /\ Len(u) = 2 /\ u[1] = "refuse existing" /\ u[2] = "mkdir output"
  BY DEF StudyVerbs, EnterVerbs
<1>2. /\ w \in Seq(StudyVerbs) /\ Len(w) = 4
      /\ w[1] = "start postgres" /\ w[2] = "start redis" /\ w[3] = "start qdrant" /\ w[4] = "ready"
  BY DEF StudyVerbs, EnterVerbs
<1>3. "" \in Vias /\ 0 \in Nat
  BY VerbLists
<1>. HIDE DEF u, w
<1>4. /\ p \in Seq(Operations) /\ Len(p) = 2
      /\ \A i \in 1..2 : p[i].do = u[i]
  <2>1. /\ p \in Seq(Operations) /\ Len(p) = Len(u)
        /\ \A i \in 1..Len(u) : p[i].do = u[i]
    <3>1. u \in Seq(StudyVerbs)
      BY <1>1
    <3>. QED  BY <1>3, <3>1, BlockOf
  <2>. HIDE DEF p
  <2>. QED  BY <1>1, <2>1
<1>5. /\ q \in Seq(Operations) /\ Len(q) = 4
      /\ \A i \in 1..4 : q[i].do = w[i]
  <2>1. /\ q \in Seq(Operations) /\ Len(q) = Len(w)
        /\ \A i \in 1..Len(w) : q[i].do = w[i]
    <3>1. w \in Seq(StudyVerbs)
      BY <1>2
    <3>. QED  BY <1>3, <3>1, BlockOf
  <2>. HIDE DEF q
  <2>. QED  BY <1>2, <2>1
<1>. HIDE DEF p, q
<1>6. /\ r \in Seq(Operations) /\ Len(r) = 6
      /\ \A i \in 1..2 : r[i] = p[i]
      /\ \A i \in 1..4 : r[2 + i] = q[i]
  <2>1. /\ r \in Seq(Operations) /\ Len(r) = Len(p) + Len(q)
        /\ \A i \in 1..Len(p) : r[i] = p[i]
        /\ \A i \in 1..Len(q) : r[Len(p) + i] = q[i]
    BY <1>4, <1>5, JoinSteps
  <2>2. Len(p) = 2 /\ Len(q) = 4
    BY <1>4, <1>5
  <2>. HIDE DEF r
  <2>. QED  BY <2>1, <2>2
<1>. HIDE DEF r
<1>7. r[1].do = "refuse existing" /\ r[2].do = "mkdir output"
  <2>1. 1 \in 1..2 /\ 2 \in 1..2
    OBVIOUS
  <2>2. r[1] = p[1] /\ r[2] = p[2]
    BY <1>6, <2>1
  <2>. QED  BY <1>1, <1>4, <2>1, <2>2
<1>8. r[3].do = "start postgres" /\ r[4].do = "start redis"
  <2>1. 1 \in 1..4 /\ 2 \in 1..4 /\ 2 + 1 = 3 /\ 2 + 2 = 4
    OBVIOUS
  <2>2. r[3] = q[1] /\ r[4] = q[2]
    BY <1>6, <2>1
  <2>. QED  BY <1>2, <1>5, <2>1, <2>2
<1>9. r[5].do = "start qdrant" /\ r[6].do = "ready"
  <2>1. 3 \in 1..4 /\ 4 \in 1..4 /\ 2 + 3 = 5 /\ 2 + 4 = 6
    OBVIOUS
  <2>2. r[5] = q[3] /\ r[6] = q[4]
    BY <1>6, <2>1
  <2>. QED  BY <1>2, <1>5, <2>1, <2>2
<1>10. ASSUME NEW i \in 1..Len(r) PROVE r[i].do \notin TrialVerbs
  <2>1. i = 1 \/ i = 2 \/ i = 3 \/ i = 4 \/ i = 5 \/ i = 6
    BY <1>6
  <2>. QED  BY <1>7, <1>8, <1>9, <2>1 DEF TrialVerbs
<1>11. InTrials(r)
  BY <1>10 DEF InTrials
<1>12. Len(r) >= 6 /\ \A i \in 7..Len(r) : FALSE
  BY <1>6
<1>13. Entering(r)
  BY <1>6, <1>7, <1>8, <1>9, <1>11, <1>12 DEF Entering
<1>. QED  BY <1>13 DEF r, p, q, u, w, Enter

\* The script of a study.
LEMMA StudyScriptFacts ==
  ASSUME NEW s \in Studies, s.program = "study"
  PROVE  /\ Entering(Scripts[s])
         /\ \E q \in 7..Len(Scripts[s]) : Scripts[s][q].do = "stop"
         /\ ~ s.only => \A i \in DOMAIN s.holdout : Audits(Scripts[s], s.holdout[i])
<1>. DEFINE front == Steps(<<"refuse existing", "mkdir output">>, 0, "") \o Enter
            plan == Steps(<<"plan">>, 0, "")
            write == Steps(<<"write">>, 0, "")
            hold == RunTrials(s.holdout)
            cal == RunTrials(s.calibration)
            end == IF s.only THEN write \o Exit ELSE hold \o Exit \o write
            whole == front \o cal \o plan \o end
<1>1. s.calibration \in Seq(Nat) /\ s.holdout \in Seq(Nat)
  BY ArgumentFacts
<1>2. Scripts[s] = whole
  BY DEF Scripts, ScriptOf, StudyScript
<1>3. Entering(front)
  BY FrontFacts
<1>4. Body(plan) /\ Body(write)
  BY OneStep
<1>5. Body(Exit) /\ Ends(Exit)
  <2>1. Body(Exit) /\ Len(Exit) = 1 /\ Exit[1].do = "stop"
    BY OneStep DEF Exit
  <2>2. 1 \in 1..Len(Exit)
    BY <2>1
  <2>. QED  BY <2>1, <2>2 DEF Ends
<1>6. Body(cal) /\ Body(hold)
  BY <1>1, TrialsBody
<1>7. \A i \in DOMAIN s.holdout : Audits(hold, s.holdout[i])
  <2>1. DOMAIN s.holdout = 1..Len(s.holdout)
    BY <1>1
  <2>. QED  BY <1>1, <2>1, TrialsFit
<1>. HIDE DEF front, plan, write, hold, cal
<1>8. Body(end) /\ Ends(end)
  <2>1. CASE s.only
    <3>1. Body(write \o Exit) /\ Ends(write \o Exit)
      BY <1>4, <1>5, JoinBody
    <3>. QED  BY <2>1, <3>1
  <2>2. CASE ~ s.only
    <3>1. Body(hold \o Exit) /\ Ends(hold \o Exit)
      BY <1>5, <1>6, JoinBody
    <3>2. Body(hold \o Exit \o write) /\ Ends(hold \o Exit \o write)
      BY <1>4, <3>1, JoinBody
    <3>. QED  BY <2>2, <3>2
  <2>. QED  BY <2>1, <2>2
<1>9. ASSUME ~ s.only PROVE \A i \in DOMAIN s.holdout : Audits(end, s.holdout[i])
  <2>1. /\ hold \in Seq(Operations) /\ Exit \in Seq(Operations) /\ write \in Seq(Operations)
        /\ hold \o Exit \in Seq(Operations)
    BY <1>4, <1>5, <1>6, JoinSteps DEF Body
  <2>2. \A i \in DOMAIN s.holdout : Audits(hold \o Exit, s.holdout[i])
    BY <1>7, <2>1, JoinAudits
  <2>3. \A i \in DOMAIN s.holdout : Audits(hold \o Exit \o write, s.holdout[i])
    BY <2>1, <2>2, JoinAudits
  <2>. QED  BY <1>9, <2>3
<1>. HIDE DEF end
<1>10. Entering(front \o cal)
  BY <1>3, <1>6, EnterJoin
<1>11. Entering(front \o cal \o plan)
  BY <1>4, <1>10, EnterJoin
<1>12. Entering(whole) /\ \E q \in 7..Len(whole) : whole[q].do = "stop"
  BY <1>8, <1>11, EnterJoin
<1>13. ASSUME ~ s.only PROVE \A i \in DOMAIN s.holdout : Audits(whole, s.holdout[i])
  <2>1. front \o cal \o plan \in Seq(Operations) /\ end \in Seq(Operations)
    BY <1>8, <1>11 DEF Entering, Body
  <2>. QED  BY <1>9, <1>13, <2>1, JoinAudits
<1>. HIDE DEF whole
<1>. QED  BY <1>2, <1>12, <1>13

\* The script of the pilot.
PilotList ==
  <<"refuse existing", "start postgres", "started", "populate", "dump", "delete source",
    "audit before", "delete derived", "unlink dump", "audit after", "stop", "write">>

LEMMA PilotListIs ==
  /\ PilotList[1] = "refuse existing" /\ PilotList[2] = "start postgres"
  /\ PilotList[3] = "started" /\ PilotList[4] = "populate" /\ PilotList[5] = "dump"
  /\ PilotList[6] = "delete source" /\ PilotList[7] = "audit before"
  /\ PilotList[8] = "delete derived" /\ PilotList[9] = "unlink dump"
  /\ PilotList[10] = "audit after" /\ PilotList[11] = "stop" /\ PilotList[12] = "write"
BY DEF PilotList

LEMMA PilotScriptFacts ==
  ASSUME NEW s \in Studies, s.program # "study"
  PROVE  /\ Scripts[s] \in Seq(Operations) /\ Len(Scripts[s]) = 12
         /\ \A i \in 1..12 : Scripts[s][i].do = PilotList[i] /\ Scripts[s][i].seed = 0
<1>. DEFINE u == <<"refuse existing", "start postgres", "started", "populate", "dump",
                   "delete source", "audit before", "delete derived", "unlink dump",
                   "audit after">>
            p == Steps(u, 0, PilotCopy)
            last == Steps(<<"write">>, 0, "")
<1>1. Scripts[s] = p \o Exit \o last
  BY ArgumentFacts DEF Scripts, ScriptOf, PilotScript
<1>2. u \in Seq(StudyVerbs) /\ Len(u) = 10
  BY DEF StudyVerbs, EnterVerbs, PilotVerbs, TrialVerbs
<1>3. \A i \in 1..10 : u[i] = PilotList[i]
  <2>1. \A i \in 1..10 : \/ i = 1 \/ i = 2 \/ i = 3 \/ i = 4 \/ i = 5 \/ i = 6 \/ i = 7 \/ i = 8
                         \/ i = 9 \/ i = 10
    OBVIOUS
  <2>2. /\ u[1] = "refuse existing" /\ u[2] = "start postgres" /\ u[3] = "started"
        /\ u[4] = "populate" /\ u[5] = "dump" /\ u[6] = "delete source" /\ u[7] = "audit before"
        /\ u[8] = "delete derived" /\ u[9] = "unlink dump" /\ u[10] = "audit after"
    OBVIOUS
  <2>. HIDE DEF u
  <2>. QED  BY <2>1, <2>2, PilotListIs
<1>4. "" \in Vias /\ PilotCopy \in Vias /\ 0 \in Nat
  BY VerbLists
<1>. HIDE DEF u
<1>5. /\ p \in Seq(Operations) /\ Len(p) = 10
      /\ \A i \in 1..10 : p[i].do = u[i] /\ p[i].seed = 0
  <2>1. /\ p \in Seq(Operations) /\ Len(p) = Len(u)
        /\ \A i \in 1..Len(u) : p[i].do = u[i] /\ p[i].seed = 0
    <3>1. u \in Seq(StudyVerbs)
      BY <1>2
    <3>. QED  BY <1>4, <3>1, BlockOf
  <2>. HIDE DEF p
  <2>. QED  BY <1>2, <2>1
<1>6. /\ Exit \in Seq(Operations) /\ Len(Exit) = 1
      /\ Exit[1] = [do |-> "stop", seed |-> 0, via |-> ""]
  BY OneBlock DEF Exit
<1>7. /\ last \in Seq(Operations) /\ Len(last) = 1
      /\ last[1] = [do |-> "write", seed |-> 0, via |-> ""]
  BY OneBlock
<1>11. Exit[1].do = "stop" /\ Exit[1].seed = 0
  BY OneEntry DEF Exit
<1>12. last[1].do = "write" /\ last[1].seed = 0
  BY OneEntry
<1>. HIDE DEF p, last
<1>. DEFINE r == p \o Exit
            t == r \o last
<1>8. /\ r \in Seq(Operations) /\ Len(r) = 11 /\ \A i \in 1..10 : r[i] = p[i]
      /\ r[11] = Exit[1]
  <2>1. 1 \in 1..1 /\ 10 + 1 = 11
    OBVIOUS
  <2>0. /\ r \in Seq(Operations) /\ Len(r) = Len(p) + Len(Exit)
        /\ \A i \in 1..Len(p) : r[i] = p[i]
        /\ \A i \in 1..Len(Exit) : r[Len(p) + i] = Exit[i]
    BY <1>5, <1>6, JoinSteps
  <2>3. Len(p) = 10 /\ Len(Exit) = 1
    BY <1>5, <1>6
  <2>. HIDE DEF r
  <2>2. /\ r \in Seq(Operations) /\ Len(r) = 10 + 1 /\ \A i \in 1..10 : r[i] = p[i]
        /\ \A i \in 1..1 : r[10 + i] = Exit[i]
    BY <2>0, <2>3
  <2>4. r[10 + 1] = Exit[1]
    BY <2>1, <2>2
  <2>. QED  BY <2>1, <2>2, <2>4
<1>. HIDE DEF r
<1>9. /\ t \in Seq(Operations) /\ Len(t) = 12 /\ \A i \in 1..11 : t[i] = r[i]
      /\ t[12] = last[1]
  <2>1. 1 \in 1..1 /\ 11 + 1 = 12
    OBVIOUS
  <2>0. /\ t \in Seq(Operations) /\ Len(t) = Len(r) + Len(last)
        /\ \A i \in 1..Len(r) : t[i] = r[i]
        /\ \A i \in 1..Len(last) : t[Len(r) + i] = last[i]
    BY <1>7, <1>8, JoinSteps
  <2>3. Len(r) = 11 /\ Len(last) = 1
    BY <1>7, <1>8
  <2>. HIDE DEF t
  <2>2. /\ t \in Seq(Operations) /\ Len(t) = 11 + 1 /\ \A i \in 1..11 : t[i] = r[i]
        /\ \A i \in 1..1 : t[11 + i] = last[i]
    BY <2>0, <2>3
  <2>4. t[11 + 1] = last[1]
    BY <2>1, <2>2
  <2>. QED  BY <2>1, <2>2, <2>4
<1>. HIDE DEF t
<1>10. ASSUME NEW i \in 1..12 PROVE t[i].do = PilotList[i] /\ t[i].seed = 0
  <2>1. i \in 1..10 \/ i = 11 \/ i = 12
    OBVIOUS
  <2>2. CASE i \in 1..10
    <3>1. i \in 1..11
      BY <2>2
    <3>2. t[i].do = u[i] /\ t[i].seed = 0
      BY <1>5, <1>8, <1>9, <2>2, <3>1
    <3>. QED  BY <1>3, <2>2, <3>2
  <2>3. CASE i = 11
    <3>1. 11 \in 1..11
      OBVIOUS
    <3>2. t[11] = Exit[1]
      BY <1>8, <1>9, <3>1
    <3>. QED  BY <1>11, <2>3, <3>2, PilotListIs
  <2>4. CASE i = 12
    <3>1. t[12] = last[1]
      BY <1>9
    <3>. QED  BY <1>12, <2>4, <3>1, PilotListIs
  <2>. QED  BY <2>1, <2>2, <2>3, <2>4
<1>. QED  BY <1>1, <1>9, <1>10 DEF t, r
-----------------------------------------------------------------------------
(* The inductive invariant.                                                *)

CopyRecords == [vector : SUBSET Nat, cache : SUBSET Nat, key : SUBSET Nat, fit : SUBSET Nat]
AuditRecords ==
  [seed : Nat, via : Vias, target : Nat, stores : CopyRecords,
   verdict : {"COMPLETE", "INCOMPLETE"}, retained : Int]

StudyTypes ==
  /\ study \in Studies
  /\ script \in Seq(Operations)
  /\ outcome \in {"running", "raised", "killed", "done"} /\ raising \in BOOLEAN /\ inside \in BOOLEAN
  /\ copies \in [Strategies \union {PilotCopy} -> CopyRecords]
  /\ rows \in SUBSET Nat /\ retained \in SUBSET Nat
  /\ records \in Seq(AuditRecords)

\* The script the process was started with, and how many operations it has made.
Whole == Scripts[study]
Place == Len(Whole) - Len(script)
OnScript == ~ raising /\ outcome \in {"running", "done"}
Untouched == rows = {} /\ dirs = {} /\ records = <<>>
Stopped == hosts \subseteq {"qdrant"}

\* The process is somewhere in its script, or in the clean-up.
ScriptInv ==
  /\ Place \in 0..Len(Whole)
  /\ OnScript => \A i \in 1..Len(script) : script[i] = Whole[Place + i]
  /\ outcome \in {"done", "raised"} => script = <<>>
  /\ outcome = "done" => ~ raising
  /\ outcome = "raised" => raising
  /\ raising => script \in {<<>>, Exit}
  /\ raising /\ script = Exit => inside
  /\ raising /\ script = <<>> =>
       Stopped \/ Untouched \/ (study.program = "pilot" /\ inside)

\* Between the operations lo and mid of a trial x is before, and until the last
\* audit it is after.
Turns(k, lo, mid, x, before, after) ==
  (k \in lo..mid => x = before) /\ (k \in (mid + 1)..23 => x = after)

\* What the stores hold after k operations of a trial.
SourceFacts(k, target) ==
  LET others == People \ {target}
  IN  Turns(k, 1, 10, rows, People, others) /\ Turns(k, 12, 22, retained, others, others)

\* a operations of the trial come before the targeted remediation.
TargetedFacts(k, a, target) ==
  LET copy == copies[Targeted]
      others == People \ {target}
  IN  /\ Turns(k, 3, a, copy.vector, People, others)
      /\ Turns(k, 4, a + 1, copy.cache, People, others)
      /\ Turns(k, 5, a + 2, copy.key, People, others)
      /\ Turns(k, 6, a + 3, copy.fit, People, others)

\* b operations of the trial come before the rebuild.
RebuildFacts(k, b, target) ==
  LET copy == copies[RebuildAll]
      others == People \ {target}
  IN  /\ Turns(k, b + 1, b + 1, copy.vector, {}, others)
      /\ Turns(k, 8, b + 2, copy.cache, People, others)
      /\ Turns(k, 9, b + 3, copy.key, People, others)
      /\ Turns(k, b + 5, 22, copy.fit, others, others)

BeforeTargeted(seed) == IF seed % 2 = 1 THEN 12 ELSE 18
BeforeRebuild(seed) == IF seed % 2 = 1 THEN 17 ELSE 12

TrialFacts(k, seed) ==
  /\ SourceFacts(k, Target(seed))
  /\ TargetedFacts(k, BeforeTargeted(seed), Target(seed))
  /\ RebuildFacts(k, BeforeRebuild(seed), Target(seed))

TrialsInv ==
  \A b \in 0..Place : \A seed \in Nat :
    TrialAt(Whole, b, seed) /\ Place <= b + 25 => TrialFacts(Place - b, seed)

OthersOf(target) ==
  [vector |-> People \ {target}, cache |-> People \ {target}, key |-> People \ {target},
   fit |-> People \ {target}]

StudyRecord(r) ==
  /\ r.target = Target(r.seed) /\ r.stores = OthersOf(r.target)
  /\ r.verdict = "COMPLETE" /\ r.retained = study.people - 1

AuditsInv ==
  \A q \in 1..Place : Whole[q].do = "audit" =>
    \E j \in DOMAIN records : records[j].seed = Whole[q].seed /\ records[j].via = Whole[q].via

StudyOutput == left # {} \/ hosts # {} => output # "none"

StudyPlace ==
  OnScript =>
    /\ Place >= 2 => output # "none"
    /\ Place >= 1 => left = {}
    /\ Place <= 5 => ~ inside /\ Untouched
    /\ Place >= 6 => inside \/ Stopped
    /\ inside => \E q \in (Place + 1)..Len(Whole) : Whole[q].do = "stop"

StudyInv ==
  study.program = "study" =>
    /\ \A i \in DOMAIN records : StudyRecord(records[i])
    /\ StudyOutput /\ StudyPlace
    /\ OnScript => AuditsInv /\ TrialsInv

PilotRecord(r) ==
  /\ r.target = 0
  /\ r.verdict = "COMPLETE" =>
       0 \notin r.stores.vector \union r.stores.cache \union r.stores.key \union r.stores.fit

PilotPlace ==
  OnScript =>
    /\ Place <= 2 => ~ inside
    /\ Place <= 3 => Untouched
    /\ Place \in 3..10 => inside
    /\ Place \in 11..12 => Stopped /\ ~ inside
    /\ Place \in 4..6 => records = <<>>
    /\ Place \in 4..5 => rows = {0}
    /\ Place \in 4..7 => copies[PilotCopy].vector = {0}
    /\ Place \in 8..12 => copies[PilotCopy].vector = {}
    /\ Place \in 5..8 => copies[PilotCopy].key = {0}
    /\ Place \in 9..12 => copies[PilotCopy].key = {}
    /\ Place \in 7..9 => Len(records) = 1
    /\ Place \in 7..12 => records[1].verdict = "INCOMPLETE"
    /\ Place \in 10..12 => Len(records) = 2 /\ records[2].verdict = "COMPLETE"

PilotInv ==
  study.program # "study" =>
    /\ copies[PilotCopy].cache = {} /\ copies[PilotCopy].fit = {}
    /\ \A i \in DOMAIN records : PilotRecord(records[i])
    /\ PilotPlace

ResultInv ==
  /\ selected \in {{}, Components, {"rebuild-all"}}
  /\ result # <<>> =>
       \/ result = <<"measured">>
       \/ /\ study.program = "study" /\ ~ study.only
          /\ result[1] \in {"PASS", "FAIL"}
          /\ result[1] = "FAIL" => ~ (result[2].faster /\ result[2].smaller)

StudyIInv == StudyTypes /\ ScriptInv /\ StudyInv /\ PilotInv /\ ResultInv

-----------------------------------------------------------------------------
(* One operation of a trial.                                               *)

LEMMA TrialOp ==
  ASSUME NEW seed \in Nat, NEW i \in 1..25
  PROVE  /\ RunTrial(seed)[i].seed = seed
         /\ seed % 2 = 1 => /\ RunTrial(seed)[i].do = TargetedFirstVerbs[i]
                            /\ RunTrial(seed)[i].via = TargetedFirstVias[i]
         /\ seed % 2 # 1 => /\ RunTrial(seed)[i].do = RebuildFirstVerbs[i]
                            /\ RunTrial(seed)[i].via = RebuildFirstVias[i]
         /\ RunTrial(seed)[i].do \in TrialVerbs
<1>. DEFINE v == IF seed % 2 = 1 THEN TargetedFirstVerbs[i] ELSE RebuildFirstVerbs[i]
            w == IF seed % 2 = 1 THEN TargetedFirstVias[i] ELSE RebuildFirstVias[i]
            op == RunTrial(seed)[i]
<1>1. op = [do |-> v, seed |-> seed, via |-> w]
  BY TrialIs
<1>2. op.do = v /\ op.seed = seed /\ op.via = w
  <2>. HIDE DEF op, v, w
  <2>. QED  BY <1>1, Fields
<1>3. v \in TrialVerbs
  BY TrialVerbIs
<1>4. seed % 2 = 1 => v = TargetedFirstVerbs[i] /\ w = TargetedFirstVias[i]
  OBVIOUS
<1>5. seed % 2 # 1 => v = RebuildFirstVerbs[i] /\ w = RebuildFirstVias[i]
  OBVIOUS
<1>. HIDE DEF v, w, op
<1>6. /\ op.seed = seed
      /\ seed % 2 = 1 => op.do = TargetedFirstVerbs[i] /\ op.via = TargetedFirstVias[i]
      /\ seed % 2 # 1 => op.do = RebuildFirstVerbs[i] /\ op.via = RebuildFirstVias[i]
      /\ op.do \in TrialVerbs
  BY <1>2, <1>3, <1>4, <1>5
<1>. QED  BY <1>6 DEF op

\* The place of every verb, and the strategy it works for.
VerbAt(i, a, b, v, via) ==
  /\ v = "load" => i = 1
  /\ v = "mkdir trial" => i = 2
  /\ v = "set vector" => (i = 3 /\ via = Targeted) \/ (i = 7 /\ via = RebuildAll)
  /\ v = "set cache" => (i = 4 /\ via = Targeted) \/ (i = 8 /\ via = RebuildAll)
  /\ v = "set backups" => (i = 5 /\ via = Targeted) \/ (i = 9 /\ via = RebuildAll)
  /\ v = "set model" => (i = 6 /\ via = Targeted) \/ (i = 10 /\ via = RebuildAll)
  /\ v = "delete source" => i = 11
  /\ v = "read retained" => i = 12
  /\ v = "delete point" => i = a + 1
  /\ v = "delete entry" => i = a + 2
  /\ v = "unlink key" => i = a + 3
  /\ v = "subtract" => i = a + 4
  /\ v = "drop collection" => i = b + 1
  /\ v = "fill collection" => i = b + 2
  /\ v = "refill cache" => i = b + 3
  /\ v = "restage backups" => i = b + 4
  /\ v = "refit" => i = b + 5
  /\ v = "audit" => (i = a + 5 /\ via = Targeted) \/ (i = b + 6 /\ via = RebuildAll)
  /\ v = "clear" => (i = 24 /\ via = Targeted) \/ (i = 25 /\ via = RebuildAll)

LEMMA TargetedFirstPlaces ==
  ASSUME NEW i \in 1..25, NEW v, NEW via, v = TargetedFirstVerbs[i], via = TargetedFirstVias[i]
  PROVE  VerbAt(i, 12, 17, v, via)
<1>0. \/ i = 1 \/ i = 2 \/ i = 3 \/ i = 4 \/ i = 5 \/ i = 6 \/ i = 7 \/ i = 8 \/ i = 9 \/ i = 10
      \/ i = 11 \/ i = 12 \/ i = 13 \/ i = 14 \/ i = 15 \/ i = 16 \/ i = 17 \/ i = 18 \/ i = 19
      \/ i = 20 \/ i = 21 \/ i = 22 \/ i = 23 \/ i = 24 \/ i = 25
  OBVIOUS
<1>1. CASE i = 1
  <2>1. v = "load"
    BY <1>1, TargetedFirstIs
  <2>. QED  BY <1>1, <2>1 DEF VerbAt
<1>2. CASE i = 2
  <2>1. v = "mkdir trial"
    BY <1>2, TargetedFirstIs
  <2>. QED  BY <1>2, <2>1 DEF VerbAt
<1>3. CASE i = 3
  <2>1. v = "set vector" /\ via = Targeted
    BY <1>3, TargetedFirstIs
  <2>. QED  BY <1>3, <2>1 DEF VerbAt
<1>4. CASE i = 4
  <2>1. v = "set cache" /\ via = Targeted
    BY <1>4, TargetedFirstIs
  <2>. QED  BY <1>4, <2>1 DEF VerbAt
<1>5. CASE i = 5
  <2>1. v = "set backups" /\ via = Targeted
    BY <1>5, TargetedFirstIs
  <2>. QED  BY <1>5, <2>1 DEF VerbAt
<1>6. CASE i = 6
  <2>1. v = "set model" /\ via = Targeted
    BY <1>6, TargetedFirstIs
  <2>. QED  BY <1>6, <2>1 DEF VerbAt
<1>7. CASE i = 7
  <2>1. v = "set vector" /\ via = RebuildAll
    BY <1>7, TargetedFirstIs
  <2>. QED  BY <1>7, <2>1 DEF VerbAt
<1>8. CASE i = 8
  <2>1. v = "set cache" /\ via = RebuildAll
    BY <1>8, TargetedFirstIs
  <2>. QED  BY <1>8, <2>1 DEF VerbAt
<1>9. CASE i = 9
  <2>1. v = "set backups" /\ via = RebuildAll
    BY <1>9, TargetedFirstIs
  <2>. QED  BY <1>9, <2>1 DEF VerbAt
<1>10. CASE i = 10
  <2>1. v = "set model" /\ via = RebuildAll
    BY <1>10, TargetedFirstIs
  <2>. QED  BY <1>10, <2>1 DEF VerbAt
<1>11. CASE i = 11
  <2>1. v = "delete source"
    BY <1>11, TargetedFirstIs
  <2>. QED  BY <1>11, <2>1 DEF VerbAt
<1>12. CASE i = 12
  <2>1. v = "read retained"
    BY <1>12, TargetedFirstIs
  <2>. QED  BY <1>12, <2>1 DEF VerbAt
<1>13. CASE i = 13
  <2>1. v = "delete point" /\ via = Targeted
    BY <1>13, TargetedFirstIs
  <2>2. 12 + 1 = 13
    OBVIOUS
  <2>. QED  BY <1>13, <2>1, <2>2 DEF VerbAt
<1>14. CASE i = 14
  <2>1. v = "delete entry" /\ via = Targeted
    BY <1>14, TargetedFirstIs
  <2>2. 12 + 2 = 14
    OBVIOUS
  <2>. QED  BY <1>14, <2>1, <2>2 DEF VerbAt
<1>15. CASE i = 15
  <2>1. v = "unlink key" /\ via = Targeted
    BY <1>15, TargetedFirstIs
  <2>2. 12 + 3 = 15
    OBVIOUS
  <2>. QED  BY <1>15, <2>1, <2>2 DEF VerbAt
<1>16. CASE i = 16
  <2>1. v = "subtract" /\ via = Targeted
    BY <1>16, TargetedFirstIs
  <2>2. 12 + 4 = 16
    OBVIOUS
  <2>. QED  BY <1>16, <2>1, <2>2 DEF VerbAt
<1>17. CASE i = 17
  <2>1. v = "audit" /\ via = Targeted
    BY <1>17, TargetedFirstIs
  <2>2. 12 + 5 = 17
    OBVIOUS
  <2>. QED  BY <1>17, <2>1, <2>2 DEF VerbAt
<1>18. CASE i = 18
  <2>1. v = "drop collection" /\ via = RebuildAll
    BY <1>18, TargetedFirstIs
  <2>2. 17 + 1 = 18
    OBVIOUS
  <2>. QED  BY <1>18, <2>1, <2>2 DEF VerbAt
<1>19. CASE i = 19
  <2>1. v = "fill collection" /\ via = RebuildAll
    BY <1>19, TargetedFirstIs
  <2>2. 17 + 2 = 19
    OBVIOUS
  <2>. QED  BY <1>19, <2>1, <2>2 DEF VerbAt
<1>20. CASE i = 20
  <2>1. v = "refill cache" /\ via = RebuildAll
    BY <1>20, TargetedFirstIs
  <2>2. 17 + 3 = 20
    OBVIOUS
  <2>. QED  BY <1>20, <2>1, <2>2 DEF VerbAt
<1>21. CASE i = 21
  <2>1. v = "restage backups" /\ via = RebuildAll
    BY <1>21, TargetedFirstIs
  <2>2. 17 + 4 = 21
    OBVIOUS
  <2>. QED  BY <1>21, <2>1, <2>2 DEF VerbAt
<1>22. CASE i = 22
  <2>1. v = "refit" /\ via = RebuildAll
    BY <1>22, TargetedFirstIs
  <2>2. 17 + 5 = 22
    OBVIOUS
  <2>. QED  BY <1>22, <2>1, <2>2 DEF VerbAt
<1>23. CASE i = 23
  <2>1. v = "audit" /\ via = RebuildAll
    BY <1>23, TargetedFirstIs
  <2>2. 17 + 6 = 23
    OBVIOUS
  <2>. QED  BY <1>23, <2>1, <2>2 DEF VerbAt
<1>24. CASE i = 24
  <2>1. v = "clear" /\ via = Targeted
    BY <1>24, TargetedFirstIs
  <2>. QED  BY <1>24, <2>1 DEF VerbAt
<1>25. CASE i = 25
  <2>1. v = "clear" /\ via = RebuildAll
    BY <1>25, TargetedFirstIs
  <2>. QED  BY <1>25, <2>1 DEF VerbAt
<1>. QED
  BY <1>0, <1>1, <1>2, <1>3, <1>4, <1>5, <1>6, <1>7, <1>8, <1>9, <1>10, <1>11, <1>12, <1>13,
     <1>14, <1>15, <1>16, <1>17, <1>18, <1>19, <1>20, <1>21, <1>22, <1>23, <1>24, <1>25

LEMMA RebuildFirstPlaces ==
  ASSUME NEW i \in 1..25, NEW v, NEW via, v = RebuildFirstVerbs[i], via = RebuildFirstVias[i]
  PROVE  VerbAt(i, 18, 12, v, via)
<1>0. \/ i = 1 \/ i = 2 \/ i = 3 \/ i = 4 \/ i = 5 \/ i = 6 \/ i = 7 \/ i = 8 \/ i = 9 \/ i = 10
      \/ i = 11 \/ i = 12 \/ i = 13 \/ i = 14 \/ i = 15 \/ i = 16 \/ i = 17 \/ i = 18 \/ i = 19
      \/ i = 20 \/ i = 21 \/ i = 22 \/ i = 23 \/ i = 24 \/ i = 25
  OBVIOUS
<1>1. CASE i = 1
  <2>1. v = "load"
    BY <1>1, RebuildFirstIs
  <2>. QED  BY <1>1, <2>1 DEF VerbAt
<1>2. CASE i = 2
  <2>1. v = "mkdir trial"
    BY <1>2, RebuildFirstIs
  <2>. QED  BY <1>2, <2>1 DEF VerbAt
<1>3. CASE i = 3
  <2>1. v = "set vector" /\ via = Targeted
    BY <1>3, RebuildFirstIs
  <2>. QED  BY <1>3, <2>1 DEF VerbAt
<1>4. CASE i = 4
  <2>1. v = "set cache" /\ via = Targeted
    BY <1>4, RebuildFirstIs
  <2>. QED  BY <1>4, <2>1 DEF VerbAt
<1>5. CASE i = 5
  <2>1. v = "set backups" /\ via = Targeted
    BY <1>5, RebuildFirstIs
  <2>. QED  BY <1>5, <2>1 DEF VerbAt
<1>6. CASE i = 6
  <2>1. v = "set model" /\ via = Targeted
    BY <1>6, RebuildFirstIs
  <2>. QED  BY <1>6, <2>1 DEF VerbAt
<1>7. CASE i = 7
  <2>1. v = "set vector" /\ via = RebuildAll
    BY <1>7, RebuildFirstIs
  <2>. QED  BY <1>7, <2>1 DEF VerbAt
<1>8. CASE i = 8
  <2>1. v = "set cache" /\ via = RebuildAll
    BY <1>8, RebuildFirstIs
  <2>. QED  BY <1>8, <2>1 DEF VerbAt
<1>9. CASE i = 9
  <2>1. v = "set backups" /\ via = RebuildAll
    BY <1>9, RebuildFirstIs
  <2>. QED  BY <1>9, <2>1 DEF VerbAt
<1>10. CASE i = 10
  <2>1. v = "set model" /\ via = RebuildAll
    BY <1>10, RebuildFirstIs
  <2>. QED  BY <1>10, <2>1 DEF VerbAt
<1>11. CASE i = 11
  <2>1. v = "delete source"
    BY <1>11, RebuildFirstIs
  <2>. QED  BY <1>11, <2>1 DEF VerbAt
<1>12. CASE i = 12
  <2>1. v = "read retained"
    BY <1>12, RebuildFirstIs
  <2>. QED  BY <1>12, <2>1 DEF VerbAt
<1>13. CASE i = 13
  <2>1. v = "drop collection" /\ via = RebuildAll
    BY <1>13, RebuildFirstIs
  <2>2. 12 + 1 = 13
    OBVIOUS
  <2>. QED  BY <1>13, <2>1, <2>2 DEF VerbAt
<1>14. CASE i = 14
  <2>1. v = "fill collection" /\ via = RebuildAll
    BY <1>14, RebuildFirstIs
  <2>2. 12 + 2 = 14
    OBVIOUS
  <2>. QED  BY <1>14, <2>1, <2>2 DEF VerbAt
<1>15. CASE i = 15
  <2>1. v = "refill cache" /\ via = RebuildAll
    BY <1>15, RebuildFirstIs
  <2>2. 12 + 3 = 15
    OBVIOUS
  <2>. QED  BY <1>15, <2>1, <2>2 DEF VerbAt
<1>16. CASE i = 16
  <2>1. v = "restage backups" /\ via = RebuildAll
    BY <1>16, RebuildFirstIs
  <2>2. 12 + 4 = 16
    OBVIOUS
  <2>. QED  BY <1>16, <2>1, <2>2 DEF VerbAt
<1>17. CASE i = 17
  <2>1. v = "refit" /\ via = RebuildAll
    BY <1>17, RebuildFirstIs
  <2>2. 12 + 5 = 17
    OBVIOUS
  <2>. QED  BY <1>17, <2>1, <2>2 DEF VerbAt
<1>18. CASE i = 18
  <2>1. v = "audit" /\ via = RebuildAll
    BY <1>18, RebuildFirstIs
  <2>2. 12 + 6 = 18
    OBVIOUS
  <2>. QED  BY <1>18, <2>1, <2>2 DEF VerbAt
<1>19. CASE i = 19
  <2>1. v = "delete point" /\ via = Targeted
    BY <1>19, RebuildFirstIs
  <2>2. 18 + 1 = 19
    OBVIOUS
  <2>. QED  BY <1>19, <2>1, <2>2 DEF VerbAt
<1>20. CASE i = 20
  <2>1. v = "delete entry" /\ via = Targeted
    BY <1>20, RebuildFirstIs
  <2>2. 18 + 2 = 20
    OBVIOUS
  <2>. QED  BY <1>20, <2>1, <2>2 DEF VerbAt
<1>21. CASE i = 21
  <2>1. v = "unlink key" /\ via = Targeted
    BY <1>21, RebuildFirstIs
  <2>2. 18 + 3 = 21
    OBVIOUS
  <2>. QED  BY <1>21, <2>1, <2>2 DEF VerbAt
<1>22. CASE i = 22
  <2>1. v = "subtract" /\ via = Targeted
    BY <1>22, RebuildFirstIs
  <2>2. 18 + 4 = 22
    OBVIOUS
  <2>. QED  BY <1>22, <2>1, <2>2 DEF VerbAt
<1>23. CASE i = 23
  <2>1. v = "audit" /\ via = Targeted
    BY <1>23, RebuildFirstIs
  <2>2. 18 + 5 = 23
    OBVIOUS
  <2>. QED  BY <1>23, <2>1, <2>2 DEF VerbAt
<1>24. CASE i = 24
  <2>1. v = "clear" /\ via = Targeted
    BY <1>24, RebuildFirstIs
  <2>. QED  BY <1>24, <2>1 DEF VerbAt
<1>25. CASE i = 25
  <2>1. v = "clear" /\ via = RebuildAll
    BY <1>25, RebuildFirstIs
  <2>. QED  BY <1>25, <2>1 DEF VerbAt
<1>. QED
  BY <1>0, <1>1, <1>2, <1>3, <1>4, <1>5, <1>6, <1>7, <1>8, <1>9, <1>10, <1>11, <1>12, <1>13,
     <1>14, <1>15, <1>16, <1>17, <1>18, <1>19, <1>20, <1>21, <1>22, <1>23, <1>24, <1>25

LEMMA OperationPlaces ==
  ASSUME NEW seed \in Nat, NEW i \in 1..25
  PROVE  /\ VerbAt(i, BeforeTargeted(seed), BeforeRebuild(seed),
                   RunTrial(seed)[i].do, RunTrial(seed)[i].via)
         /\ RunTrial(seed)[i].seed = seed /\ RunTrial(seed)[i].do \in TrialVerbs
<1>1. CASE seed % 2 = 1
  <2>1. BeforeTargeted(seed) = 12 /\ BeforeRebuild(seed) = 17
    BY <1>1 DEF BeforeTargeted, BeforeRebuild
  <2>. QED  BY <1>1, <2>1, TrialOp, TargetedFirstPlaces
<1>2. CASE seed % 2 # 1
  <2>1. BeforeTargeted(seed) = 18 /\ BeforeRebuild(seed) = 12
    BY <1>2 DEF BeforeTargeted, BeforeRebuild
  <2>. QED  BY <1>2, <2>1, TrialOp, RebuildFirstPlaces
<1>. QED  BY <1>1, <1>2

LEMMA Orders ==
  ASSUME NEW seed \in Nat
  PROVE  \/ BeforeTargeted(seed) = 12 /\ BeforeRebuild(seed) = 17
         \/ BeforeTargeted(seed) = 18 /\ BeforeRebuild(seed) = 12
BY DEF BeforeTargeted, BeforeRebuild

\* What operation i does to x, so that it turns.
Moves(i, lo, mid, x, y, before, after) ==
  /\ i = lo => y = before
  /\ i = mid + 1 /\ x = before => y = after
  /\ i > lo /\ i # mid + 1 /\ i <= 23 => y = x

LEMMA TurnMoves ==
  ASSUME NEW k \in Nat, NEW lo \in Nat, NEW mid \in Nat, lo <= mid, mid <= 23,
         NEW x, NEW y, NEW before, NEW after,
         Turns(k, lo, mid, x, before, after), Moves(k + 1, lo, mid, x, y, before, after)
  PROVE  Turns(k + 1, lo, mid, y, before, after)
<1>1. ASSUME k + 1 \in lo..mid PROVE y = before
  <2>1. k + 1 = lo \/ (k \in lo..mid /\ k + 1 > lo /\ k + 1 # mid + 1)
    BY <1>1
  <2>2. CASE k + 1 = lo
    BY <2>2 DEF Moves
  <2>3. CASE k \in lo..mid /\ k + 1 > lo /\ k + 1 # mid + 1
    <3>1. x = before
      BY <2>3 DEF Turns
    <3>2. CASE k + 1 <= 23
      BY <2>3, <3>1, <3>2 DEF Moves
    <3>3. CASE ~ (k + 1 <= 23)
      BY <1>1, <3>3
    <3>. QED  BY <3>2, <3>3
  <2>. QED  BY <2>1, <2>2, <2>3
<1>2. ASSUME k + 1 \in (mid + 1)..23 PROVE y = after
  <2>1. \/ k + 1 = mid + 1 /\ k \in lo..mid
        \/ k \in (mid + 1)..23 /\ k + 1 > lo /\ k + 1 # mid + 1 /\ k + 1 <= 23
    BY <1>2
  <2>. QED  BY <2>1 DEF Turns, Moves
<1>. QED  BY <1>1, <1>2 DEF Turns

SourceMoves(i, target) ==
  LET others == People \ {target}
  IN  Moves(i, 1, 10, rows, rows', People, others)
        /\ Moves(i, 12, 22, retained, retained', others, others)

TargetedMoves(i, a, target) ==
  LET copy == copies[Targeted]
      next == copies'[Targeted]
      others == People \ {target}
  IN  /\ Moves(i, 3, a, copy.vector, next.vector, People, others)
      /\ Moves(i, 4, a + 1, copy.cache, next.cache, People, others)
      /\ Moves(i, 5, a + 2, copy.key, next.key, People, others)
      /\ Moves(i, 6, a + 3, copy.fit, next.fit, People, others)

RebuildMoves(i, b, target) ==
  LET copy == copies[RebuildAll]
      next == copies'[RebuildAll]
      others == People \ {target}
  IN  /\ Moves(i, b + 1, b + 1, copy.vector, next.vector, {}, others)
      /\ Moves(i, 8, b + 2, copy.cache, next.cache, People, others)
      /\ Moves(i, 9, b + 3, copy.key, next.key, People, others)
      /\ Moves(i, b + 5, 22, copy.fit, next.fit, others, others)

TrialMoves(i, seed) ==
  /\ SourceMoves(i, Target(seed))
  /\ TargetedMoves(i, BeforeTargeted(seed), Target(seed))
  /\ RebuildMoves(i, BeforeRebuild(seed), Target(seed))

LEMMA TrialTurns ==
  ASSUME NEW k \in 0..24, NEW seed \in Nat, TrialFacts(k, seed), TrialMoves(k + 1, seed),
         study' = study
  PROVE  TrialFacts(k + 1, seed)'
<1>. DEFINE a == BeforeTargeted(seed)
            b == BeforeRebuild(seed)
<1>0. PICK t : t = Target(seed)
  OBVIOUS
<1>1. People' = People /\ Target(seed)' = t
  BY <1>0 DEF People, Target
<1>2. PICK p : p = People
  OBVIOUS
<1>3. (a = 12 /\ b = 17) \/ (a = 18 /\ b = 12)
  BY Orders
<1>. HIDE DEF a, b
<1>4. k \in Nat
  OBVIOUS
<1>5. SourceFacts(k + 1, Target(seed))'
  <2>0. /\ Turns(k, 1, 10, rows, p, p \ {t}) /\ Turns(k, 12, 22, retained, p \ {t}, p \ {t})
        /\ Moves(k + 1, 1, 10, rows, rows', p, p \ {t})
        /\ Moves(k + 1, 12, 22, retained, retained', p \ {t}, p \ {t})
    BY <1>0, <1>2 DEF TrialFacts, SourceFacts, TrialMoves, SourceMoves
  <2>1. Turns(k + 1, 1, 10, rows', p, p \ {t})
    BY <1>4, <2>0, TurnMoves
  <2>2. Turns(k + 1, 12, 22, retained', p \ {t}, p \ {t})
    BY <1>4, <2>0, TurnMoves
  <2>. QED  BY <1>0, <1>1, <1>2, <2>1, <2>2 DEF SourceFacts, Turns
<1>6. TargetedFacts(k + 1, BeforeTargeted(seed), Target(seed))'
  <2>. DEFINE c == copies[Targeted]
              n == copies'[Targeted]
  <2>0. /\ Turns(k, 3, a, c.vector, p, p \ {t}) /\ Turns(k, 4, a + 1, c.cache, p, p \ {t})
        /\ Turns(k, 5, a + 2, c.key, p, p \ {t}) /\ Turns(k, 6, a + 3, c.fit, p, p \ {t})
    BY <1>0, <1>2 DEF TrialFacts, TargetedFacts, a
  <2>1. /\ Moves(k + 1, 3, a, c.vector, n.vector, p, p \ {t})
        /\ Moves(k + 1, 4, a + 1, c.cache, n.cache, p, p \ {t})
        /\ Moves(k + 1, 5, a + 2, c.key, n.key, p, p \ {t})
        /\ Moves(k + 1, 6, a + 3, c.fit, n.fit, p, p \ {t})
    BY <1>0, <1>2 DEF TrialMoves, TargetedMoves, a
  <2>. HIDE DEF c, n
  <2>2. /\ a \in Nat /\ 3 <= a /\ a <= 23 /\ a + 1 \in Nat /\ 4 <= a + 1 /\ a + 1 <= 23
        /\ a + 2 \in Nat /\ 5 <= a + 2 /\ a + 2 <= 23 /\ a + 3 \in Nat /\ 6 <= a + 3 /\ a + 3 <= 23
    BY <1>3
  <2>3. Turns(k + 1, 3, a, n.vector, p, p \ {t})
    BY <1>4, <2>0, <2>1, <2>2, TurnMoves
  <2>4. Turns(k + 1, 4, a + 1, n.cache, p, p \ {t})
    BY <1>4, <2>0, <2>1, <2>2, TurnMoves
  <2>5. Turns(k + 1, 5, a + 2, n.key, p, p \ {t})
    BY <1>4, <2>0, <2>1, <2>2, TurnMoves
  <2>6. Turns(k + 1, 6, a + 3, n.fit, p, p \ {t})
    BY <1>4, <2>0, <2>1, <2>2, TurnMoves
  <2>7. BeforeTargeted(seed)' = a /\ copies[Targeted]' = n
    BY DEF BeforeTargeted, a, n, Targeted
  <2>. QED  BY <1>0, <1>1, <1>2, <2>3, <2>4, <2>5, <2>6, <2>7 DEF TargetedFacts, Turns
<1>7. RebuildFacts(k + 1, BeforeRebuild(seed), Target(seed))'
  <2>. DEFINE c == copies[RebuildAll]
              n == copies'[RebuildAll]
  <2>0. /\ Turns(k, b + 1, b + 1, c.vector, {}, p \ {t}) /\ Turns(k, 8, b + 2, c.cache, p, p \ {t})
        /\ Turns(k, 9, b + 3, c.key, p, p \ {t}) /\ Turns(k, b + 5, 22, c.fit, p \ {t}, p \ {t})
    BY <1>0, <1>2 DEF TrialFacts, RebuildFacts, b
  <2>1. /\ Moves(k + 1, b + 1, b + 1, c.vector, n.vector, {}, p \ {t})
        /\ Moves(k + 1, 8, b + 2, c.cache, n.cache, p, p \ {t})
        /\ Moves(k + 1, 9, b + 3, c.key, n.key, p, p \ {t})
        /\ Moves(k + 1, b + 5, 22, c.fit, n.fit, p \ {t}, p \ {t})
    BY <1>0, <1>2 DEF TrialMoves, RebuildMoves, b
  <2>. HIDE DEF c, n
  <2>2. /\ b + 1 \in Nat /\ b + 1 <= b + 1 /\ b + 1 <= 23 /\ b + 2 \in Nat /\ 8 <= b + 2 /\ b + 2 <= 23
        /\ b + 3 \in Nat /\ 9 <= b + 3 /\ b + 3 <= 23 /\ b + 5 \in Nat /\ b + 5 <= 22
    BY <1>3
  <2>3. Turns(k + 1, b + 1, b + 1, n.vector, {}, p \ {t})
    BY <1>4, <2>0, <2>1, <2>2, TurnMoves
  <2>4. Turns(k + 1, 8, b + 2, n.cache, p, p \ {t})
    BY <1>4, <2>0, <2>1, <2>2, TurnMoves
  <2>5. Turns(k + 1, 9, b + 3, n.key, p, p \ {t})
    BY <1>4, <2>0, <2>1, <2>2, TurnMoves
  <2>6. Turns(k + 1, b + 5, 22, n.fit, p \ {t}, p \ {t})
    BY <1>4, <2>0, <2>1, <2>2, TurnMoves
  <2>7. BeforeRebuild(seed)' = b /\ copies[RebuildAll]' = n
    BY DEF BeforeRebuild, b, n, RebuildAll
  <2>. QED  BY <1>0, <1>1, <1>2, <2>3, <2>4, <2>5, <2>6, <2>7 DEF RebuildFacts, Turns
<1>. QED  BY <1>5, <1>6, <1>7 DEF TrialFacts

-----------------------------------------------------------------------------
(* Every operation of a trial turns what it has to.                        *)

LEMMA SourceStill ==
  ASSUME NEW i \in 1..25, i # 1, i # 11, i # 12, NEW t, rows' = rows, retained' = retained
  PROVE  SourceMoves(i, t)
BY DEF SourceMoves, Moves

LEMMA TargetedStill ==
  ASSUME NEW i \in 1..25, NEW a \in {12, 18}, i \notin 3..6, i \notin (a + 1)..(a + 4), NEW t,
         copies'[Targeted] = copies[Targeted]
  PROVE  TargetedMoves(i, a, t)
BY DEF TargetedMoves, Moves

LEMMA RebuildStill ==
  ASSUME NEW i \in 1..25, NEW b \in {12, 17}, i \notin 8..9, i \notin (b + 1)..(b + 5), NEW t,
         copies'[RebuildAll] = copies[RebuildAll]
  PROVE  RebuildMoves(i, b, t)
BY DEF RebuildMoves, Moves

LEMMA OperationHere ==
  ASSUME NEW seed \in Nat, NEW i \in 1..25, Next1 = RunTrial(seed)[i]
  PROVE  /\ VerbAt(i, BeforeTargeted(seed), BeforeRebuild(seed), Next1.do, Next1.via)
         /\ Next1.seed = seed /\ Next1.do \in TrialVerbs
         /\ BeforeTargeted(seed) \in {12, 18} /\ BeforeRebuild(seed) \in {12, 17}
         /\ \/ BeforeTargeted(seed) = 12 /\ BeforeRebuild(seed) = 17
            \/ BeforeTargeted(seed) = 18 /\ BeforeRebuild(seed) = 12
<1>1. VerbAt(i, BeforeTargeted(seed), BeforeRebuild(seed), Next1.do, Next1.via)
  BY OperationPlaces
<1>2. Next1.seed = seed /\ Next1.do \in TrialVerbs
  BY OperationPlaces
<1>. QED  BY <1>1, <1>2, Orders

LEMMA LoadMoves ==
  ASSUME NEW seed \in Nat, NEW i \in 1..25, Next1 = RunTrial(seed)[i],
         LoadSource
  PROVE  TrialMoves(i, seed)
<1>. DEFINE a == BeforeTargeted(seed)
            b == BeforeRebuild(seed)
<1>1. Next1.do = "load" /\ rows' = People /\ copies' = copies /\ retained' = retained
  BY DEF LoadSource, OnSource, OnStores, Step, findings
<1>2. VerbAt(i, a, b, Next1.do, Next1.via) /\ Next1.seed = seed
  BY OperationHere
<1>3. (a = 12 /\ b = 17) \/ (a = 18 /\ b = 12)
  BY Orders
<1>. HIDE DEF a, b
<1>4. i = 1
  BY <1>1, <1>2 DEF VerbAt
<1>5. SourceMoves(i, Target(seed))
  BY <1>1, <1>2, <1>4 DEF SourceMoves, Moves
<1>6. TargetedMoves(i, a, Target(seed))
  <2>1. a \in {12, 18} /\ i \notin 3..6 /\ i \notin (a + 1)..(a + 4)
    BY <1>3, <1>4
  <2>. QED  BY <1>1, <2>1, TargetedStill
<1>7. RebuildMoves(i, b, Target(seed))
  <2>1. b \in {12, 17} /\ i \notin 8..9 /\ i \notin (b + 1)..(b + 5)
    BY <1>3, <1>4
  <2>. QED  BY <1>1, <2>1, RebuildStill
<1>. QED  BY <1>5, <1>6, <1>7 DEF TrialMoves, a, b

LEMMA DirectoryMoves ==
  ASSUME NEW seed \in Nat, NEW i \in 1..25, Next1 = RunTrial(seed)[i],
         MakeTrialDirectory
  PROVE  TrialMoves(i, seed)
<1>. DEFINE a == BeforeTargeted(seed)
            b == BeforeRebuild(seed)
<1>1. Next1.do = "mkdir trial" /\ rows' = rows /\ copies' = copies /\ retained' = retained
  BY DEF MakeTrialDirectory, OnStores, Step, findings
<1>2. VerbAt(i, a, b, Next1.do, Next1.via) /\ Next1.seed = seed
  BY OperationHere
<1>3. (a = 12 /\ b = 17) \/ (a = 18 /\ b = 12)
  BY Orders
<1>. HIDE DEF a, b
<1>4. i = 2
  BY <1>1, <1>2 DEF VerbAt
<1>5. SourceMoves(i, Target(seed))
  <2>1. i # 1 /\ i # 11 /\ i # 12
    BY <1>3, <1>4
  <2>. QED  BY <1>1, <2>1, SourceStill
<1>6. TargetedMoves(i, a, Target(seed))
  <2>1. a \in {12, 18} /\ i \notin 3..6 /\ i \notin (a + 1)..(a + 4)
    BY <1>3, <1>4
  <2>. QED  BY <1>1, <2>1, TargetedStill
<1>7. RebuildMoves(i, b, Target(seed))
  <2>1. b \in {12, 17} /\ i \notin 8..9 /\ i \notin (b + 1)..(b + 5)
    BY <1>3, <1>4
  <2>. QED  BY <1>1, <2>1, RebuildStill
<1>. QED  BY <1>5, <1>6, <1>7 DEF TrialMoves, a, b

LEMMA DeleteMoves ==
  ASSUME NEW seed \in Nat, NEW i \in 1..25, Next1 = RunTrial(seed)[i],
         DeleteSource
  PROVE  TrialMoves(i, seed)
<1>. DEFINE a == BeforeTargeted(seed)
            b == BeforeRebuild(seed)
<1>1. /\ Next1.do = "delete source" /\ rows' = rows \ {Target(Next1.seed)}
      /\ copies' = copies /\ retained' = retained
  BY DEF DeleteSource, OnSource, OnStores, Step, findings
<1>2. VerbAt(i, a, b, Next1.do, Next1.via) /\ Next1.seed = seed
  BY OperationHere
<1>3. (a = 12 /\ b = 17) \/ (a = 18 /\ b = 12)
  BY Orders
<1>. HIDE DEF a, b
<1>4. i = 11
  BY <1>1, <1>2 DEF VerbAt
<1>5. SourceMoves(i, Target(seed))
  <2>1. rows' = rows \ {Target(seed)} /\ retained' = retained
    BY <1>1, <1>2
  <2>2. i # 1 /\ i # 12 /\ i # 22 + 1 /\ i = 10 + 1
    BY <1>4
  <2>. QED  BY <2>1, <2>2 DEF SourceMoves, Moves
<1>6. TargetedMoves(i, a, Target(seed))
  <2>1. a \in {12, 18} /\ i \notin 3..6 /\ i \notin (a + 1)..(a + 4)
    BY <1>3, <1>4
  <2>. QED  BY <1>1, <2>1, TargetedStill
<1>7. RebuildMoves(i, b, Target(seed))
  <2>1. b \in {12, 17} /\ i \notin 8..9 /\ i \notin (b + 1)..(b + 5)
    BY <1>3, <1>4
  <2>. QED  BY <1>1, <2>1, RebuildStill
<1>. QED  BY <1>5, <1>6, <1>7 DEF TrialMoves, a, b

LEMMA RetainedMoves ==
  ASSUME NEW seed \in Nat, NEW i \in 1..25, Next1 = RunTrial(seed)[i],
         TrialFacts(i - 1, seed), ReadRetained
  PROVE  TrialMoves(i, seed)
<1>. DEFINE a == BeforeTargeted(seed)
            b == BeforeRebuild(seed)
<1>1. Next1.do = "read retained" /\ rows' = rows /\ copies' = copies /\ retained' = rows
  BY DEF ReadRetained, OnStores, Step, places
<1>2. VerbAt(i, a, b, Next1.do, Next1.via) /\ Next1.seed = seed
  BY OperationHere
<1>3. (a = 12 /\ b = 17) \/ (a = 18 /\ b = 12)
  BY Orders
<1>. HIDE DEF a, b
<1>4. i = 12
  BY <1>1, <1>2 DEF VerbAt
<1>5. SourceMoves(i, Target(seed))
  <2>1. rows = People \ {Target(seed)}
    <3>1. i - 1 \in (10 + 1)..23
      BY <1>4
    <3>. QED  BY <3>1 DEF TrialFacts, SourceFacts, Turns
  <2>2. i # 1 /\ i # 10 + 1 /\ i # 22 + 1 /\ ~ (i > 12)
    BY <1>4
  <2>. QED  BY <1>1, <1>4, <2>1, <2>2 DEF SourceMoves, Moves
<1>6. TargetedMoves(i, a, Target(seed))
  <2>1. a \in {12, 18} /\ i \notin 3..6 /\ i \notin (a + 1)..(a + 4)
    BY <1>3, <1>4
  <2>. QED  BY <1>1, <2>1, TargetedStill
<1>7. RebuildMoves(i, b, Target(seed))
  <2>1. b \in {12, 17} /\ i \notin 8..9 /\ i \notin (b + 1)..(b + 5)
    BY <1>3, <1>4
  <2>. QED  BY <1>1, <2>1, RebuildStill
<1>. QED  BY <1>5, <1>6, <1>7 DEF TrialMoves, a, b

LEMMA AuditMoves ==
  ASSUME NEW seed \in Nat, NEW i \in 1..25, Next1 = RunTrial(seed)[i],
         AuditStrategy
  PROVE  TrialMoves(i, seed)
<1>. DEFINE a == BeforeTargeted(seed)
            b == BeforeRebuild(seed)
<1>1. Next1.do = "audit" /\ rows' = rows /\ copies' = copies /\ retained' = retained
  BY DEF AuditStrategy, OnStores, Step, places
<1>2. VerbAt(i, a, b, Next1.do, Next1.via) /\ Next1.seed = seed
  BY OperationHere
<1>3. (a = 12 /\ b = 17) \/ (a = 18 /\ b = 12)
  BY Orders
<1>. HIDE DEF a, b
<1>4. i = a + 5 \/ i = b + 6
  BY <1>1, <1>2 DEF VerbAt
<1>5. SourceMoves(i, Target(seed))
  <2>1. i # 1 /\ i # 11 /\ i # 12
    BY <1>3, <1>4
  <2>. QED  BY <1>1, <2>1, SourceStill
<1>6. TargetedMoves(i, a, Target(seed))
  <2>1. a \in {12, 18} /\ i \notin 3..6 /\ i \notin (a + 1)..(a + 4)
    BY <1>3, <1>4
  <2>. QED  BY <1>1, <2>1, TargetedStill
<1>7. RebuildMoves(i, b, Target(seed))
  <2>1. b \in {12, 17} /\ i \notin 8..9 /\ i \notin (b + 1)..(b + 5)
    BY <1>3, <1>4
  <2>. QED  BY <1>1, <2>1, RebuildStill
<1>. QED  BY <1>5, <1>6, <1>7 DEF TrialMoves, a, b

LEMMA ClearMoves ==
  ASSUME NEW seed \in Nat, NEW i \in 1..25, Next1 = RunTrial(seed)[i],
         ClearCopies
  PROVE  TrialMoves(i, seed)
<1>. DEFINE a == BeforeTargeted(seed)
            b == BeforeRebuild(seed)
<1>1. Next1.do = "clear" /\ rows' = rows /\ retained' = retained
  BY DEF ClearCopies, OnCopies, OnStores, Step, findings
<1>2. VerbAt(i, a, b, Next1.do, Next1.via) /\ Next1.seed = seed
  BY OperationHere
<1>3. (a = 12 /\ b = 17) \/ (a = 18 /\ b = 12)
  BY Orders
<1>. HIDE DEF a, b
<1>4. i = 24 \/ i = 25
  BY <1>1, <1>2 DEF VerbAt
<1>5. SourceMoves(i, Target(seed))
  <2>1. i # 1 /\ i # 11 /\ i # 12
    BY <1>3, <1>4
  <2>. QED  BY <1>1, <2>1, SourceStill
<1>6. TargetedMoves(i, a, Target(seed))
  BY <1>3, <1>4 DEF TargetedMoves, Moves
<1>7. RebuildMoves(i, b, Target(seed))
  <2>1. /\ i # b + 1 /\ i # b + 2 /\ i # 8 /\ i # b + 3 /\ i # 9 /\ i # b + 4 /\ i # b + 5
        /\ ~ (i <= 23)
    BY <1>3, <1>4
  <2>2. i # (b + 1) + 1 /\ i # (b + 2) + 1 /\ i # (b + 3) + 1 /\ i # 22 + 1
    BY <1>3, <1>4
  <2>. QED  BY <2>1, <2>2 DEF RebuildMoves, Moves
<1>. QED  BY <1>5, <1>6, <1>7 DEF TrialMoves, a, b

LEMMA Changed ==
  ASSUME NEW c \in CopyRecords, NEW x
  PROVE  LET v == [c EXCEPT !.vector = x]
             e == [c EXCEPT !.cache = x]
             k == [c EXCEPT !.key = x]
             f == [c EXCEPT !.fit = x]
         IN  /\ v.vector = x /\ v.cache = c.cache /\ v.key = c.key /\ v.fit = c.fit
             /\ e.vector = c.vector /\ e.cache = x /\ e.key = c.key /\ e.fit = c.fit
             /\ k.vector = c.vector /\ k.cache = c.cache /\ k.key = x /\ k.fit = c.fit
             /\ f.vector = c.vector /\ f.cache = c.cache /\ f.key = c.key /\ f.fit = x
BY DEF CopyRecords

LEMMA Places ==
  ASSUME StudyTypes
  PROVE  /\ copies[Targeted] \in CopyRecords /\ copies[RebuildAll] \in CopyRecords
         /\ copies[PilotCopy] \in CopyRecords
         /\ Targeted \in DOMAIN copies /\ RebuildAll \in DOMAIN copies /\ PilotCopy \in DOMAIN copies
         /\ Targeted # RebuildAll /\ Targeted # PilotCopy /\ RebuildAll # PilotCopy
BY VerbLists DEF StudyTypes, Strategies

LEMMA SetupEffect ==
  ASSUME StudyTypes, SetupDerivatives, Next1.via \in Strategies
  PROVE  /\ rows' = rows /\ retained' = retained
         /\ \A via \in Strategies : via # Next1.via => copies'[via] = copies[via]
         /\ LET c == copies[Next1.via]
                n == copies'[Next1.via]
            IN  /\ n.vector = IF Next1.do = "set vector" THEN People ELSE c.vector
                /\ n.cache = IF Next1.do = "set cache" THEN People ELSE c.cache
                /\ n.key = IF Next1.do = "set backups" THEN People ELSE c.key
                /\ n.fit = IF Next1.do = "set model" THEN People ELSE c.fit
         /\ Next1.do \in {"set vector", "set cache", "set backups", "set model"}
<1>. DEFINE via == Next1.via
            c == copies[via]
            n == copies'[via]
            new == CASE Next1.do = "set vector" -> [c EXCEPT !.vector = People]
                     [] Next1.do = "set cache" -> [c EXCEPT !.cache = People]
                     [] Next1.do = "set backups" -> [c EXCEPT !.key = People]
                     [] OTHER -> [c EXCEPT !.fit = People]
<1>1. /\ rows' = rows /\ retained' = retained /\ copies' = [copies EXCEPT ![via] = new]
      /\ Next1.do \in {"set vector", "set cache", "set backups", "set model"}
  BY DEF SetupDerivatives, OnCopies, OnStores, Step, findings
<1>2. c \in CopyRecords /\ via \in DOMAIN copies
  BY Places DEF Strategies
<1>. HIDE DEF new
<1>3. n = new /\ \A w \in Strategies : w # via => copies'[w] = copies[w]
  BY <1>1, <1>2 DEF StudyTypes
<1>. HIDE DEF c, n
<1>4. /\ n.vector = IF Next1.do = "set vector" THEN People ELSE c.vector
      /\ n.cache = IF Next1.do = "set cache" THEN People ELSE c.cache
      /\ n.key = IF Next1.do = "set backups" THEN People ELSE c.key
      /\ n.fit = IF Next1.do = "set model" THEN People ELSE c.fit
  <2>1. CASE Next1.do = "set vector"
    <3>1. n = [c EXCEPT !.vector = People]
      BY <1>3, <2>1 DEF new
    <3>2. n.vector = People /\ n.cache = c.cache /\ n.key = c.key /\ n.fit = c.fit
      BY <1>2, <3>1, Changed
    <3>. QED  BY <2>1, <3>2
  <2>2. CASE Next1.do = "set cache"
    <3>1. n = [c EXCEPT !.cache = People]
      BY <1>3, <2>2 DEF new
    <3>2. n.vector = c.vector /\ n.cache = People /\ n.key = c.key /\ n.fit = c.fit
      BY <1>2, <3>1, Changed
    <3>. QED  BY <2>2, <3>2
  <2>3. CASE Next1.do = "set backups"
    <3>1. n = [c EXCEPT !.key = People]
      BY <1>3, <2>3 DEF new
    <3>2. n.vector = c.vector /\ n.cache = c.cache /\ n.key = People /\ n.fit = c.fit
      BY <1>2, <3>1, Changed
    <3>. QED  BY <2>3, <3>2
  <2>4. CASE Next1.do = "set model"
    <3>1. n = [c EXCEPT !.fit = People]
      BY <1>3, <2>4 DEF new
    <3>2. n.vector = c.vector /\ n.cache = c.cache /\ n.key = c.key /\ n.fit = People
      BY <1>2, <3>1, Changed
    <3>. QED  BY <2>4, <3>2
  <2>. QED  BY <1>1, <2>1, <2>2, <2>3, <2>4
<1>. QED  BY <1>1, <1>3, <1>4 DEF c, n

LEMMA TargetedEffect ==
  ASSUME StudyTypes, TargetedRemediation
  PROVE  /\ rows' = rows /\ retained' = retained
         /\ \A via \in Strategies : via # Targeted => copies'[via] = copies[via]
         /\ LET c == copies[Targeted]
                n == copies'[Targeted]
                gone == {Target(Next1.seed)}
            IN  /\ n.vector = IF Next1.do = "delete point" THEN c.vector \ gone ELSE c.vector
                /\ n.cache = IF Next1.do = "delete entry" THEN c.cache \ gone ELSE c.cache
                /\ n.key = IF Next1.do = "unlink key" THEN c.key \ gone ELSE c.key
                /\ n.fit = IF Next1.do = "subtract" THEN c.fit \ gone ELSE c.fit
         /\ Next1.do \in {"delete point", "delete entry", "unlink key", "subtract"}
<1>. DEFINE c == copies[Targeted]
            n == copies'[Targeted]
            gone == {Target(Next1.seed)}
            new == CASE Next1.do = "delete point" -> [c EXCEPT !.vector = c.vector \ gone]
                     [] Next1.do = "delete entry" -> [c EXCEPT !.cache = c.cache \ gone]
                     [] Next1.do = "unlink key" -> [c EXCEPT !.key = c.key \ gone]
                     [] OTHER -> [c EXCEPT !.fit = c.fit \ gone]
<1>1. /\ rows' = rows /\ retained' = retained /\ copies' = [copies EXCEPT ![Targeted] = new]
      /\ Next1.do \in {"delete point", "delete entry", "unlink key", "subtract"}
  BY DEF TargetedRemediation, OnCopies, OnStores, Step, findings
<1>2. c \in CopyRecords /\ Targeted \in DOMAIN copies
  BY Places
<1>. HIDE DEF new
<1>3. n = new /\ \A w \in Strategies : w # Targeted => copies'[w] = copies[w]
  BY <1>1, <1>2 DEF StudyTypes
<1>. HIDE DEF c, n, gone
<1>4. /\ n.vector = IF Next1.do = "delete point" THEN c.vector \ gone ELSE c.vector
      /\ n.cache = IF Next1.do = "delete entry" THEN c.cache \ gone ELSE c.cache
      /\ n.key = IF Next1.do = "unlink key" THEN c.key \ gone ELSE c.key
      /\ n.fit = IF Next1.do = "subtract" THEN c.fit \ gone ELSE c.fit
  <2>1. CASE Next1.do = "delete point"
    <3>1. n = [c EXCEPT !.vector = c.vector \ gone]
      BY <1>3, <2>1 DEF new
    <3>2. n.vector = c.vector \ gone /\ n.cache = c.cache /\ n.key = c.key /\ n.fit = c.fit
      BY <1>2, <3>1, Changed
    <3>. QED  BY <2>1, <3>2
  <2>2. CASE Next1.do = "delete entry"
    <3>1. n = [c EXCEPT !.cache = c.cache \ gone]
      BY <1>3, <2>2 DEF new
    <3>2. n.vector = c.vector /\ n.cache = c.cache \ gone /\ n.key = c.key /\ n.fit = c.fit
      BY <1>2, <3>1, Changed
    <3>. QED  BY <2>2, <3>2
  <2>3. CASE Next1.do = "unlink key"
    <3>1. n = [c EXCEPT !.key = c.key \ gone]
      BY <1>3, <2>3 DEF new
    <3>2. n.vector = c.vector /\ n.cache = c.cache /\ n.key = c.key \ gone /\ n.fit = c.fit
      BY <1>2, <3>1, Changed
    <3>. QED  BY <2>3, <3>2
  <2>4. CASE Next1.do = "subtract"
    <3>1. n = [c EXCEPT !.fit = c.fit \ gone]
      BY <1>3, <2>4 DEF new
    <3>2. n.vector = c.vector /\ n.cache = c.cache /\ n.key = c.key /\ n.fit = c.fit \ gone
      BY <1>2, <3>1, Changed
    <3>. QED  BY <2>4, <3>2
  <2>. QED  BY <1>1, <2>1, <2>2, <2>3, <2>4
<1>. QED  BY <1>1, <1>3, <1>4 DEF c, n, gone

LEMMA RebuildEffect ==
  ASSUME StudyTypes, RebuildRemediation
  PROVE  /\ rows' = rows /\ retained' = retained
         /\ \A via \in Strategies : via # RebuildAll => copies'[via] = copies[via]
         /\ LET c == copies[RebuildAll]
                n == copies'[RebuildAll]
            IN  /\ n.vector = IF Next1.do = "drop collection" THEN {}
                               ELSE IF Next1.do = "fill collection" THEN c.vector \union retained
                               ELSE c.vector
                /\ n.cache = IF Next1.do = "refill cache" THEN (c.cache \ People) \union retained ELSE c.cache
                /\ n.key = IF Next1.do = "restage backups" THEN c.key \intersect retained ELSE c.key
                /\ n.fit = IF Next1.do = "refit" THEN retained ELSE c.fit
         /\ Next1.do \in {"drop collection", "fill collection", "refill cache", "restage backups", "refit"}
<1>. DEFINE c == copies[RebuildAll]
            n == copies'[RebuildAll]
            new == CASE Next1.do = "drop collection" -> [c EXCEPT !.vector = {}]
                     [] Next1.do = "fill collection" -> [c EXCEPT !.vector = c.vector \union retained]
                     [] Next1.do = "refill cache" -> [c EXCEPT !.cache = (c.cache \ People) \union retained]
                     [] Next1.do = "restage backups" -> [c EXCEPT !.key = c.key \intersect retained]
                     [] OTHER -> [c EXCEPT !.fit = retained]
<1>1. /\ rows' = rows /\ retained' = retained /\ copies' = [copies EXCEPT ![RebuildAll] = new]
      /\ Next1.do \in {"drop collection", "fill collection", "refill cache", "restage backups", "refit"}
  BY DEF RebuildRemediation, OnCopies, OnStores, Step, findings
<1>2. c \in CopyRecords /\ RebuildAll \in DOMAIN copies
  BY Places
<1>. HIDE DEF new
<1>3. n = new /\ \A w \in Strategies : w # RebuildAll => copies'[w] = copies[w]
  BY <1>1, <1>2 DEF StudyTypes
<1>. HIDE DEF c, n
<1>4. /\ n.vector = IF Next1.do = "drop collection" THEN {}
                     ELSE IF Next1.do = "fill collection" THEN c.vector \union retained
                     ELSE c.vector
      /\ n.cache = IF Next1.do = "refill cache" THEN (c.cache \ People) \union retained ELSE c.cache
      /\ n.key = IF Next1.do = "restage backups" THEN c.key \intersect retained ELSE c.key
      /\ n.fit = IF Next1.do = "refit" THEN retained ELSE c.fit
  <2>1. CASE Next1.do = "drop collection"
    <3>1. n = [c EXCEPT !.vector = {}]
      BY <1>3, <2>1 DEF new
    <3>2. n.vector = {} /\ n.cache = c.cache /\ n.key = c.key /\ n.fit = c.fit
      BY <1>2, <3>1, Changed
    <3>. QED  BY <2>1, <3>2
  <2>2. CASE Next1.do = "fill collection"
    <3>1. n = [c EXCEPT !.vector = c.vector \union retained]
      BY <1>3, <2>2 DEF new
    <3>2. n.vector = c.vector \union retained /\ n.cache = c.cache /\ n.key = c.key /\ n.fit = c.fit
      BY <1>2, <3>1, Changed
    <3>. QED  BY <2>2, <3>2
  <2>3. CASE Next1.do = "refill cache"
    <3>1. n = [c EXCEPT !.cache = (c.cache \ People) \union retained]
      BY <1>3, <2>3 DEF new
    <3>2. n.vector = c.vector /\ n.cache = (c.cache \ People) \union retained /\ n.key = c.key /\ n.fit = c.fit
      BY <1>2, <3>1, Changed
    <3>. QED  BY <2>3, <3>2
  <2>4. CASE Next1.do = "restage backups"
    <3>1. n = [c EXCEPT !.key = c.key \intersect retained]
      BY <1>3, <2>4 DEF new
    <3>2. n.vector = c.vector /\ n.cache = c.cache /\ n.key = c.key \intersect retained /\ n.fit = c.fit
      BY <1>2, <3>1, Changed
    <3>. QED  BY <2>4, <3>2
  <2>5. CASE Next1.do = "refit"
    <3>1. n = [c EXCEPT !.fit = retained]
      BY <1>3, <2>5 DEF new
    <3>2. n.vector = c.vector /\ n.cache = c.cache /\ n.key = c.key /\ n.fit = retained
      BY <1>2, <3>1, Changed
    <3>. QED  BY <2>5, <3>2
  <2>. QED  BY <1>1, <2>1, <2>2, <2>3, <2>4, <2>5
<1>. QED  BY <1>1, <1>3, <1>4 DEF c, n

LEMMA SetupMoves ==
  ASSUME StudyTypes, NEW seed \in Nat, NEW i \in 1..25, Next1 = RunTrial(seed)[i],
         SetupDerivatives
  PROVE  TrialMoves(i, seed)
<1>. DEFINE a == BeforeTargeted(seed)
            b == BeforeRebuild(seed)
            v1 == Next1.do = "set vector"
            v2 == Next1.do = "set cache"
            v3 == Next1.do = "set backups"
            v4 == Next1.do = "set model"
<1>2. VerbAt(i, a, b, Next1.do, Next1.via) /\ Next1.seed = seed
  BY OperationHere
<1>3. (a = 12 /\ b = 17) \/ (a = 18 /\ b = 12)
  BY Orders
<1>. HIDE DEF a, b
<1>9. /\ v1 => (i = 3 /\ Next1.via = Targeted) \/ (i = 7 /\ Next1.via = RebuildAll)
      /\ v2 => (i = 4 /\ Next1.via = Targeted) \/ (i = 8 /\ Next1.via = RebuildAll)
      /\ v3 => (i = 5 /\ Next1.via = Targeted) \/ (i = 9 /\ Next1.via = RebuildAll)
      /\ v4 => (i = 6 /\ Next1.via = Targeted) \/ (i = 10 /\ Next1.via = RebuildAll)
  BY <1>2 DEF VerbAt
<1>0. v1 \/ v2 \/ v3 \/ v4
  BY DEF SetupDerivatives, OnCopies, OnStores, Step
<1>8. Next1.via \in Strategies
  BY <1>0, <1>9 DEF Strategies
<1>1. /\ rows' = rows /\ retained' = retained
      /\ Next1.via # Targeted => copies'[Targeted] = copies[Targeted]
      /\ Next1.via # RebuildAll => copies'[RebuildAll] = copies[RebuildAll]
  BY <1>8, SetupEffect DEF Strategies
<1>10. LET c == copies[Next1.via]
           n == copies'[Next1.via]
       IN  /\ n.vector = IF v1 THEN People ELSE c.vector
           /\ n.cache = IF v2 THEN People ELSE c.cache
           /\ n.key = IF v3 THEN People ELSE c.key
           /\ n.fit = IF v4 THEN People ELSE c.fit
  BY <1>8, SetupEffect
<1>. HIDE DEF v1, v2, v3, v4
<1>11. \/ (i = 3 \/ i = 4 \/ i = 5 \/ i = 6) /\ Next1.via = Targeted
       \/ (i = 7 \/ i = 8 \/ i = 9 \/ i = 10) /\ Next1.via = RebuildAll
  BY <1>0, <1>9
<1>4. \/ i \in 3..6 /\ Next1.via = Targeted
      \/ i \in 7..10 /\ Next1.via = RebuildAll
  BY <1>11
<1>5. SourceMoves(i, Target(seed))
  <2>1. i # 1 /\ i # 11 /\ i # 12
    BY <1>3, <1>4
  <2>. QED  BY <1>1, <2>1, SourceStill
<1>6. TargetedMoves(i, a, Target(seed))
  <2>. DEFINE c == copies[Targeted]
              n == copies'[Targeted]
  <2>1. CASE i \in 3..6 /\ Next1.via = Targeted
    <3>1. /\ n.vector = IF v1 THEN People ELSE c.vector
          /\ n.cache = IF v2 THEN People ELSE c.cache
          /\ n.key = IF v3 THEN People ELSE c.key
          /\ n.fit = IF v4 THEN People ELSE c.fit
      BY <1>10, <2>1
    <3>2. (i = 3 <=> v1) /\ (i = 4 <=> v2) /\ (i = 5 <=> v3) /\ (i = 6 <=> v4)
      BY <1>0, <1>9, <2>1
    <3>3. /\ i # a + 1 /\ i # (a + 1) + 1 /\ i # (a + 2) + 1 /\ i # (a + 3) + 1
      BY <1>3, <2>1
    <3>. HIDE DEF c, n
    <3>4. Moves(i, 3, a, c.vector, n.vector, People, People \ {Target(seed)})
      BY <3>1, <3>2, <3>3 DEF Moves
    <3>5. Moves(i, 4, a + 1, c.cache, n.cache, People, People \ {Target(seed)})
      BY <3>1, <3>2, <3>3 DEF Moves
    <3>6. Moves(i, 5, a + 2, c.key, n.key, People, People \ {Target(seed)})
      BY <3>1, <3>2, <3>3 DEF Moves
    <3>7. Moves(i, 6, a + 3, c.fit, n.fit, People, People \ {Target(seed)})
      BY <3>1, <3>2, <3>3 DEF Moves
    <3>. QED  BY <3>4, <3>5, <3>6, <3>7 DEF TargetedMoves, c, n
  <2>2. CASE i \in 7..10 /\ Next1.via = RebuildAll
    <3>1. copies'[Targeted] = copies[Targeted]
      BY <1>1, <2>2, VerbLists
    <3>2. a \in {12, 18} /\ i \notin 3..6 /\ i \notin (a + 1)..(a + 4)
      BY <1>3, <2>2
    <3>. QED  BY <3>1, <3>2, TargetedStill
  <2>. QED  BY <1>4, <2>1, <2>2
<1>7. RebuildMoves(i, b, Target(seed))
  <2>. DEFINE c == copies[RebuildAll]
              n == copies'[RebuildAll]
  <2>1. CASE i \in 7..10 /\ Next1.via = RebuildAll
    <3>1. n.cache = (IF v2 THEN People ELSE c.cache) /\ n.key = (IF v3 THEN People ELSE c.key)
      BY <1>10, <2>1
    <3>2. (i = 8 <=> v2) /\ (i = 9 <=> v3)
      BY <1>0, <1>9, <2>1
    <3>3. /\ i # b + 1 /\ i # (b + 1) + 1 /\ i # (b + 2) + 1 /\ i # (b + 3) + 1 /\ i # b + 5
          /\ i # 22 + 1 /\ ~ (i > b + 1) /\ ~ (i > b + 5)
      BY <1>3, <2>1
    <3>. HIDE DEF c, n
    <3>4. Moves(i, b + 1, b + 1, c.vector, n.vector, {}, People \ {Target(seed)})
      BY <3>3 DEF Moves
    <3>5. Moves(i, 8, b + 2, c.cache, n.cache, People, People \ {Target(seed)})
      BY <3>1, <3>2, <3>3 DEF Moves
    <3>6. Moves(i, 9, b + 3, c.key, n.key, People, People \ {Target(seed)})
      BY <3>1, <3>2, <3>3 DEF Moves
    <3>7. Moves(i, b + 5, 22, c.fit, n.fit, People \ {Target(seed)}, People \ {Target(seed)})
      BY <3>3 DEF Moves
    <3>. QED  BY <3>4, <3>5, <3>6, <3>7 DEF RebuildMoves, c, n
  <2>2. CASE i \in 3..6 /\ Next1.via = Targeted
    <3>1. copies'[RebuildAll] = copies[RebuildAll]
      BY <1>1, <2>2, VerbLists
    <3>2. b \in {12, 17} /\ i \notin 8..9 /\ i \notin (b + 1)..(b + 5)
      BY <1>3, <2>2
    <3>. QED  BY <3>1, <3>2, RebuildStill
  <2>. QED  BY <1>4, <2>1, <2>2
<1>. QED  BY <1>5, <1>6, <1>7 DEF TrialMoves, a, b

LEMMA TargetedRemediationMoves ==
  ASSUME StudyTypes, NEW seed \in Nat, NEW i \in 1..25, Next1 = RunTrial(seed)[i],
         TargetedRemediation
  PROVE  TrialMoves(i, seed)
<1>. DEFINE a == BeforeTargeted(seed)
            b == BeforeRebuild(seed)
            v1 == Next1.do = "delete point"
            v2 == Next1.do = "delete entry"
            v3 == Next1.do = "unlink key"
            v4 == Next1.do = "subtract"
<1>2. VerbAt(i, a, b, Next1.do, Next1.via) /\ Next1.seed = seed
  BY OperationHere
<1>3. (a = 12 /\ b = 17) \/ (a = 18 /\ b = 12)
  BY Orders
<1>. HIDE DEF a, b
<1>9. /\ v1 => i = a + 1
      /\ v2 => i = a + 2
      /\ v3 => i = a + 3
      /\ v4 => i = a + 4
  BY <1>2 DEF VerbAt
<1>0. v1 \/ v2 \/ v3 \/ v4
  BY DEF TargetedRemediation, OnCopies, OnStores, Step
<1>1. rows' = rows /\ retained' = retained /\ copies'[RebuildAll] = copies[RebuildAll]
  BY TargetedEffect, VerbLists DEF Strategies
<1>10. LET c == copies[Targeted]
           n == copies'[Targeted]
           gone == {Target(seed)}
       IN  /\ n.vector = IF v1 THEN c.vector \ gone ELSE c.vector
           /\ n.cache = IF v2 THEN c.cache \ gone ELSE c.cache
           /\ n.key = IF v3 THEN c.key \ gone ELSE c.key
           /\ n.fit = IF v4 THEN c.fit \ gone ELSE c.fit
  BY <1>2, TargetedEffect
<1>. HIDE DEF v1, v2, v3, v4
<1>4. i = a + 1 \/ i = a + 2 \/ i = a + 3 \/ i = a + 4
  BY <1>0, <1>9
<1>5. SourceMoves(i, Target(seed))
  <2>1. i # 1 /\ i # 11 /\ i # 12
    BY <1>3, <1>4
  <2>. QED  BY <1>1, <2>1, SourceStill
<1>6. TargetedMoves(i, a, Target(seed))
  <2>. DEFINE c == copies[Targeted]
              n == copies'[Targeted]
              gone == {Target(seed)}
  <2>2. /\ (i = a + 1 <=> v1) /\ (i = (a + 1) + 1 <=> v2) /\ (i = (a + 2) + 1 <=> v3)
        /\ (i = (a + 3) + 1 <=> v4)
    BY <1>0, <1>3, <1>9
  <2>3. i # 3 /\ i # 4 /\ i # 5 /\ i # 6
    BY <1>3, <1>4
  <2>1. /\ n.vector = IF v1 THEN c.vector \ gone ELSE c.vector
        /\ n.cache = IF v2 THEN c.cache \ gone ELSE c.cache
        /\ n.key = IF v3 THEN c.key \ gone ELSE c.key
        /\ n.fit = IF v4 THEN c.fit \ gone ELSE c.fit
    BY <1>10
  <2>. HIDE DEF c, n
  <2>4. Moves(i, 3, a, c.vector, n.vector, People, People \ gone)
    BY <2>1, <2>2, <2>3 DEF Moves
  <2>5. Moves(i, 4, a + 1, c.cache, n.cache, People, People \ gone)
    BY <2>1, <2>2, <2>3 DEF Moves
  <2>6. Moves(i, 5, a + 2, c.key, n.key, People, People \ gone)
    BY <2>1, <2>2, <2>3 DEF Moves
  <2>7. Moves(i, 6, a + 3, c.fit, n.fit, People, People \ gone)
    BY <2>1, <2>2, <2>3 DEF Moves
  <2>. QED  BY <2>4, <2>5, <2>6, <2>7 DEF TargetedMoves, c, n
<1>7. RebuildMoves(i, b, Target(seed))
  <2>1. b \in {12, 17} /\ i \notin 8..9 /\ i \notin (b + 1)..(b + 5)
    BY <1>3, <1>4
  <2>. QED  BY <1>1, <2>1, RebuildStill
<1>. QED  BY <1>5, <1>6, <1>7 DEF TrialMoves, a, b

LEMMA RebuildRemediationMoves ==
  ASSUME StudyTypes, NEW seed \in Nat, NEW i \in 1..25, Next1 = RunTrial(seed)[i],
         TrialFacts(i - 1, seed), RebuildRemediation
  PROVE  TrialMoves(i, seed)
<1>. DEFINE a == BeforeTargeted(seed)
            b == BeforeRebuild(seed)
            v1 == Next1.do = "drop collection"
            v2 == Next1.do = "fill collection"
            v3 == Next1.do = "refill cache"
            v4 == Next1.do = "restage backups"
            v5 == Next1.do = "refit"
<1>2. VerbAt(i, a, b, Next1.do, Next1.via) /\ Next1.seed = seed
  BY OperationHere
<1>3. (a = 12 /\ b = 17) \/ (a = 18 /\ b = 12)
  BY Orders
<1>. HIDE DEF a, b
<1>9. /\ v1 => i = b + 1
      /\ v2 => i = b + 2
      /\ v3 => i = b + 3
      /\ v4 => i = b + 4
      /\ v5 => i = b + 5
  BY <1>2 DEF VerbAt
<1>0. v1 \/ v2 \/ v3 \/ v4 \/ v5
  BY DEF RebuildRemediation, OnCopies, OnStores, Step
<1>1. rows' = rows /\ retained' = retained /\ copies'[Targeted] = copies[Targeted]
  BY RebuildEffect, VerbLists DEF Strategies
<1>10. LET c == copies[RebuildAll]
           n == copies'[RebuildAll]
       IN  /\ n.vector = IF v1 THEN {} ELSE IF v2 THEN c.vector \union retained ELSE c.vector
           /\ n.cache = IF v3 THEN (c.cache \ People) \union retained ELSE c.cache
           /\ n.key = IF v4 THEN c.key \intersect retained ELSE c.key
           /\ n.fit = IF v5 THEN retained ELSE c.fit
  BY RebuildEffect
<1>. HIDE DEF v1, v2, v3, v4, v5
<1>4. i = b + 1 \/ i = b + 2 \/ i = b + 3 \/ i = b + 4 \/ i = b + 5
  BY <1>0, <1>9
<1>5. SourceMoves(i, Target(seed))
  <2>1. i # 1 /\ i # 11 /\ i # 12
    BY <1>3, <1>4
  <2>. QED  BY <1>1, <2>1, SourceStill
<1>6. TargetedMoves(i, a, Target(seed))
  <2>1. a \in {12, 18} /\ i \notin 3..6 /\ i \notin (a + 1)..(a + 4)
    BY <1>3, <1>4
  <2>. QED  BY <1>1, <2>1, TargetedStill
<1>7. RebuildMoves(i, b, Target(seed))
  <2>. DEFINE c == copies[RebuildAll]
              n == copies'[RebuildAll]
              others == People \ {Target(seed)}
  <2>0. retained = others
    <3>1. i - 1 \in 12..22
      BY <1>3, <1>4
    <3>. QED  BY <3>1 DEF TrialFacts, SourceFacts, Turns
  <2>1. /\ n.vector = IF v1 THEN {} ELSE IF v2 THEN c.vector \union retained ELSE c.vector
        /\ n.cache = IF v3 THEN (c.cache \ People) \union retained ELSE c.cache
        /\ n.key = IF v4 THEN c.key \intersect retained ELSE c.key
        /\ n.fit = IF v5 THEN retained ELSE c.fit
    BY <1>10
  <2>2. /\ (i = b + 1 <=> v1) /\ (i = (b + 1) + 1 <=> v2) /\ (i = (b + 2) + 1 <=> v3)
        /\ (i = (b + 3) + 1 <=> v4) /\ (i = b + 5 <=> v5)
    BY <1>0, <1>3, <1>9
  <2>. HIDE DEF c, n
  <2>4. Moves(i, b + 1, b + 1, c.vector, n.vector, {}, others)
    <3>1. i = b + 1 => n.vector = {}
      BY <2>1, <2>2
    <3>2. i = (b + 1) + 1 /\ c.vector = {} => n.vector = others
      <4>1. i = (b + 1) + 1 => v2 /\ ~ v1
        BY <1>3, <2>2
      <4>. QED  BY <2>0, <2>1, <4>1
    <3>3. i # b + 1 /\ i # (b + 1) + 1 => n.vector = c.vector
      BY <2>1, <2>2
    <3>4. i > b + 1 => i # b + 1
      BY <1>3
    <3>. HIDE DEF others
    <3>. QED  BY <3>1, <3>2, <3>3, <3>4 DEF Moves
  <2>5. Moves(i, 8, b + 2, c.cache, n.cache, People, others)
    <3>1. i = (b + 2) + 1 /\ c.cache = People => n.cache = others
      BY <2>0, <2>1, <2>2
    <3>2. i # (b + 2) + 1 => n.cache = c.cache
      BY <2>1, <2>2
    <3>3. i # 8
      BY <1>3, <1>4
    <3>. HIDE DEF others
    <3>. QED  BY <3>1, <3>2, <3>3 DEF Moves
  <2>6. Moves(i, 9, b + 3, c.key, n.key, People, others)
    <3>1. i = (b + 3) + 1 /\ c.key = People => n.key = others
      BY <2>0, <2>1, <2>2
    <3>2. i # (b + 3) + 1 => n.key = c.key
      BY <2>1, <2>2
    <3>3. i # 9
      BY <1>3, <1>4
    <3>. HIDE DEF others
    <3>. QED  BY <3>1, <3>2, <3>3 DEF Moves
  <2>7. Moves(i, b + 5, 22, c.fit, n.fit, others, others)
    <3>1. i = b + 5 => n.fit = others
      BY <2>0, <2>1, <2>2
    <3>2. i # 22 + 1 /\ ~ (i > b + 5)
      BY <1>3, <1>4
    <3>. HIDE DEF others
    <3>. QED  BY <3>1, <3>2 DEF Moves
  <2>. QED  BY <2>4, <2>5, <2>6, <2>7 DEF RebuildMoves, c, n
<1>. QED  BY <1>5, <1>6, <1>7 DEF TrialMoves, a, b

-----------------------------------------------------------------------------
(* The script.                                                             *)

LEMMA WholeFacts ==
  ASSUME study \in Studies
  PROVE  /\ Whole \in Seq(Operations) /\ Len(Whole) \in Nat /\ Len(Whole) >= 6
         /\ study.program = "study" => Entering(Whole)
         /\ study.program # "study" =>
              /\ Len(Whole) = 12
              /\ \A i \in 1..12 : Whole[i].do = PilotList[i] /\ Whole[i].seed = 0
<1>1. CASE study.program = "study"
  <2>1. Entering(Whole)
    BY <1>1, StudyScriptFacts DEF Whole
  <2>2. Whole \in Seq(Operations) /\ Len(Whole) >= 6
    BY <2>1 DEF Entering
  <2>. QED  BY <1>1, <2>1, <2>2
<1>2. CASE study.program # "study"
  <2>1. /\ Whole \in Seq(Operations) /\ Len(Whole) = 12
        /\ \A i \in 1..12 : Whole[i].do = PilotList[i] /\ Whole[i].seed = 0
    BY <1>2, PilotScriptFacts DEF Whole
  <2>2. Len(Whole) \in Nat /\ Len(Whole) >= 6
    <3>1. Len(Whole) = 12
      BY <2>1
    <3>. QED  BY <3>1
  <2>. QED  BY <1>2, <2>1, <2>2
<1>. QED  BY <1>1, <1>2

LEMMA OneLeft ==
  ASSUME NEW S, NEW p \in Seq(S), Len(p) = 1
  PROVE  p # <<>> /\ Head(p) = p[1] /\ Tail(p) = <<>>
<1>0. Len(<<>>) = 0
  BY EmptySeq
<1>1. p # <<>>
  BY <1>0
<1>2. Head(p) = p[1]
  OBVIOUS
<1>3. Tail(p) \in Seq(S) /\ Len(Tail(p)) = 0
  BY <1>1, HeadTailProperties
<1>4. Tail(p) = <<>>
  BY <1>3, EmptySeq
<1>. QED  BY <1>1, <1>2, <1>4

LEMMA ExitFacts ==
  /\ Exit \in Seq(Operations) /\ Len(Exit) = 1 /\ Exit # <<>>
  /\ Head(Exit).do = "stop" /\ Tail(Exit) = <<>>
<1>1. /\ Exit \in Seq(Operations) /\ Len(Exit) = 1
      /\ Exit[1] = [do |-> "stop", seed |-> 0, via |-> ""]
  BY OneBlock DEF Exit
<1>2. Exit[1].do = "stop"
  BY <1>1, Fields
<1>0. Exit \in Seq(Operations) /\ Len(Exit) = 1
  BY <1>1
<1>. HIDE DEF Exit
<1>3. Exit # <<>> /\ Head(Exit) = Exit[1] /\ Tail(Exit) = <<>>
  BY <1>0, OneLeft, Zenon
<1>. QED  BY <1>0, <1>2, <1>3

\* A step of the script.
LEMMA ScriptStep ==
  ASSUME StudyTypes, ScriptInv, ~ raising, NEW verbs, Step(verbs)
  PROVE  /\ Place \in Nat /\ Place + 1 \in 1..Len(Whole) /\ Next1 = Whole[Place + 1]
         /\ Next1 \in Operations /\ Next1.do \in verbs
         /\ Place' = Place + 1 /\ Whole' = Whole /\ study' = study
         /\ script' \in Seq(Operations) /\ outcome' = "running" /\ ~ raising'
         /\ \A i \in 1..Len(script') : script'[i] = Whole[Place' + i]
         /\ OnScript /\ OnScript' /\ left' = left /\ ScriptInv'
<1>1. /\ outcome = "running" /\ script # <<>> /\ Next1.do \in verbs /\ script' = Tail(script)
      /\ study' = study /\ outcome' = outcome /\ raising' = raising /\ left' = left
  BY DEF Step
<1>2. script \in Seq(Operations) /\ Whole \in Seq(Operations) /\ Len(Whole) \in Nat
  BY WholeFacts DEF StudyTypes
<1>3. OnScript /\ OnScript'
  BY <1>1 DEF OnScript
<1>4. /\ Place \in 0..Len(Whole)
      /\ \A i \in 1..Len(script) : script[i] = Whole[Place + i]
  BY <1>3 DEF ScriptInv
<1>5. Whole' = Whole
  BY <1>1 DEF Whole
<1>6. /\ Len(script) \in Nat /\ Len(script) >= 1 /\ Next1 = script[1] /\ Next1 \in Operations
      /\ script' \in Seq(Operations) /\ Len(script') = Len(script) - 1
      /\ \A i \in 1..Len(script') : script'[i] = script[i + 1]
  BY <1>1, <1>2 DEF Next1
<1>. DEFINE n == Place
            w == Len(Whole)
            m == Len(script)
<1>7. n = w - m /\ Place' = w - Len(script')
  BY <1>5 DEF Place
<1>8. n \in Nat /\ n + 1 \in 1..w /\ Place' = n + 1 /\ 1 \in 1..m
  BY <1>2, <1>4, <1>6, <1>7
<1>9. Next1 = Whole[n + 1]
  BY <1>4, <1>6, <1>8
<1>10. ASSUME NEW i \in 1..Len(script') PROVE script'[i] = Whole[Place' + i]
  <2>1. i + 1 \in 1..m /\ n + (i + 1) = (n + 1) + i
    BY <1>6, <1>8
  <2>2. script[i + 1] = Whole[n + (i + 1)]
    BY <1>4, <2>1
  <2>. QED  BY <1>6, <1>8, <2>1, <2>2
<1>11. Place' \in 0..Len(Whole)
  BY <1>2, <1>8
<1>12. ScriptInv'
  <2>1. (OnScript => \A i \in 1..Len(script) : script[i] = Whole[Place + i])'
    BY <1>5, <1>10
  <2>2. outcome' = "running" /\ ~ raising'
    BY <1>1
  <2>. QED  BY <1>5, <1>11, <2>1, <2>2 DEF ScriptInv
<1>. QED  BY <1>1, <1>3, <1>5, <1>6, <1>8, <1>9, <1>10, <1>12

\* A step of the clean-up.
LEMMA CleanUpStep ==
  ASSUME StudyTypes, ScriptInv, raising, NEW verbs, Step(verbs)
  PROVE  /\ Next1.do = "stop" /\ "stop" \in verbs /\ script' = <<>>
         /\ study' = study /\ outcome' = "running" /\ raising' /\ Whole' = Whole /\ left' = left
<1>1. /\ outcome = "running" /\ script # <<>> /\ Next1.do \in verbs /\ script' = Tail(script)
      /\ study' = study /\ outcome' = outcome /\ raising' = raising /\ left' = left
  BY DEF Step
<1>2. script = Exit
  BY <1>1 DEF ScriptInv
<1>3. Whole' = Whole
  BY <1>1 DEF Whole
<1>. QED  BY <1>1, <1>2, <1>3, ExitFacts DEF Next1

\* Where the operations of a study stand in its script.
LEMMA StudyPlaces ==
  ASSUME study \in Studies, study.program = "study", NEW n \in Nat, n + 1 \in 1..Len(Whole)
  PROVE  LET v == Whole[n + 1].do
         IN  \/ n = 0 /\ v = "refuse existing"
             \/ n = 1 /\ v = "mkdir output"
             \/ n = 2 /\ v = "start postgres"
             \/ n = 3 /\ v = "start redis"
             \/ n = 4 /\ v = "start qdrant"
             \/ n = 5 /\ v = "ready"
             \/ n >= 6 /\ v \in BodyVerbs
<1>0. Entering(Whole)
  BY WholeFacts
<1>1. \/ n = 0 /\ n + 1 = 1
      \/ n = 1 /\ n + 1 = 2
      \/ n = 2 /\ n + 1 = 3
      \/ n = 3 /\ n + 1 = 4
      \/ n = 4 /\ n + 1 = 5
      \/ n = 5 /\ n + 1 = 6
      \/ n >= 6 /\ n + 1 \in 7..Len(Whole)
  <2>1. Len(Whole) \in Nat
    BY WholeFacts
  <2>. QED  BY <2>1
<1>. QED  BY <1>0, <1>1 DEF Entering

\* The list of the pilot's script: n operations come before the verb.
PilotVerb(n, v) ==
  \/ n = 0 /\ v = "refuse existing"
  \/ n = 1 /\ v = "start postgres"
  \/ n = 2 /\ v = "started"
  \/ n = 3 /\ v = "populate"
  \/ n = 4 /\ v = "dump"
  \/ n = 5 /\ v = "delete source"
  \/ n = 6 /\ v = "audit before"
  \/ n = 7 /\ v = "delete derived"
  \/ n = 8 /\ v = "unlink dump"
  \/ n = 9 /\ v = "audit after"
  \/ n = 10 /\ v = "stop"
  \/ n = 11 /\ v = "write"

\* A step of the pilot's script stands where the list says.
LEMMA PilotPlaces ==
  ASSUME study \in Studies, study.program # "study", NEW n \in Nat, n + 1 \in 1..Len(Whole)
  PROVE  n \in 0..11 /\ Whole[n + 1].seed = 0 /\ PilotVerb(n, Whole[n + 1].do)
<1>1. Len(Whole) = 12
  BY WholeFacts
<1>2. n + 1 \in 1..12 /\ n \in 0..11
  BY <1>1
<1>3. Whole[n + 1].do = PilotList[n + 1] /\ Whole[n + 1].seed = 0
  BY <1>2, WholeFacts
<1>4. \/ n = 0 /\ n + 1 = 1
      \/ n = 1 /\ n + 1 = 2
      \/ n = 2 /\ n + 1 = 3
      \/ n = 3 /\ n + 1 = 4
      \/ n = 4 /\ n + 1 = 5
      \/ n = 5 /\ n + 1 = 6
      \/ n = 6 /\ n + 1 = 7
      \/ n = 7 /\ n + 1 = 8
      \/ n = 8 /\ n + 1 = 9
      \/ n = 9 /\ n + 1 = 10
      \/ n = 10 /\ n + 1 = 11
      \/ n = 11 /\ n + 1 = 12
  BY <1>2
<1>. QED  BY <1>2, <1>3, <1>4, PilotListIs DEF PilotVerb
-----------------------------------------------------------------------------
(* A step of a trial, and of the audits.                                   *)

LEMMA NoTurns ==
  ASSUME NEW seed \in Nat
  PROVE  TrialFacts(0, seed)'
<1>1. \/ BeforeTargeted(seed) = 12 /\ BeforeRebuild(seed) = 17
      \/ BeforeTargeted(seed) = 18 /\ BeforeRebuild(seed) = 12
  BY Orders
<1>2. /\ BeforeTargeted(seed)' = BeforeTargeted(seed) /\ BeforeRebuild(seed)' = BeforeRebuild(seed)
  BY DEF BeforeTargeted, BeforeRebuild
<1>3. SourceFacts(0, Target(seed))'
  BY DEF SourceFacts, Turns
<1>4. TargetedFacts(0, BeforeTargeted(seed), Target(seed))'
  BY <1>1, <1>2 DEF TargetedFacts, Turns
<1>5. RebuildFacts(0, BeforeRebuild(seed), Target(seed))'
  BY <1>1, <1>2 DEF RebuildFacts, Turns
<1>. QED  BY <1>3, <1>4, <1>5 DEF TrialFacts

LEMMA TrialsStep ==
  ASSUME StudyTypes, ScriptInv, ~ raising, TrialsInv, NEW verbs, Step(verbs),
         \A seed \in Nat : \A i \in 1..25 :
           Next1 = RunTrial(seed)[i] /\ TrialFacts(i - 1, seed) => TrialMoves(i, seed)
  PROVE  TrialsInv'
<1>1. /\ Place \in Nat /\ Place + 1 \in 1..Len(Whole) /\ Next1 = Whole[Place + 1]
      /\ Place' = Place + 1 /\ Whole' = Whole /\ study' = study
  BY ScriptStep
<1>2. PICK n \in Nat : n = Place
  BY <1>1
<1>3. PICK w : w = Whole
  OBVIOUS
<1>4. ASSUME NEW b \in 0..(n + 1), NEW seed \in Nat, TrialAt(w, b, seed), n + 1 <= b + 25
      PROVE  TrialFacts((n + 1) - b, seed)'
  <2>1. CASE b = n + 1
    <3>1. (n + 1) - b = 0
      BY <2>1
    <3>. QED  BY <3>1, NoTurns
  <2>2. CASE b \in 0..n
    <3>1. PICK k \in 0..24 : k = n - b
      BY <1>4, <2>2
    <3>2. TrialFacts(k, seed)
      <4>1. n <= b + 25 /\ b \in 0..Place /\ TrialAt(Whole, b, seed) /\ Place <= b + 25
        BY <1>2, <1>3, <1>4, <2>2
      <4>. QED  BY <1>2, <3>1, <4>1 DEF TrialsInv
    <3>3. PICK i \in 1..25 : i = k + 1
      OBVIOUS
    <3>4. i - 1 = k /\ b + i = n + 1 /\ (n + 1) - b = k + 1
      BY <3>1, <3>3
    <3>5. Next1 = RunTrial(seed)[i]
      BY <1>1, <1>2, <1>3, <1>4, <3>4 DEF TrialAt
    <3>6. TrialMoves(k + 1, seed)
      BY <3>2, <3>3, <3>4, <3>5
    <3>7. TrialFacts(k + 1, seed)'
      BY <1>1, <3>2, <3>6, TrialTurns
    <3>. QED  BY <3>4, <3>7
  <2>. QED  BY <2>1, <2>2
<1>. QED  BY <1>1, <1>2, <1>3, <1>4 DEF TrialsInv
\* An operation that is of no trial turns nothing.
LEMMA NoTrialOperation ==
  ASSUME Next1.do \notin TrialVerbs
  PROVE  \A seed \in Nat : \A i \in 1..25 : Next1 # RunTrial(seed)[i]
<1>. SUFFICES ASSUME NEW seed \in Nat, NEW i \in 1..25, Next1 = RunTrial(seed)[i] PROVE FALSE
  OBVIOUS
<1>. QED  BY OperationHere

\* One record more for every audit, none for anything else.
Recorded ==
  IF Next1.do = "audit"
  THEN \E r \in AuditRecords : /\ records' = Append(records, r) /\ StudyRecord(r)
                               /\ r.seed = Next1.seed /\ r.via = Next1.via
  ELSE records' = records

LEMMA Longer ==
  ASSUME NEW S, NEW p \in Seq(S), NEW e \in S, NEW q, q = Append(p, e)
  PROVE  /\ q \in Seq(S) /\ Len(q) = Len(p) + 1 /\ DOMAIN q = 1..(Len(p) + 1)
         /\ Len(p) \in Nat /\ DOMAIN p = 1..Len(p) /\ q[Len(p) + 1] = e
         /\ \A i \in 1..Len(p) : q[i] = p[i]
OBVIOUS

LEMMA SameRecord ==
  ASSUME study' = study, NEW r
  PROVE  StudyRecord(r)' <=> StudyRecord(r)
BY DEF StudyRecord, OthersOf, People, Target

LEMMA RecordsStep ==
  ASSUME StudyTypes, ScriptInv, StudyInv, study.program = "study", ~ raising, NEW verbs,
         Step(verbs), Recorded
  PROVE  /\ (\A i \in DOMAIN records : StudyRecord(records[i]))'
         /\ AuditsInv' /\ records' \in Seq(AuditRecords)
<1>1. /\ Place \in Nat /\ Place + 1 \in 1..Len(Whole) /\ Next1 = Whole[Place + 1]
      /\ Place' = Place + 1 /\ Whole' = Whole /\ study' = study /\ OnScript
  BY ScriptStep
<1>2. PICK n \in Nat : n = Place
  BY <1>1
<1>3. PICK w : w = Whole
  OBVIOUS
<1>4. records \in Seq(AuditRecords) /\ (\A i \in DOMAIN records : StudyRecord(records[i]))
  BY DEF StudyInv, StudyTypes
<1>5. \A q \in 1..n : w[q].do = "audit" =>
        \E j \in DOMAIN records : records[j].seed = w[q].seed /\ records[j].via = w[q].via
  BY <1>1, <1>2, <1>3 DEF StudyInv, AuditsInv
<1>6. CASE Next1.do = "audit"
  <2>1. PICK r \in AuditRecords : /\ records' = Append(records, r) /\ StudyRecord(r)
                                  /\ r.seed = Next1.seed /\ r.via = Next1.via
    BY <1>6 DEF Recorded
  <2>2. /\ records' \in Seq(AuditRecords) /\ DOMAIN records' = 1..(Len(records) + 1)
        /\ Len(records) \in Nat /\ DOMAIN records = 1..Len(records)
        /\ records'[Len(records) + 1] = r
        /\ \A i \in 1..Len(records) : records'[i] = records[i]
    BY <1>4, <2>1, Longer
  <2>3. ASSUME NEW i \in DOMAIN records' PROVE StudyRecord(records[i])'
    <3>1. i \in 1..Len(records) \/ i = Len(records) + 1
      BY <2>2
    <3>2. PICK e : e = records'[i]
      OBVIOUS
    <3>3. StudyRecord(e)
      BY <1>4, <2>1, <2>2, <3>1, <3>2
    <3>4. StudyRecord(e)'
      BY <1>1, <3>3, SameRecord
    <3>. QED  BY <3>2, <3>4 DEF StudyRecord, OthersOf, People, Target
  <2>4. ASSUME NEW q \in 1..(n + 1), w[q].do = "audit"
        PROVE  \E j \in DOMAIN records' : records'[j].seed = w[q].seed /\ records'[j].via = w[q].via
    <3>1. q \in 1..n \/ q = n + 1
      OBVIOUS
    <3>2. CASE q \in 1..n
      BY <1>5, <2>2, <2>4, <3>2
    <3>3. CASE q = n + 1
      <4>1. w[q] = Next1
        BY <1>1, <1>2, <1>3, <3>3
      <4>2. Len(records) + 1 \in DOMAIN records'
        BY <2>2
      <4>. QED  BY <2>1, <2>2, <4>1, <4>2
    <3>. QED  BY <3>1, <3>2, <3>3
  <2>5. AuditsInv'
    BY <1>1, <1>2, <1>3, <2>4 DEF AuditsInv
  <2>6. (\A i \in DOMAIN records : StudyRecord(records[i]))'
    BY <2>3
  <2>. QED  BY <2>2, <2>5, <2>6
<1>7. CASE Next1.do # "audit"
  <2>1. records' = records
    BY <1>7 DEF Recorded
  <2>2. (\A i \in DOMAIN records : StudyRecord(records[i]))'
    BY <1>1, <1>4, <2>1 DEF StudyRecord, OthersOf, People, Target
  <2>3. ASSUME NEW q \in 1..(n + 1), w[q].do = "audit"
        PROVE  \E j \in DOMAIN records : records[j].seed = w[q].seed /\ records[j].via = w[q].via
    <3>1. q \in 1..n \/ q = n + 1
      OBVIOUS
    <3>2. q # n + 1
      BY <1>1, <1>2, <1>3, <1>7, <2>3
    <3>. QED  BY <1>5, <2>3, <3>1, <3>2
  <2>4. AuditsInv'
    BY <1>1, <1>2, <1>3, <2>1, <2>3 DEF AuditsInv
  <2>. QED  BY <1>4, <2>1, <2>2, <2>4
<1>. QED  BY <1>6, <1>7

\* Once the services are up, an operation that leaves them alone keeps its place.
LEMMA BodyPlace ==
  ASSUME StudyTypes, ScriptInv, StudyInv, study.program = "study", ~ raising, NEW verbs,
         Step(verbs), Next1.do \in TrialVerbs \union {"plan", "write"},
         inside' = inside, hosts' = hosts, output' \in {output, "result"}
  PROVE  Place >= 6 /\ Place \in Nat /\ StudyOutput' /\ StudyPlace' /\ (inside \/ Stopped)
<1>1. /\ Place \in Nat /\ Place + 1 \in 1..Len(Whole) /\ Next1 = Whole[Place + 1]
      /\ Place' = Place + 1 /\ Whole' = Whole /\ study' = study /\ OnScript
      /\ left' = left
  BY ScriptStep
<1>2. PICK n \in Nat : n = Place
  BY <1>1
<1>3. PICK w : w = Whole
  OBVIOUS
<1>4. study \in Studies
  BY DEF StudyTypes
<1>5. n >= 6
  <2>1. /\ Next1.do # "refuse existing" /\ Next1.do # "mkdir output" /\ Next1.do # "start postgres"
        /\ Next1.do # "start redis" /\ Next1.do # "start qdrant" /\ Next1.do # "ready"
    BY DEF TrialVerbs
  <2>. QED  BY <1>1, <1>2, <1>4, <2>1, StudyPlaces
<1>6. /\ n >= 2 => output # "none"
      /\ n >= 1 => left = {}
      /\ n >= 6 => inside \/ Stopped
      /\ inside => \E q \in (n + 1)..Len(w) : w[q].do = "stop"
  BY <1>1, <1>2, <1>3 DEF StudyInv, StudyPlace
<1>7. output # "none" /\ left = {} /\ (inside \/ Stopped)
  BY <1>5, <1>6
<1>8. ASSUME inside PROVE \E q \in ((n + 1) + 1)..Len(w) : w[q].do = "stop"
  <2>1. PICK q \in (n + 1)..Len(w) : w[q].do = "stop"
    BY <1>6, <1>8
  <2>2. q # n + 1
    <3>1. Next1.do # "stop"
      BY DEF TrialVerbs
    <3>. QED  BY <1>1, <1>2, <1>3, <2>1, <3>1
  <2>3. Len(w) \in Nat
    BY <1>3, <1>4, WholeFacts
  <2>4. q \in ((n + 1) + 1)..Len(w)
    BY <2>2, <2>3
  <2>. QED  BY <2>1, <2>4
<1>9. StudyOutput'
  BY <1>7 DEF StudyOutput
<1>10. StudyPlace'
  <2>1. output' # "none" /\ left' = {} /\ (inside' \/ Stopped')
    BY <1>1, <1>7 DEF Stopped
  <2>2. Place' >= 7 /\ ~ (Place' <= 5)
    BY <1>1, <1>2, <1>5
  <2>3. (inside => \E q \in (Place + 1)..Len(Whole) : Whole[q].do = "stop")'
    BY <1>1, <1>2, <1>3, <1>8
  <2>. QED  BY <2>1, <2>2, <2>3 DEF StudyPlace
<1>. QED  BY <1>2, <1>5, <1>7, <1>9, <1>10
-----------------------------------------------------------------------------
(* What one action does to the invariant.                                  *)

LEMMA NotRaising ==
  ASSUME StudyTypes, ScriptInv, NEW verbs, Step(verbs), "stop" \notin verbs
  PROVE  ~ raising
BY CleanUpStep

LEMMA StudyOnly ==
  ASSUME StudyTypes, ScriptInv, ~ raising, NEW verbs, Step(verbs),
         Next1.do \in (TrialVerbs \ {"delete source"}) \union {"plan", "mkdir output", "ready"}
  PROVE  study.program = "study"
<1>. SUFFICES ASSUME study.program # "study" PROVE FALSE
  OBVIOUS
<1>1. Place \in Nat /\ Place + 1 \in 1..Len(Whole) /\ Next1 = Whole[Place + 1]
  BY ScriptStep
<1>2. study \in Studies
  BY DEF StudyTypes
<1>3. Next1.do \in {"refuse existing", "start postgres", "started", "populate", "dump",
                    "delete source", "audit before", "delete derived", "unlink dump",
                    "audit after", "stop", "write"}
  BY <1>1, <1>2, PilotPlaces DEF PilotVerb
<1>. QED  BY <1>3 DEF TrialVerbs

LEMMA PilotOnly ==
  ASSUME StudyTypes, ScriptInv, ~ raising, NEW verbs, Step(verbs), Next1.do \in PilotVerbs
  PROVE  study.program # "study"
<1>. SUFFICES ASSUME study.program = "study" PROVE FALSE
  OBVIOUS
<1>1. Place \in Nat /\ Place + 1 \in 1..Len(Whole) /\ Next1 = Whole[Place + 1]
  BY ScriptStep
<1>2. study \in Studies
  BY DEF StudyTypes
<1>3. Next1.do \in BodyVerbs \union {"refuse existing", "mkdir output", "start postgres",
                                     "start redis", "start qdrant", "ready"}
  BY <1>1, <1>2, StudyPlaces
<1>. QED  BY <1>3 DEF PilotVerbs, BodyVerbs, TrialVerbs

LEMMA TrialStep ==
  ASSUME StudyTypes, ScriptInv, StudyInv, study.program = "study", ~ raising, NEW verbs,
         Step(verbs), Next1.do \in TrialVerbs \union {"plan", "write"},
         inside' = inside, hosts' = hosts, output' \in {output, "result"}, Recorded,
         \A seed \in Nat : \A i \in 1..25 :
           Next1 = RunTrial(seed)[i] /\ TrialFacts(i - 1, seed) => TrialMoves(i, seed)
  PROVE  ScriptInv' /\ StudyInv' /\ PilotInv' /\ records' \in Seq(AuditRecords)
<1>1. ScriptInv' /\ study' = study /\ OnScript
  BY ScriptStep
<1>2. StudyOutput' /\ StudyPlace'
  BY BodyPlace
<1>3. /\ (\A i \in DOMAIN records : StudyRecord(records[i]))'
      /\ AuditsInv' /\ records' \in Seq(AuditRecords)
  BY RecordsStep
<1>4. TrialsInv
  BY <1>1 DEF StudyInv
<1>5. TrialsInv'
  BY <1>4, TrialsStep
<1>6. StudyInv'
  BY <1>2, <1>3, <1>5 DEF StudyInv
<1>7. PilotInv'
  BY <1>1 DEF PilotInv
<1>. QED  BY <1>1, <1>3, <1>6, <1>7

LEMMA CopyIs ==
  ASSUME NEW c \in CopyRecords, NEW x, c.vector = x, c.cache = x, c.key = x, c.fit = x
  PROVE  c = [vector |-> x, cache |-> x, key |-> x, fit |-> x]
BY DEF CopyRecords

LEMMA OthersSize ==
  ASSUME study \in Studies, NEW seed \in Nat
  PROVE  /\ Target(seed) \in People /\ People \in SUBSET Nat /\ Target(seed) \in Nat
         /\ Cardinality(People \ {Target(seed)}) = study.people - 1
         /\ study.people - 1 \in Nat
<1>. DEFINE m == study.people
            t == Target(seed)
<1>1. m \in Nat /\ m >= 2
  BY ArgumentFacts
<1>2. t = seed % m /\ People = 0..(m - 1)
  BY DEF Target, People
<1>. HIDE DEF m, t
<1>3. t \in 0..(m - 1) /\ t \in Nat /\ 0..(m - 1) \in SUBSET Nat /\ m - 1 \in Nat
  BY <1>1, <1>2
<1>4. IsFiniteSet(0..(m - 1)) /\ Cardinality(0..(m - 1)) = m
  <2>1. IsFiniteSet(0..(m - 1)) /\ Cardinality(0..(m - 1)) = IF 0 > m - 1 THEN 0 ELSE (m - 1) - 0 + 1
    <3>1. 0 \in Int /\ m - 1 \in Int
      BY <1>1
    <3>. QED  BY <3>1, FS_Interval
  <2>. QED  BY <1>1, <2>1
<1>5. Cardinality((0..(m - 1)) \ {t}) = m - 1
  <2>1. PICK S : S = 0..(m - 1)
    OBVIOUS
  <2>2. IsFiniteSet(S) /\ Cardinality(S) = m /\ t \in S
    BY <1>3, <1>4, <2>1
  <2>3. Cardinality(S \ {t}) = Cardinality(S) - 1
    BY <2>2, FS_RemoveElement
  <2>. QED  BY <2>1, <2>2, <2>3
<1>. QED  BY <1>2, <1>3, <1>5 DEF m, t

LEMMA AuditRecorded ==
  ASSUME StudyTypes, ScriptInv, StudyInv, AuditStrategy
  PROVE  Recorded /\ Next1.do = "audit" /\ Next1.via \in Strategies
<1>0. Step({"audit"}) /\ Next1.do = "audit"
  BY DEF AuditStrategy, OnStores, Step
<1>1. ~ raising
  BY <1>0, NotRaising
<1>2. /\ Place \in Nat /\ Place + 1 \in 1..Len(Whole) /\ Next1 = Whole[Place + 1] /\ OnScript
      /\ Next1 \in Operations
  BY <1>0, <1>1, ScriptStep
<1>3. study.program = "study"
  <2>1. Next1.do \in TrialVerbs \ {"delete source"}
    BY <1>0 DEF TrialVerbs
  <2>. QED  BY <1>0, <1>1, <2>1, StudyOnly
<1>4. study \in Studies
  BY DEF StudyTypes
<1>5. PICK n \in Nat : n = Place
  BY <1>2
<1>6. PICK b \in Nat : \E seed \in Nat : b < n + 1 /\ n + 1 <= b + 25 /\ TrialAt(Whole, b, seed)
  <2>1. InTrials(Whole)
    BY <1>3, <1>4, WholeFacts DEF Entering
  <2>2. Whole[n + 1].do \in TrialVerbs
    BY <1>0, <1>2, <1>5 DEF TrialVerbs
  <2>. QED  BY <1>2, <1>5, <2>1, <2>2 DEF InTrials
<1>7. PICK seed \in Nat : b < n + 1 /\ n + 1 <= b + 25 /\ TrialAt(Whole, b, seed)
  BY <1>6
<1>8. PICK i \in 1..25 : i = (n + 1) - b
  BY <1>7
<1>9. i - 1 = n - b /\ b + i = n + 1 /\ b \in 0..n /\ n <= b + 25
  BY <1>7, <1>8
<1>10. Next1 = RunTrial(seed)[i]
  BY <1>2, <1>5, <1>7, <1>9 DEF TrialAt
<1>11. TrialFacts(i - 1, seed)
  <2>1. TrialsInv
    BY <1>2, <1>3 DEF StudyInv
  <2>2. TrialFacts(n - b, seed)
    BY <1>5, <1>7, <1>9, <2>1 DEF TrialsInv
  <2>. QED  BY <1>9, <2>2
<1>. DEFINE p == BeforeTargeted(seed)
            q == BeforeRebuild(seed)
            t == Target(seed)
            others == People \ {t}
            copy == copies[Next1.via]
<1>12. (p = 12 /\ q = 17) \/ (p = 18 /\ q = 12)
  BY Orders
<1>13. /\ Next1.seed = seed
       /\ (i = p + 5 /\ Next1.via = Targeted) \/ (i = q + 6 /\ Next1.via = RebuildAll)
  <2>1. VerbAt(i, p, q, Next1.do, Next1.via) /\ Next1.seed = seed
    BY <1>10, OperationHere
  <2>. HIDE DEF p, q
  <2>. QED  BY <1>0, <2>1 DEF VerbAt
<1>. HIDE DEF p, q, t, others, copy
<1>14. retained = others
  <2>1. i - 1 \in 12..22
    BY <1>12, <1>13
  <2>. QED  BY <1>11, <2>1 DEF TrialFacts, SourceFacts, Turns, others, t
<1>15. copy.vector = others /\ copy.cache = others /\ copy.key = others /\ copy.fit = others
  <2>1. CASE i = p + 5 /\ Next1.via = Targeted
    <3>1. /\ i - 1 \in (p + 1)..23 /\ i - 1 \in (p + 1 + 1)..23 /\ i - 1 \in (p + 2 + 1)..23
          /\ i - 1 \in (p + 3 + 1)..23
      BY <1>12, <2>1
    <3>. QED  BY <1>11, <2>1, <3>1 DEF TrialFacts, TargetedFacts, Turns, others, t, copy, p
  <2>2. CASE i = q + 6 /\ Next1.via = RebuildAll
    <3>1. /\ i - 1 \in (q + 1 + 1)..23 /\ i - 1 \in (q + 2 + 1)..23 /\ i - 1 \in (q + 3 + 1)..23
          /\ i - 1 \in (q + 5)..22
      BY <1>12, <2>2
    <3>. QED  BY <1>11, <2>2, <3>1 DEF TrialFacts, RebuildFacts, Turns, others, t, copy, q
  <2>. QED  BY <1>13, <2>1, <2>2
<1>16. Next1.via \in Strategies /\ copy \in CopyRecords
  <2>1. Next1.via \in Strategies
    BY <1>13 DEF Strategies
  <2>. QED  BY <2>1 DEF StudyTypes, copy
<1>17. copy = OthersOf(t)
  BY <1>15, <1>16, CopyIs DEF OthersOf, others
<1>18. t \in Nat /\ Cardinality(others) = study.people - 1 /\ study.people - 1 \in Nat
  BY <1>4, OthersSize DEF others, t
<1>19. PcugVerdict(copy, t) = "COMPLETE"
  BY <1>14, <1>15 DEF PcugVerdict, others
<1>20. Fewest({Cardinality(copy.vector), Cardinality(copy.cache \intersect retained),
               Cardinality(copy.key \intersect retained)}) = study.people - 1
  <2>1. PICK m \in Nat : m = study.people - 1
    BY <1>18
  <2>2. others \intersect others = others
    OBVIOUS
  <2>3. {Cardinality(copy.vector), Cardinality(copy.cache \intersect retained),
         Cardinality(copy.key \intersect retained)} = {m}
    BY <1>14, <1>15, <1>18, <2>1, <2>2
  <2>4. Fewest({m}) = m
    BY DEF Fewest
  <2>. QED  BY <2>1, <2>3, <2>4
<1>21. PICK r : r = [seed |-> seed, via |-> Next1.via, target |-> t, stores |-> copy,
                     verdict |-> "COMPLETE", retained |-> study.people - 1]
  OBVIOUS
<1>22. records' = Append(records, r)
  BY <1>13, <1>19, <1>20, <1>21 DEF AuditStrategy, t, copy
<1>23. /\ r.seed = seed /\ r.via = Next1.via /\ r.target = t /\ r.stores = copy
       /\ r.verdict = "COMPLETE" /\ r.retained = study.people - 1
  BY <1>21
<1>24. r \in AuditRecords
  <2>1. Next1.via \in Vias
    BY <1>13, VerbLists
  <2>2. study.people - 1 \in Int /\ seed \in Nat /\ t \in Nat
    BY <1>18
  <2>. QED  BY <1>16, <1>21, <2>1, <2>2 DEF AuditRecords
<1>25. StudyRecord(r)
  BY <1>17, <1>23 DEF StudyRecord, t
<1>. QED  BY <1>0, <1>13, <1>16, <1>22, <1>23, <1>24, <1>25 DEF Recorded
-----------------------------------------------------------------------------
(* The operations of the trials keep the invariant.                        *)

LEMMA PeopleNumbers ==
  ASSUME study \in Studies
  PROVE  People \in SUBSET Nat
BY ArgumentFacts DEF People

Copies == [Strategies \union {PilotCopy} -> CopyRecords]

LEMMA TypesStep ==
  ASSUME StudyTypes, ScriptInv, ~ raising, NEW verbs, Step(verbs), inside' \in BOOLEAN,
         copies' \in Copies, rows' \in SUBSET Nat, retained' \in SUBSET Nat,
         records' \in Seq(AuditRecords)
  PROVE  StudyTypes'
<1>1. study' = study /\ script' \in Seq(Operations) /\ outcome' = "running" /\ ~ raising'
  BY ScriptStep
<1>2. raising' \in BOOLEAN
  BY DEF Step, StudyTypes
<1>. QED  BY <1>1, <1>2 DEF StudyTypes, Copies

LEMMA ChangedTypes ==
  ASSUME NEW c \in CopyRecords, NEW x \in SUBSET Nat
  PROVE  /\ [c EXCEPT !.vector = x] \in CopyRecords /\ [c EXCEPT !.cache = x] \in CopyRecords
         /\ [c EXCEPT !.key = x] \in CopyRecords /\ [c EXCEPT !.fit = x] \in CopyRecords
BY DEF CopyRecords

LEMMA CopyPut ==
  ASSUME StudyTypes, NEW via \in Strategies \union {PilotCopy}, NEW new \in CopyRecords,
         copies' = [copies EXCEPT ![via] = new]
  PROVE  copies' \in Copies
BY DEF StudyTypes, Copies

LEMMA SetupTypes ==
  ASSUME StudyTypes, SetupDerivatives, Next1.via \in Strategies
  PROVE  copies' \in Copies
<1>. DEFINE via == Next1.via
            c == copies[via]
            new == CASE Next1.do = "set vector" -> [c EXCEPT !.vector = People]
                     [] Next1.do = "set cache" -> [c EXCEPT !.cache = People]
                     [] Next1.do = "set backups" -> [c EXCEPT !.key = People]
                     [] OTHER -> [c EXCEPT !.fit = People]
<1>1. copies' = [copies EXCEPT ![via] = new]
  BY DEF SetupDerivatives
<1>2. c \in CopyRecords /\ People \in SUBSET Nat
  BY Places, PeopleNumbers DEF Strategies, StudyTypes
<1>3. new \in CopyRecords
  <2>. HIDE DEF c
  <2>. QED  BY <1>2, ChangedTypes
<1>. HIDE DEF new
<1>. QED  BY <1>1, <1>3, CopyPut

LEMMA TargetedTypes ==
  ASSUME StudyTypes, TargetedRemediation
  PROVE  copies' \in Copies
<1>. DEFINE c == copies[Targeted]
            gone == {Target(Next1.seed)}
            new == CASE Next1.do = "delete point" -> [c EXCEPT !.vector = c.vector \ gone]
                     [] Next1.do = "delete entry" -> [c EXCEPT !.cache = c.cache \ gone]
                     [] Next1.do = "unlink key" -> [c EXCEPT !.key = c.key \ gone]
                     [] OTHER -> [c EXCEPT !.fit = c.fit \ gone]
<1>1. copies' = [copies EXCEPT ![Targeted] = new]
  BY DEF TargetedRemediation
<1>2. c \in CopyRecords
  BY Places
<1>3. new \in CopyRecords
  <2>. HIDE DEF c, gone
  <2>1. /\ c.vector \ gone \in SUBSET Nat /\ c.cache \ gone \in SUBSET Nat
        /\ c.key \ gone \in SUBSET Nat /\ c.fit \ gone \in SUBSET Nat
    BY <1>2 DEF CopyRecords
  <2>. QED  BY <1>2, <2>1, ChangedTypes
<1>. HIDE DEF new
<1>. QED  BY <1>1, <1>3, CopyPut DEF Strategies

LEMMA RebuildTypes ==
  ASSUME StudyTypes, RebuildRemediation
  PROVE  copies' \in Copies
<1>. DEFINE c == copies[RebuildAll]
            new == CASE Next1.do = "drop collection" -> [c EXCEPT !.vector = {}]
                     [] Next1.do = "fill collection" -> [c EXCEPT !.vector = c.vector \union retained]
                     [] Next1.do = "refill cache" -> [c EXCEPT !.cache = (c.cache \ People) \union retained]
                     [] Next1.do = "restage backups" -> [c EXCEPT !.key = c.key \intersect retained]
                     [] OTHER -> [c EXCEPT !.fit = retained]
<1>1. copies' = [copies EXCEPT ![RebuildAll] = new]
  BY DEF RebuildRemediation
<1>2. c \in CopyRecords /\ retained \in SUBSET Nat
  BY Places DEF StudyTypes
<1>3. new \in CopyRecords
  <2>. HIDE DEF c
  <2>1. /\ {} \in SUBSET Nat /\ c.vector \union retained \in SUBSET Nat
        /\ (c.cache \ People) \union retained \in SUBSET Nat
        /\ c.key \intersect retained \in SUBSET Nat
    BY <1>2 DEF CopyRecords
  <2>. QED  BY <1>2, <2>1, ChangedTypes
<1>. HIDE DEF new
<1>. QED  BY <1>1, <1>3, CopyPut DEF Strategies

LEMMA ClearTypes ==
  ASSUME StudyTypes, ClearCopies, Next1.via \in Strategies
  PROVE  copies' \in Copies
<1>. DEFINE c == copies[Next1.via]
            new == [[c EXCEPT !.vector = {}] EXCEPT !.cache = c.cache \ People]
<1>1. copies' = [copies EXCEPT ![Next1.via] = new]
  BY DEF ClearCopies
<1>2. c \in CopyRecords
  BY Places DEF Strategies, StudyTypes
<1>3. new \in CopyRecords
  <2>. HIDE DEF c
  <2>1. {} \in SUBSET Nat /\ c.cache \ People \in SUBSET Nat
    BY <1>2 DEF CopyRecords
  <2>. QED  BY <1>2, <2>1, ChangedTypes
<1>. HIDE DEF new
<1>. QED  BY <1>1, <1>3, CopyPut

\* An operation of a trial is one of the rows of its table.
LEMMA InTrial ==
  ASSUME StudyTypes, ScriptInv, ~ raising, study.program = "study", NEW verbs, Step(verbs),
         Next1.do \in TrialVerbs
  PROVE  \E seed \in Nat : \E i \in 1..25 : Next1 = RunTrial(seed)[i]
<1>1. Place \in Nat /\ Place + 1 \in 1..Len(Whole) /\ Next1 = Whole[Place + 1]
  BY ScriptStep
<1>2. study \in Studies
  BY DEF StudyTypes
<1>3. InTrials(Whole)
  BY <1>2, WholeFacts DEF Entering
<1>4. PICK n \in Nat : n = Place
  BY <1>1
<1>5. PICK b \in Nat : \E seed \in Nat : b < n + 1 /\ n + 1 <= b + 25 /\ TrialAt(Whole, b, seed)
  BY <1>1, <1>3, <1>4 DEF InTrials
<1>6. PICK seed \in Nat : b < n + 1 /\ n + 1 <= b + 25 /\ TrialAt(Whole, b, seed)
  BY <1>5
<1>7. PICK i \in 1..25 : i = (n + 1) - b
  BY <1>6
<1>8. b + i = n + 1
  BY <1>7
<1>9. Next1 = RunTrial(seed)[i]
  BY <1>1, <1>4, <1>6, <1>8 DEF TrialAt
<1>. QED  BY <1>9

LEMMA ViaIs ==
  ASSUME StudyTypes, ScriptInv, ~ raising, study.program = "study", NEW verbs, Step(verbs),
         Next1.do \in {"set vector", "set cache", "set backups", "set model", "clear"}
  PROVE  Next1.via \in Strategies
<1>1. PICK seed \in Nat : \E i \in 1..25 : Next1 = RunTrial(seed)[i]
  <2>1. Next1.do \in TrialVerbs
    BY DEF TrialVerbs
  <2>. QED  BY <2>1, InTrial
<1>2. PICK i \in 1..25 : Next1 = RunTrial(seed)[i]
  BY <1>1
<1>3. VerbAt(i, BeforeTargeted(seed), BeforeRebuild(seed), Next1.do, Next1.via)
  BY <1>2, OperationHere
<1>4. Next1.via = Targeted \/ Next1.via = RebuildAll
  BY <1>3, Zenon DEF VerbAt
<1>. QED  BY <1>4 DEF Strategies

LEMMA LoadKeeps ==
  ASSUME StudyIInv, LoadSource
  PROVE  StudyIInv'
<1>0. StudyTypes /\ ScriptInv /\ StudyInv /\ ResultInv
  BY DEF StudyIInv
<1>1. Step({"load"})
  BY DEF LoadSource, OnSource, OnStores
<1>2. inside' = inside /\ hosts' = hosts /\ output' = output /\ result' = result
  BY DEF LoadSource, OnSource, OnStores, Step, findings
<1>3. selected' = selected
  BY DEF LoadSource, OnSource, OnStores, Step, findings
<1>4. Next1.do \in {"load"}
  BY DEF LoadSource, OnSource, OnStores, Step, findings
<1>5. Next1.do \in TrialVerbs \ {"delete source"}
  BY <1>4 DEF TrialVerbs
<1>6. ~ raising
  BY <1>0, <1>1, NotRaising
<1>7. study.program = "study"
  BY <1>0, <1>1, <1>5, <1>6, StudyOnly
<1>8. \A seed \in Nat : \A i \in 1..25 :
        Next1 = RunTrial(seed)[i] /\ TrialFacts(i - 1, seed) => TrialMoves(i, seed)
  BY <1>0, LoadMoves
<1>9. Recorded
  <2>1. records' = records
    BY DEF LoadSource, OnSource, OnStores, Step, findings
  <2>2. Next1.do # "audit"
    BY <1>4
  <2>. QED  BY <2>1, <2>2 DEF Recorded
<1>10. ScriptInv' /\ StudyInv' /\ PilotInv' /\ records' \in Seq(AuditRecords)
  BY <1>0, <1>1, <1>2, <1>5, <1>6, <1>7, <1>8, <1>9, TrialStep
<1>11. StudyTypes'
  <2>1. copies' \in Copies
    BY <1>0 DEF LoadSource, OnSource, OnStores, Step, findings, StudyTypes, Copies
  <2>2. rows' = People
    BY DEF LoadSource
  <2>3. rows' \in SUBSET Nat
    BY <1>0, <2>2, PeopleNumbers DEF StudyTypes
  <2>4. retained' \in SUBSET Nat
    BY <1>0 DEF LoadSource, OnSource, OnStores, Step, findings, StudyTypes
  <2>5. inside' \in BOOLEAN
    BY <1>0, <1>2 DEF StudyTypes
  <2>. QED  BY <1>0, <1>1, <1>6, <1>10, <2>1, <2>3, <2>4, <2>5, TypesStep
<1>12. ResultInv'
  <2>1. study' = study
    BY <1>1 DEF Step
  <2>. QED  BY <1>0, <1>2, <1>3, <2>1 DEF ResultInv
<1>. QED  BY <1>10, <1>11, <1>12 DEF StudyIInv

LEMMA DirectoryKeeps ==
  ASSUME StudyIInv, MakeTrialDirectory
  PROVE  StudyIInv'
<1>0. StudyTypes /\ ScriptInv /\ StudyInv /\ ResultInv
  BY DEF StudyIInv
<1>1. Step({"mkdir trial"})
  BY DEF MakeTrialDirectory, OnStores
<1>2. inside' = inside /\ hosts' = hosts /\ output' = output /\ result' = result
  BY DEF MakeTrialDirectory, OnStores, Step, findings
<1>3. selected' = selected
  BY DEF MakeTrialDirectory, OnStores, Step, findings
<1>4. Next1.do \in {"mkdir trial"}
  BY DEF MakeTrialDirectory, OnStores, Step, findings
<1>5. Next1.do \in TrialVerbs \ {"delete source"}
  BY <1>4 DEF TrialVerbs
<1>6. ~ raising
  BY <1>0, <1>1, NotRaising
<1>7. study.program = "study"
  BY <1>0, <1>1, <1>5, <1>6, StudyOnly
<1>8. \A seed \in Nat : \A i \in 1..25 :
        Next1 = RunTrial(seed)[i] /\ TrialFacts(i - 1, seed) => TrialMoves(i, seed)
  BY <1>0, DirectoryMoves
<1>9. Recorded
  <2>1. records' = records
    BY DEF MakeTrialDirectory, OnStores, Step, findings
  <2>2. Next1.do # "audit"
    BY <1>4
  <2>. QED  BY <2>1, <2>2 DEF Recorded
<1>10. ScriptInv' /\ StudyInv' /\ PilotInv' /\ records' \in Seq(AuditRecords)
  BY <1>0, <1>1, <1>2, <1>5, <1>6, <1>7, <1>8, <1>9, TrialStep
<1>11. StudyTypes'
  <2>1. copies' \in Copies
    BY <1>0 DEF MakeTrialDirectory, OnStores, Step, findings, StudyTypes, Copies
  <2>3. rows' \in SUBSET Nat
    BY <1>0 DEF MakeTrialDirectory, OnStores, Step, findings, StudyTypes
  <2>4. retained' \in SUBSET Nat
    BY <1>0 DEF MakeTrialDirectory, OnStores, Step, findings, StudyTypes
  <2>5. inside' \in BOOLEAN
    BY <1>0, <1>2 DEF StudyTypes
  <2>. QED  BY <1>0, <1>1, <1>6, <1>10, <2>1, <2>3, <2>4, <2>5, TypesStep
<1>12. ResultInv'
  <2>1. study' = study
    BY <1>1 DEF Step
  <2>. QED  BY <1>0, <1>2, <1>3, <2>1 DEF ResultInv
<1>. QED  BY <1>10, <1>11, <1>12 DEF StudyIInv

LEMMA SetupKeeps ==
  ASSUME StudyIInv, SetupDerivatives
  PROVE  StudyIInv'
<1>0. StudyTypes /\ ScriptInv /\ StudyInv /\ ResultInv
  BY DEF StudyIInv
<1>1. Step({"set vector", "set cache", "set backups", "set model"})
  BY DEF SetupDerivatives, OnCopies, OnStores
<1>2. inside' = inside /\ hosts' = hosts /\ output' = output /\ result' = result
  BY DEF SetupDerivatives, OnCopies, OnStores, Step, findings
<1>3. selected' = selected
  BY DEF SetupDerivatives, OnCopies, OnStores, Step, findings
<1>4. Next1.do \in {"set vector", "set cache", "set backups", "set model"}
  BY DEF SetupDerivatives, OnCopies, OnStores, Step, findings
<1>5. Next1.do \in TrialVerbs \ {"delete source"}
  BY <1>4 DEF TrialVerbs
<1>6. ~ raising
  BY <1>0, <1>1, NotRaising
<1>7. study.program = "study"
  BY <1>0, <1>1, <1>5, <1>6, StudyOnly
<1>8. \A seed \in Nat : \A i \in 1..25 :
        Next1 = RunTrial(seed)[i] /\ TrialFacts(i - 1, seed) => TrialMoves(i, seed)
  BY <1>0, SetupMoves
<1>9. Recorded
  <2>1. records' = records
    BY DEF SetupDerivatives, OnCopies, OnStores, Step, findings
  <2>2. Next1.do # "audit"
    BY <1>4
  <2>. QED  BY <2>1, <2>2 DEF Recorded
<1>10. ScriptInv' /\ StudyInv' /\ PilotInv' /\ records' \in Seq(AuditRecords)
  BY <1>0, <1>1, <1>2, <1>5, <1>6, <1>7, <1>8, <1>9, TrialStep
<1>11. StudyTypes'
  <2>0. Next1.via \in Strategies
    BY <1>0, <1>1, <1>4, <1>6, <1>7, ViaIs
  <2>1. copies' \in Copies
    BY <1>0, <2>0, SetupTypes
  <2>3. rows' \in SUBSET Nat
    BY <1>0 DEF SetupDerivatives, OnCopies, OnStores, Step, findings, StudyTypes
  <2>4. retained' \in SUBSET Nat
    BY <1>0 DEF SetupDerivatives, OnCopies, OnStores, Step, findings, StudyTypes
  <2>5. inside' \in BOOLEAN
    BY <1>0, <1>2 DEF StudyTypes
  <2>. QED  BY <1>0, <1>1, <1>6, <1>10, <2>1, <2>3, <2>4, <2>5, TypesStep
<1>12. ResultInv'
  <2>1. study' = study
    BY <1>1 DEF Step
  <2>. QED  BY <1>0, <1>2, <1>3, <2>1 DEF ResultInv
<1>. QED  BY <1>10, <1>11, <1>12 DEF StudyIInv

LEMMA RetainedKeeps ==
  ASSUME StudyIInv, ReadRetained
  PROVE  StudyIInv'
<1>0. StudyTypes /\ ScriptInv /\ StudyInv /\ ResultInv
  BY DEF StudyIInv
<1>1. Step({"read retained"})
  BY DEF ReadRetained, OnStores
<1>2. inside' = inside /\ hosts' = hosts /\ output' = output /\ result' = result
  BY DEF ReadRetained, OnStores, Step, places
<1>3. selected' = selected
  BY DEF ReadRetained, OnStores, Step, places
<1>4. Next1.do \in {"read retained"}
  BY DEF ReadRetained, OnStores, Step, places
<1>5. Next1.do \in TrialVerbs \ {"delete source"}
  BY <1>4 DEF TrialVerbs
<1>6. ~ raising
  BY <1>0, <1>1, NotRaising
<1>7. study.program = "study"
  BY <1>0, <1>1, <1>5, <1>6, StudyOnly
<1>8. \A seed \in Nat : \A i \in 1..25 :
        Next1 = RunTrial(seed)[i] /\ TrialFacts(i - 1, seed) => TrialMoves(i, seed)
  BY <1>0, RetainedMoves
<1>9. Recorded
  <2>1. records' = records
    BY DEF ReadRetained, OnStores, Step, places
  <2>2. Next1.do # "audit"
    BY <1>4
  <2>. QED  BY <2>1, <2>2 DEF Recorded
<1>10. ScriptInv' /\ StudyInv' /\ PilotInv' /\ records' \in Seq(AuditRecords)
  BY <1>0, <1>1, <1>2, <1>5, <1>6, <1>7, <1>8, <1>9, TrialStep
<1>11. StudyTypes'
  <2>1. copies' \in Copies
    BY <1>0 DEF ReadRetained, OnStores, Step, places, StudyTypes, Copies
  <2>3. rows' \in SUBSET Nat
    BY <1>0 DEF ReadRetained, OnStores, Step, places, StudyTypes
  <2>4. retained' \in SUBSET Nat
    BY <1>0 DEF ReadRetained, OnStores, Step, places, StudyTypes
  <2>5. inside' \in BOOLEAN
    BY <1>0, <1>2 DEF StudyTypes
  <2>. QED  BY <1>0, <1>1, <1>6, <1>10, <2>1, <2>3, <2>4, <2>5, TypesStep
<1>12. ResultInv'
  <2>1. study' = study
    BY <1>1 DEF Step
  <2>. QED  BY <1>0, <1>2, <1>3, <2>1 DEF ResultInv
<1>. QED  BY <1>10, <1>11, <1>12 DEF StudyIInv

LEMMA TargetedKeeps ==
  ASSUME StudyIInv, TargetedRemediation
  PROVE  StudyIInv'
<1>0. StudyTypes /\ ScriptInv /\ StudyInv /\ ResultInv
  BY DEF StudyIInv
<1>1. Step({"delete point", "delete entry", "unlink key", "subtract"})
  BY DEF TargetedRemediation, OnCopies, OnStores
<1>2. inside' = inside /\ hosts' = hosts /\ output' = output /\ result' = result
  BY DEF TargetedRemediation, OnCopies, OnStores, Step, findings
<1>3. selected' = selected
  BY DEF TargetedRemediation, OnCopies, OnStores, Step, findings
<1>4. Next1.do \in {"delete point", "delete entry", "unlink key", "subtract"}
  BY DEF TargetedRemediation, OnCopies, OnStores, Step, findings
<1>5. Next1.do \in TrialVerbs \ {"delete source"}
  BY <1>4 DEF TrialVerbs
<1>6. ~ raising
  BY <1>0, <1>1, NotRaising
<1>7. study.program = "study"
  BY <1>0, <1>1, <1>5, <1>6, StudyOnly
<1>8. \A seed \in Nat : \A i \in 1..25 :
        Next1 = RunTrial(seed)[i] /\ TrialFacts(i - 1, seed) => TrialMoves(i, seed)
  BY <1>0, TargetedRemediationMoves
<1>9. Recorded
  <2>1. records' = records
    BY DEF TargetedRemediation, OnCopies, OnStores, Step, findings
  <2>2. Next1.do # "audit"
    BY <1>4
  <2>. QED  BY <2>1, <2>2 DEF Recorded
<1>10. ScriptInv' /\ StudyInv' /\ PilotInv' /\ records' \in Seq(AuditRecords)
  BY <1>0, <1>1, <1>2, <1>5, <1>6, <1>7, <1>8, <1>9, TrialStep
<1>11. StudyTypes'
  <2>1. copies' \in Copies
    BY <1>0, TargetedTypes
  <2>3. rows' \in SUBSET Nat
    BY <1>0 DEF TargetedRemediation, OnCopies, OnStores, Step, findings, StudyTypes
  <2>4. retained' \in SUBSET Nat
    BY <1>0 DEF TargetedRemediation, OnCopies, OnStores, Step, findings, StudyTypes
  <2>5. inside' \in BOOLEAN
    BY <1>0, <1>2 DEF StudyTypes
  <2>. QED  BY <1>0, <1>1, <1>6, <1>10, <2>1, <2>3, <2>4, <2>5, TypesStep
<1>12. ResultInv'
  <2>1. study' = study
    BY <1>1 DEF Step
  <2>. QED  BY <1>0, <1>2, <1>3, <2>1 DEF ResultInv
<1>. QED  BY <1>10, <1>11, <1>12 DEF StudyIInv

LEMMA RebuildKeeps ==
  ASSUME StudyIInv, RebuildRemediation
  PROVE  StudyIInv'
<1>0. StudyTypes /\ ScriptInv /\ StudyInv /\ ResultInv
  BY DEF StudyIInv
<1>1. Step({"drop collection", "fill collection", "refill cache", "restage backups", "refit"})
  BY DEF RebuildRemediation, OnCopies, OnStores
<1>2. inside' = inside /\ hosts' = hosts /\ output' = output /\ result' = result
  BY DEF RebuildRemediation, OnCopies, OnStores, Step, findings
<1>3. selected' = selected
  BY DEF RebuildRemediation, OnCopies, OnStores, Step, findings
<1>4. Next1.do \in {"drop collection", "fill collection", "refill cache", "restage backups", "refit"}
  BY DEF RebuildRemediation, OnCopies, OnStores, Step, findings
<1>5. Next1.do \in TrialVerbs \ {"delete source"}
  BY <1>4 DEF TrialVerbs
<1>6. ~ raising
  BY <1>0, <1>1, NotRaising
<1>7. study.program = "study"
  BY <1>0, <1>1, <1>5, <1>6, StudyOnly
<1>8. \A seed \in Nat : \A i \in 1..25 :
        Next1 = RunTrial(seed)[i] /\ TrialFacts(i - 1, seed) => TrialMoves(i, seed)
  BY <1>0, RebuildRemediationMoves
<1>9. Recorded
  <2>1. records' = records
    BY DEF RebuildRemediation, OnCopies, OnStores, Step, findings
  <2>2. Next1.do # "audit"
    BY <1>4
  <2>. QED  BY <2>1, <2>2 DEF Recorded
<1>10. ScriptInv' /\ StudyInv' /\ PilotInv' /\ records' \in Seq(AuditRecords)
  BY <1>0, <1>1, <1>2, <1>5, <1>6, <1>7, <1>8, <1>9, TrialStep
<1>11. StudyTypes'
  <2>1. copies' \in Copies
    BY <1>0, RebuildTypes
  <2>3. rows' \in SUBSET Nat
    BY <1>0 DEF RebuildRemediation, OnCopies, OnStores, Step, findings, StudyTypes
  <2>4. retained' \in SUBSET Nat
    BY <1>0 DEF RebuildRemediation, OnCopies, OnStores, Step, findings, StudyTypes
  <2>5. inside' \in BOOLEAN
    BY <1>0, <1>2 DEF StudyTypes
  <2>. QED  BY <1>0, <1>1, <1>6, <1>10, <2>1, <2>3, <2>4, <2>5, TypesStep
<1>12. ResultInv'
  <2>1. study' = study
    BY <1>1 DEF Step
  <2>. QED  BY <1>0, <1>2, <1>3, <2>1 DEF ResultInv
<1>. QED  BY <1>10, <1>11, <1>12 DEF StudyIInv

LEMMA AuditKeeps ==
  ASSUME StudyIInv, AuditStrategy
  PROVE  StudyIInv'
<1>0. StudyTypes /\ ScriptInv /\ StudyInv /\ ResultInv
  BY DEF StudyIInv
<1>1. Step({"audit"})
  BY DEF AuditStrategy, OnStores
<1>2. inside' = inside /\ hosts' = hosts /\ output' = output /\ result' = result
  BY DEF AuditStrategy, OnStores, Step, places
<1>3. selected' = selected
  BY DEF AuditStrategy, OnStores, Step, places
<1>4. Next1.do \in {"audit"}
  BY DEF AuditStrategy, OnStores, Step, places
<1>5. Next1.do \in TrialVerbs \ {"delete source"}
  BY <1>4 DEF TrialVerbs
<1>6. ~ raising
  BY <1>0, <1>1, NotRaising
<1>7. study.program = "study"
  BY <1>0, <1>1, <1>5, <1>6, StudyOnly
<1>8. \A seed \in Nat : \A i \in 1..25 :
        Next1 = RunTrial(seed)[i] /\ TrialFacts(i - 1, seed) => TrialMoves(i, seed)
  BY <1>0, AuditMoves
<1>9. Recorded
  BY <1>0, AuditRecorded
<1>10. ScriptInv' /\ StudyInv' /\ PilotInv' /\ records' \in Seq(AuditRecords)
  BY <1>0, <1>1, <1>2, <1>5, <1>6, <1>7, <1>8, <1>9, TrialStep
<1>11. StudyTypes'
  <2>1. copies' \in Copies
    BY <1>0 DEF AuditStrategy, OnStores, Step, places, StudyTypes, Copies
  <2>3. rows' \in SUBSET Nat
    BY <1>0 DEF AuditStrategy, OnStores, Step, places, StudyTypes
  <2>4. retained' \in SUBSET Nat
    BY <1>0 DEF AuditStrategy, OnStores, Step, places, StudyTypes
  <2>5. inside' \in BOOLEAN
    BY <1>0, <1>2 DEF StudyTypes
  <2>. QED  BY <1>0, <1>1, <1>6, <1>10, <2>1, <2>3, <2>4, <2>5, TypesStep
<1>12. ResultInv'
  <2>1. study' = study
    BY <1>1 DEF Step
  <2>. QED  BY <1>0, <1>2, <1>3, <2>1 DEF ResultInv
<1>. QED  BY <1>10, <1>11, <1>12 DEF StudyIInv

LEMMA ClearKeeps ==
  ASSUME StudyIInv, ClearCopies
  PROVE  StudyIInv'
<1>0. StudyTypes /\ ScriptInv /\ StudyInv /\ ResultInv
  BY DEF StudyIInv
<1>1. Step({"clear"})
  BY DEF ClearCopies, OnCopies, OnStores
<1>2. inside' = inside /\ hosts' = hosts /\ output' = output /\ result' = result
  BY DEF ClearCopies, OnCopies, OnStores, Step, findings
<1>3. selected' = selected
  BY DEF ClearCopies, OnCopies, OnStores, Step, findings
<1>4. Next1.do \in {"clear"}
  BY DEF ClearCopies, OnCopies, OnStores, Step, findings
<1>5. Next1.do \in TrialVerbs \ {"delete source"}
  BY <1>4 DEF TrialVerbs
<1>6. ~ raising
  BY <1>0, <1>1, NotRaising
<1>7. study.program = "study"
  BY <1>0, <1>1, <1>5, <1>6, StudyOnly
<1>8. \A seed \in Nat : \A i \in 1..25 :
        Next1 = RunTrial(seed)[i] /\ TrialFacts(i - 1, seed) => TrialMoves(i, seed)
  BY <1>0, ClearMoves
<1>9. Recorded
  <2>1. records' = records
    BY DEF ClearCopies, OnCopies, OnStores, Step, findings
  <2>2. Next1.do # "audit"
    BY <1>4
  <2>. QED  BY <2>1, <2>2 DEF Recorded
<1>10. ScriptInv' /\ StudyInv' /\ PilotInv' /\ records' \in Seq(AuditRecords)
  BY <1>0, <1>1, <1>2, <1>5, <1>6, <1>7, <1>8, <1>9, TrialStep
<1>11. StudyTypes'
  <2>0. Next1.via \in Strategies
    BY <1>0, <1>1, <1>4, <1>6, <1>7, ViaIs
  <2>1. copies' \in Copies
    BY <1>0, <2>0, ClearTypes
  <2>3. rows' \in SUBSET Nat
    BY <1>0 DEF ClearCopies, OnCopies, OnStores, Step, findings, StudyTypes
  <2>4. retained' \in SUBSET Nat
    BY <1>0 DEF ClearCopies, OnCopies, OnStores, Step, findings, StudyTypes
  <2>5. inside' \in BOOLEAN
    BY <1>0, <1>2 DEF StudyTypes
  <2>. QED  BY <1>0, <1>1, <1>6, <1>10, <2>1, <2>3, <2>4, <2>5, TypesStep
<1>12. ResultInv'
  <2>1. study' = study
    BY <1>1 DEF Step
  <2>. QED  BY <1>0, <1>2, <1>3, <2>1 DEF ResultInv
<1>. QED  BY <1>10, <1>11, <1>12 DEF StudyIInv

-----------------------------------------------------------------------------
(* The other operations of a study.                                        *)

LEMMA QuietStep ==
  ASSUME StudyTypes, ScriptInv, StudyInv, study.program = "study", ~ raising, NEW verbs,
         Step(verbs), Next1.do \notin TrialVerbs, records' = records,
         StudyOutput', StudyPlace'
  PROVE  StudyInv' /\ PilotInv'
<1>1. study' = study /\ OnScript
  BY ScriptStep
<1>2. Recorded
  BY DEF Recorded, TrialVerbs
<1>3. (\A i \in DOMAIN records : StudyRecord(records[i]))' /\ AuditsInv'
  BY <1>2, RecordsStep
<1>4. TrialsInv
  BY <1>1 DEF StudyInv
<1>5. TrialsInv'
  BY <1>4, NoTrialOperation, TrialsStep
<1>. QED  BY <1>1, <1>3, <1>5 DEF StudyInv, PilotInv

\* Before the services are up nothing is touched.
LEMMA EarlyPlace ==
  ASSUME StudyTypes, ScriptInv, StudyInv, study.program = "study", ~ raising, NEW verbs,
         Step(verbs), Place <= 4, inside' = inside, UNCHANGED <<rows, dirs, records>>,
         Place >= 1 => output' # "none",
         left = {}, left # {} \/ hosts' # {} => output' # "none"
  PROVE  StudyOutput' /\ StudyPlace'
<1>1. /\ Place \in Nat /\ Place' = Place + 1 /\ left' = left /\ OnScript
  BY ScriptStep
<1>2. PICK n \in Nat : n = Place
  BY <1>1
<1>3. ~ inside /\ Untouched
  BY <1>1 DEF StudyInv, StudyPlace
<1>4. ~ inside' /\ Untouched'
  BY <1>3 DEF Untouched
<1>5. StudyOutput'
  BY <1>1 DEF StudyOutput
<1>6. Place' = n + 1 /\ n <= 4
  BY <1>1, <1>2
<1>7. ~ (Place' >= 6) /\ (Place' >= 2 => output' # "none")
  BY <1>2, <1>6
<1>. QED  BY <1>1, <1>4, <1>5, <1>7 DEF StudyPlace

LEMMA RefusePlace ==
  ASSUME StudyTypes, ScriptInv, StudyInv, study.program = "study", ~ raising, RefuseExistingOutput
  PROVE  StudyInv' /\ PilotInv'
<1>1. /\ Step({"refuse existing"}) /\ output = "none" /\ inside' = inside /\ hosts' = hosts
      /\ output' = output /\ UNCHANGED <<rows, dirs, records>>
  BY DEF RefuseExistingOutput, places, findings
<1>2. Place \in Nat /\ Place + 1 \in 1..Len(Whole) /\ Next1 = Whole[Place + 1] /\ study \in Studies
  BY <1>1, ScriptStep DEF StudyTypes
<1>3. Next1.do = "refuse existing"
  BY <1>1 DEF Step
<1>4. Place = 0
  BY <1>2, <1>3, StudyPlaces DEF BodyVerbs, TrialVerbs
<1>5. left = {} /\ hosts = {}
  BY <1>1 DEF StudyInv, StudyOutput
<1>6. Place <= 4 /\ ~ (Place >= 1)
  BY <1>4
<1>7. StudyOutput' /\ StudyPlace'
  BY <1>1, <1>5, <1>6, EarlyPlace
<1>8. Next1.do \notin TrialVerbs
  BY <1>3 DEF TrialVerbs
<1>. QED  BY <1>1, <1>7, <1>8, QuietStep

LEMMA OutputPlace ==
  ASSUME StudyTypes, ScriptInv, StudyInv, study.program = "study", ~ raising, MakeOutput
  PROVE  StudyInv' /\ PilotInv'
<1>1. /\ Step({"mkdir output"}) /\ inside' = inside /\ hosts' = hosts
      /\ output' = "empty" /\ UNCHANGED <<rows, dirs, records>>
  BY DEF MakeOutput, places, findings
<1>2. /\ Place \in Nat /\ Place + 1 \in 1..Len(Whole) /\ Next1 = Whole[Place + 1]
      /\ study \in Studies /\ OnScript
  BY <1>1, ScriptStep DEF StudyTypes
<1>3. Next1.do = "mkdir output"
  BY <1>1 DEF Step
<1>4. Place = 1
  BY <1>2, <1>3, StudyPlaces DEF BodyVerbs, TrialVerbs
<1>6. Place <= 4 /\ Place >= 1
  BY <1>4
<1>5. left = {}
  BY <1>2, <1>6 DEF StudyInv, StudyPlace
<1>7. StudyOutput' /\ StudyPlace'
  BY <1>1, <1>5, <1>6, EarlyPlace
<1>8. Next1.do \notin TrialVerbs
  BY <1>3 DEF TrialVerbs
<1>. QED  BY <1>1, <1>7, <1>8, QuietStep

LEMMA StartPlace ==
  ASSUME StudyTypes, ScriptInv, StudyInv, study.program = "study", ~ raising, StartService
  PROVE  StudyInv' /\ PilotInv'
<1>0. Step({"start postgres", "start redis", "start qdrant"})
  BY DEF StartService
<1>1. /\ inside' = inside
      /\ output' = output /\ UNCHANGED <<rows, dirs, records>>
  BY DEF StartService, places, findings
<1>2. /\ Place \in Nat /\ Place + 1 \in 1..Len(Whole) /\ Next1 = Whole[Place + 1]
      /\ study \in Studies /\ OnScript
  BY <1>0, ScriptStep DEF StudyTypes
<1>3. Next1.do = "start postgres" \/ Next1.do = "start redis" \/ Next1.do = "start qdrant"
  BY <1>0 DEF Step
<1>4. Place = 2 \/ Place = 3 \/ Place = 4
  BY <1>2, <1>3, StudyPlaces DEF BodyVerbs, TrialVerbs
<1>6. Place <= 4 /\ Place >= 1 /\ Place >= 2
  BY <1>4
<1>5. left = {} /\ output # "none"
  BY <1>2, <1>6 DEF StudyInv, StudyPlace
<1>7. StudyOutput' /\ StudyPlace'
  BY <1>0, <1>1, <1>5, <1>6, EarlyPlace
<1>8. Next1.do \notin TrialVerbs
  BY <1>3 DEF TrialVerbs
<1>9. records' = records
  BY <1>1
<1>. QED  BY <1>0, <1>7, <1>8, <1>9, QuietStep

LEMMA EnteredPlace ==
  ASSUME StudyTypes, ScriptInv, StudyInv, study.program = "study", ~ raising, Entered
  PROVE  StudyInv' /\ PilotInv'
<1>1. /\ Step({"ready", "started"}) /\ inside' = TRUE /\ hosts' = hosts
      /\ output' = output /\ records' = records
  BY DEF Entered, findings
<1>2. /\ Place \in Nat /\ Place + 1 \in 1..Len(Whole) /\ Next1 = Whole[Place + 1]
      /\ study \in Studies /\ OnScript /\ Place' = Place + 1 /\ Whole' = Whole /\ left' = left
  BY <1>1, ScriptStep DEF StudyTypes
<1>3. Next1.do = "ready" \/ Next1.do = "started"
  BY <1>1 DEF Step
<1>4. Place = 5
  BY <1>2, <1>3, StudyPlaces DEF BodyVerbs, TrialVerbs
<1>5. Place >= 1 /\ Place >= 2 /\ Place' = 6 /\ 6 + 1 = 7
  BY <1>2, <1>4
<1>6. left = {} /\ output # "none"
  BY <1>2, <1>5 DEF StudyInv, StudyPlace
<1>7. \E q \in 7..Len(Whole) : Whole[q].do = "stop"
  BY <1>2, StudyScriptFacts DEF Whole
<1>8. StudyOutput'
  BY <1>1, <1>6 DEF StudyOutput
<1>9. ~ (Place' <= 5) /\ Place' + 1 = 7
  BY <1>5
<1>10. (inside => \E q \in (Place + 1)..Len(Whole) : Whole[q].do = "stop")'
  BY <1>2, <1>7, <1>9
<1>11. StudyPlace'
  BY <1>1, <1>2, <1>6, <1>9, <1>10 DEF StudyPlace
<1>12. Next1.do \notin TrialVerbs
  BY <1>3 DEF TrialVerbs
<1>. QED  BY <1>1, <1>8, <1>11, <1>12, QuietStep

LEMMA StopPlace ==
  ASSUME StudyTypes, ScriptInv, StudyInv, study.program = "study", ~ raising, StopServices
  PROVE  StudyInv' /\ PilotInv'
<1>1. /\ Step({"stop"}) /\ inside' = FALSE /\ hosts' \in {{}, hosts \intersect {"qdrant"}}
      /\ output' = output /\ records' = records
  BY DEF StopServices, findings
<1>2. /\ Place \in Nat /\ Place + 1 \in 1..Len(Whole) /\ Next1 = Whole[Place + 1]
      /\ study \in Studies /\ OnScript /\ Place' = Place + 1 /\ Whole' = Whole /\ left' = left
  BY <1>1, ScriptStep DEF StudyTypes
<1>3. Next1.do = "stop"
  BY <1>1 DEF Step
<1>4. Place >= 6
  BY <1>2, <1>3, StudyPlaces DEF BodyVerbs, TrialVerbs
<1>5. Place >= 1 /\ Place >= 2 /\ Place' >= 6 /\ ~ (Place' <= 5)
  BY <1>2, <1>4
<1>6. left = {} /\ output # "none"
  BY <1>2, <1>5 DEF StudyInv, StudyPlace
<1>7. Stopped'
  BY <1>1 DEF Stopped
<1>8. StudyOutput'
  BY <1>1, <1>6 DEF StudyOutput
<1>9. StudyPlace'
  BY <1>1, <1>2, <1>5, <1>6, <1>7 DEF StudyPlace
<1>12. Next1.do \notin TrialVerbs
  BY <1>3 DEF TrialVerbs
<1>. QED  BY <1>1, <1>8, <1>9, <1>12, QuietStep

\* The plan and the result leave the stores and the services alone.
LEMMA PlanPlace ==
  ASSUME StudyTypes, ScriptInv, StudyInv, study.program = "study", ~ raising, NEW verbs,
         Step(verbs), Next1.do \in {"plan", "write"}, inside' = inside, hosts' = hosts,
         output' \in {output, "result"}, records' = records
  PROVE  StudyInv' /\ PilotInv'
<1>1. StudyOutput' /\ StudyPlace'
  BY BodyPlace
<1>2. Next1.do \notin TrialVerbs
  BY DEF TrialVerbs
<1>. QED  BY <1>1, <1>2, QuietStep

LEMMA DeletePlace ==
  ASSUME StudyTypes, ScriptInv, StudyInv, study.program = "study", ~ raising, DeleteSource
  PROVE  StudyInv' /\ PilotInv'
<1>1. /\ Step({"delete source"}) /\ inside' = inside /\ hosts' = hosts
      /\ output' = output /\ records' = records /\ Next1.do = "delete source"
  BY DEF DeleteSource, OnSource, OnStores, findings, Step
<1>2. Next1.do \in TrialVerbs /\ Next1.do # "audit"
  BY <1>1 DEF TrialVerbs
<1>3. Recorded
  BY <1>1, <1>2 DEF Recorded
<1>4. \A seed \in Nat : \A i \in 1..25 :
        Next1 = RunTrial(seed)[i] /\ TrialFacts(i - 1, seed) => TrialMoves(i, seed)
  BY DeleteMoves
<1>. QED  BY <1>1, <1>2, <1>3, <1>4, TrialStep
-----------------------------------------------------------------------------
(* The operations of the pilot.                                            *)

LEMMA PilotHere ==
  ASSUME StudyTypes, ScriptInv, PilotInv, study.program # "study", ~ raising, NEW verbs,
         Step(verbs)
  PROVE  \E n \in 0..11 :
           /\ Place = n /\ Place' = n + 1 /\ study' = study /\ OnScript
           /\ PilotVerb(n, Next1.do)
<1>1. /\ Place \in Nat /\ Place + 1 \in 1..Len(Whole) /\ Next1 = Whole[Place + 1]
      /\ Place' = Place + 1 /\ study' = study /\ OnScript
  BY ScriptStep
<1>2. study \in Studies
  BY DEF StudyTypes
<1>3. PICK n \in 0..11 : n = Place
  BY <1>1, <1>2, PilotPlaces
<1>4. n \in Nat /\ n + 1 \in 1..Len(Whole) /\ Next1 = Whole[n + 1] /\ Place' = n + 1
  BY <1>1, <1>3
<1>. WITNESS n \in 0..11
<1>. QED  BY <1>1, <1>2, <1>3, <1>4, PilotPlaces, Zenon

LEMMA PilotPut ==
  ASSUME StudyTypes, NEW x \in SUBSET Nat
  PROVE  /\ copies' = [copies EXCEPT ![PilotCopy].vector = x] =>
              /\ copies' \in Copies /\ copies'[PilotCopy].vector = x
              /\ copies'[PilotCopy].cache = copies[PilotCopy].cache
              /\ copies'[PilotCopy].key = copies[PilotCopy].key
              /\ copies'[PilotCopy].fit = copies[PilotCopy].fit
         /\ copies' = [copies EXCEPT ![PilotCopy].key = x] =>
              /\ copies' \in Copies /\ copies'[PilotCopy].key = x
              /\ copies'[PilotCopy].cache = copies[PilotCopy].cache
              /\ copies'[PilotCopy].vector = copies[PilotCopy].vector
              /\ copies'[PilotCopy].fit = copies[PilotCopy].fit
<1>. DEFINE c == copies[PilotCopy]
<1>1. c \in CopyRecords /\ PilotCopy \in DOMAIN copies
  BY Places
<1>2. ASSUME copies' = [copies EXCEPT ![PilotCopy].vector = x]
      PROVE  copies' \in Copies /\ copies'[PilotCopy] = [c EXCEPT !.vector = x]
  <2>. DEFINE new == [c EXCEPT !.vector = x]
  <2>1. copies' = [copies EXCEPT ![PilotCopy] = new]
    BY <1>2
  <2>2. new \in CopyRecords
    BY <1>1, ChangedTypes
  <2>. HIDE DEF new
  <2>3. copies' \in Copies
    BY <2>1, <2>2, CopyPut
  <2>4. copies'[PilotCopy] = new
    BY <1>1, <2>1
  <2>. QED  BY <2>3, <2>4 DEF new
<1>3. ASSUME copies' = [copies EXCEPT ![PilotCopy].key = x]
      PROVE  copies' \in Copies /\ copies'[PilotCopy] = [c EXCEPT !.key = x]
  <2>. DEFINE new == [c EXCEPT !.key = x]
  <2>1. copies' = [copies EXCEPT ![PilotCopy] = new]
    BY <1>3
  <2>2. new \in CopyRecords
    BY <1>1, ChangedTypes
  <2>. HIDE DEF new
  <2>3. copies' \in Copies
    BY <2>1, <2>2, CopyPut
  <2>4. copies'[PilotCopy] = new
    BY <1>1, <2>1
  <2>. QED  BY <2>3, <2>4 DEF new
<1>. HIDE DEF c
<1>4. /\ [c EXCEPT !.vector = x].vector = x /\ [c EXCEPT !.vector = x].cache = c.cache
      /\ [c EXCEPT !.vector = x].key = c.key /\ [c EXCEPT !.vector = x].fit = c.fit
  BY <1>1, Changed
<1>5. /\ [c EXCEPT !.key = x].key = x /\ [c EXCEPT !.key = x].cache = c.cache
      /\ [c EXCEPT !.key = x].vector = c.vector /\ [c EXCEPT !.key = x].fit = c.fit
  BY <1>1, Changed
<1>6. c = copies[PilotCopy]
  BY DEF c
<1>. QED  BY <1>2, <1>3, <1>4, <1>5, <1>6

LEMMA RefusePilot ==
  ASSUME StudyTypes, ScriptInv, PilotInv, study.program # "study", ~ raising, RefuseExistingOutput
  PROVE  StudyInv' /\ PilotInv'
<1>1. Step({"refuse existing"})
  BY DEF RefuseExistingOutput
<1>2. inside' = inside /\ UNCHANGED <<rows, copies, dirs, records>>
  BY DEF RefuseExistingOutput, places, findings
<1>3. Next1.do = "refuse existing"
  BY <1>1 DEF Step
<1>4. /\ Place = 0 /\ Place' = 0 + 1 /\ study' = study /\ OnScript
  BY <1>1, <1>3, PilotHere DEF PilotVerb
<1>5. Place' = 1
  BY <1>4
<1>6. Place <= 2 /\ Place <= 3
  BY <1>4
<1>7. /\ ~ inside /\ Untouched /\ copies[PilotCopy].cache = {} /\ copies[PilotCopy].fit = {}
      /\ (\A i \in DOMAIN records : PilotRecord(records[i]))
  BY <1>4, <1>6 DEF PilotInv, PilotPlace
<1>8. /\ Place' \notin 3..10 /\ Place' \notin 11..12 /\ Place' \notin 4..6
      /\ Place' \notin 4..5 /\ Place' \notin 4..7 /\ Place' \notin 8..12
      /\ Place' \notin 5..8 /\ Place' \notin 9..12 /\ Place' \notin 7..9
      /\ Place' \notin 7..12 /\ Place' \notin 10..12
  BY <1>5
<1>9. PilotPlace'
  BY <1>2, <1>7, <1>8 DEF PilotPlace, Untouched
<1>10. PilotInv'
  BY <1>2, <1>4, <1>7, <1>9 DEF PilotInv, PilotRecord
<1>11. StudyInv'
  BY <1>4 DEF StudyInv
<1>. QED  BY <1>10, <1>11

LEMMA StartPilot ==
  ASSUME StudyTypes, ScriptInv, PilotInv, study.program # "study", ~ raising, StartService
  PROVE  StudyInv' /\ PilotInv'
<1>1. Step({"start postgres", "start redis", "start qdrant"})
  BY DEF StartService
<1>2. inside' = inside /\ UNCHANGED <<rows, copies, dirs, records>>
  BY DEF StartService, places, findings
<1>3. Next1.do = "start postgres" \/ Next1.do = "start redis" \/ Next1.do = "start qdrant"
  BY <1>1 DEF Step
<1>4. /\ Place = 1 /\ Place' = 1 + 1 /\ study' = study /\ OnScript
  BY <1>1, <1>3, PilotHere DEF PilotVerb
<1>5. Place' = 2
  BY <1>4
<1>6. Place <= 2 /\ Place <= 3
  BY <1>4
<1>7. /\ ~ inside /\ Untouched /\ copies[PilotCopy].cache = {} /\ copies[PilotCopy].fit = {}
      /\ (\A i \in DOMAIN records : PilotRecord(records[i]))
  BY <1>4, <1>6 DEF PilotInv, PilotPlace
<1>8. /\ Place' \notin 3..10 /\ Place' \notin 11..12 /\ Place' \notin 4..6
      /\ Place' \notin 4..5 /\ Place' \notin 4..7 /\ Place' \notin 8..12
      /\ Place' \notin 5..8 /\ Place' \notin 9..12 /\ Place' \notin 7..9
      /\ Place' \notin 7..12 /\ Place' \notin 10..12
  BY <1>5
<1>9. PilotPlace'
  BY <1>2, <1>7, <1>8 DEF PilotPlace, Untouched
<1>10. PilotInv'
  BY <1>2, <1>4, <1>7, <1>9 DEF PilotInv, PilotRecord
<1>11. StudyInv'
  BY <1>4 DEF StudyInv
<1>. QED  BY <1>10, <1>11

LEMMA EnteredPilot ==
  ASSUME StudyTypes, ScriptInv, PilotInv, study.program # "study", ~ raising, Entered
  PROVE  StudyInv' /\ PilotInv'
<1>1. Step({"ready", "started"})
  BY DEF Entered
<1>2. inside' = TRUE /\ UNCHANGED <<rows, copies, dirs, records>>
  BY DEF Entered, places, findings
<1>3. Next1.do = "ready" \/ Next1.do = "started"
  BY <1>1 DEF Step
<1>4. /\ Place = 2 /\ Place' = 2 + 1 /\ study' = study /\ OnScript
  BY <1>1, <1>3, PilotHere DEF PilotVerb
<1>5. Place' = 3
  BY <1>4
<1>6. Place <= 2 /\ Place <= 3
  BY <1>4
<1>7. /\ Untouched /\ copies[PilotCopy].cache = {} /\ copies[PilotCopy].fit = {}
      /\ (\A i \in DOMAIN records : PilotRecord(records[i]))
  BY <1>4, <1>6 DEF PilotInv, PilotPlace
<1>8. /\ ~ (Place' <= 2) /\ Place' \notin 11..12 /\ Place' \notin 4..6 /\ Place' \notin 4..5
      /\ Place' \notin 4..7 /\ Place' \notin 8..12 /\ Place' \notin 5..8
      /\ Place' \notin 9..12 /\ Place' \notin 7..9 /\ Place' \notin 7..12
      /\ Place' \notin 10..12
  BY <1>5
<1>9. PilotPlace'
  BY <1>2, <1>7, <1>8 DEF PilotPlace, Untouched
<1>10. PilotInv'
  BY <1>2, <1>4, <1>7, <1>9 DEF PilotInv, PilotRecord
<1>11. StudyInv'
  BY <1>4 DEF StudyInv
<1>. QED  BY <1>10, <1>11

LEMMA PopulatePilot ==
  ASSUME StudyTypes, ScriptInv, PilotInv, study.program # "study", ~ raising, Populate
  PROVE  StudyInv' /\ PilotInv'
         /\ copies' \in Copies
<1>1. Step({"populate"})
  BY DEF Populate, OnStores
<1>2. /\ inside' = inside /\ records' = records /\ rows' = {0}
      /\ copies' = [copies EXCEPT ![PilotCopy].vector = {0}]
  BY DEF Populate, OnStores, Step, findings
<1>3. Next1.do = "populate"
  BY <1>1 DEF Step
<1>4. /\ Place = 3 /\ Place' = 3 + 1 /\ study' = study /\ OnScript
  BY <1>1, <1>3, PilotHere DEF PilotVerb
<1>5. Place' = 4
  BY <1>4
<1>6. Place <= 3 /\ Place \in 3..10
  BY <1>4
<1>7. /\ inside /\ Untouched /\ copies[PilotCopy].cache = {} /\ copies[PilotCopy].fit = {}
      /\ (\A i \in DOMAIN records : PilotRecord(records[i]))
  BY <1>4, <1>6 DEF PilotInv, PilotPlace
<1>8. /\ ~ (Place' <= 2) /\ ~ (Place' <= 3) /\ Place' \notin 11..12 /\ Place' \notin 8..12
      /\ Place' \notin 5..8 /\ Place' \notin 9..12 /\ Place' \notin 7..9
      /\ Place' \notin 7..12 /\ Place' \notin 10..12
  BY <1>5
<1>12. /\ copies' \in Copies /\ copies'[PilotCopy].vector = {0}
       /\ copies'[PilotCopy].cache = copies[PilotCopy].cache
       /\ copies'[PilotCopy].key = copies[PilotCopy].key
       /\ copies'[PilotCopy].fit = copies[PilotCopy].fit
  <2>1. {0} \in SUBSET Nat
    OBVIOUS
  <2>. QED  BY <1>2, <1>7, <2>1, PilotPut
<1>9. PilotPlace'
  BY <1>2, <1>7, <1>8, <1>12 DEF PilotPlace, Untouched
<1>10. PilotInv'
  BY <1>2, <1>4, <1>7, <1>9, <1>12 DEF PilotInv, PilotRecord
<1>11. StudyInv'
  BY <1>4 DEF StudyInv
<1>. QED  BY <1>10, <1>11, <1>12

LEMMA DumpPilot ==
  ASSUME StudyTypes, ScriptInv, PilotInv, study.program # "study", ~ raising, Dump
  PROVE  StudyInv' /\ PilotInv'
         /\ copies' \in Copies
<1>1. Step({"dump"})
  BY DEF Dump, OnCopies, OnStores
<1>2. /\ inside' = inside /\ records' = records /\ rows' = rows
      /\ copies' = [copies EXCEPT ![PilotCopy].key = rows]
  BY DEF Dump, OnCopies, OnStores, Step, findings
<1>3. Next1.do = "dump"
  BY <1>1 DEF Step
<1>4. /\ Place = 4 /\ Place' = 4 + 1 /\ study' = study /\ OnScript
  BY <1>1, <1>3, PilotHere DEF PilotVerb
<1>5. Place' = 5
  BY <1>4
<1>6. Place \in 3..10 /\ Place \in 4..6 /\ Place \in 4..5 /\ Place \in 4..7
  BY <1>4
<1>7. /\ inside /\ records = <<>> /\ rows = {0} /\ copies[PilotCopy].vector = {0}
      /\ copies[PilotCopy].cache = {} /\ copies[PilotCopy].fit = {}
      /\ (\A i \in DOMAIN records : PilotRecord(records[i]))
  BY <1>4, <1>6 DEF PilotInv, PilotPlace
<1>8. /\ ~ (Place' <= 2) /\ ~ (Place' <= 3) /\ Place' \notin 11..12 /\ Place' \notin 8..12
      /\ Place' \notin 9..12 /\ Place' \notin 7..9 /\ Place' \notin 7..12
      /\ Place' \notin 10..12
  BY <1>5
<1>12. /\ copies' \in Copies /\ copies'[PilotCopy].key = {0}
       /\ copies'[PilotCopy].cache = copies[PilotCopy].cache
       /\ copies'[PilotCopy].vector = copies[PilotCopy].vector
       /\ copies'[PilotCopy].fit = copies[PilotCopy].fit
  <2>1. {0} \in SUBSET Nat
    OBVIOUS
  <2>. QED  BY <1>2, <1>7, <2>1, PilotPut
<1>9. PilotPlace'
  BY <1>2, <1>7, <1>8, <1>12 DEF PilotPlace, Stopped
<1>10. PilotInv'
  BY <1>2, <1>4, <1>7, <1>9, <1>12 DEF PilotInv, PilotRecord
<1>11. StudyInv'
  BY <1>4 DEF StudyInv
<1>. QED  BY <1>10, <1>11, <1>12

LEMMA DeletePilot ==
  ASSUME StudyTypes, ScriptInv, PilotInv, study.program # "study", ~ raising, DeleteSource
  PROVE  StudyInv' /\ PilotInv'
<1>1. Step({"delete source"})
  BY DEF DeleteSource, OnSource, OnStores
<1>2. /\ inside' = inside /\ records' = records /\ copies' = copies
  BY DEF DeleteSource, OnSource, OnStores, Step, findings
<1>3. Next1.do = "delete source"
  BY <1>1 DEF Step
<1>4. /\ Place = 5 /\ Place' = 5 + 1 /\ study' = study /\ OnScript
  BY <1>1, <1>3, PilotHere DEF PilotVerb
<1>5. Place' = 6
  BY <1>4
<1>6. Place \in 3..10 /\ Place \in 4..6 /\ Place \in 4..5 /\ Place \in 4..7 /\ Place \in 5..8
  BY <1>4
<1>7. /\ inside /\ records = <<>> /\ copies[PilotCopy].vector = {0} /\ copies[PilotCopy].key = {0}
      /\ copies[PilotCopy].cache = {} /\ copies[PilotCopy].fit = {}
      /\ (\A i \in DOMAIN records : PilotRecord(records[i]))
  BY <1>4, <1>6 DEF PilotInv, PilotPlace
<1>8. /\ ~ (Place' <= 2) /\ ~ (Place' <= 3) /\ Place' \notin 11..12 /\ Place' \notin 4..5
      /\ Place' \notin 8..12 /\ Place' \notin 9..12 /\ Place' \notin 7..9
      /\ Place' \notin 7..12 /\ Place' \notin 10..12
  BY <1>5
<1>9. PilotPlace'
  BY <1>2, <1>7, <1>8 DEF PilotPlace, Stopped
<1>10. PilotInv'
  BY <1>2, <1>4, <1>7, <1>9 DEF PilotInv, PilotRecord
<1>11. StudyInv'
  BY <1>4 DEF StudyInv
<1>. QED  BY <1>10, <1>11

LEMMA DerivedPilot ==
  ASSUME StudyTypes, ScriptInv, PilotInv, study.program # "study", ~ raising, DeleteDerived
  PROVE  StudyInv' /\ PilotInv'
         /\ copies' \in Copies
<1>1. Step({"delete derived"})
  BY DEF DeleteDerived, OnCopies, OnStores
<1>2. /\ inside' = inside /\ records' = records /\ rows' = rows
      /\ copies' = [copies EXCEPT ![PilotCopy].vector = {}]
  BY DEF DeleteDerived, OnCopies, OnStores, Step, findings
<1>3. Next1.do = "delete derived"
  BY <1>1 DEF Step
<1>4. /\ Place = 7 /\ Place' = 7 + 1 /\ study' = study /\ OnScript
  BY <1>1, <1>3, PilotHere DEF PilotVerb
<1>5. Place' = 8
  BY <1>4
<1>6. Place \in 3..10 /\ Place \in 4..7 /\ Place \in 5..8 /\ Place \in 7..9 /\ Place \in 7..12
  BY <1>4
<1>7. /\ inside /\ Len(records) = 1 /\ records[1].verdict = "INCOMPLETE"
      /\ copies[PilotCopy].key = {0} /\ copies[PilotCopy].cache = {} /\ copies[PilotCopy].fit = {}
      /\ (\A i \in DOMAIN records : PilotRecord(records[i]))
  BY <1>4, <1>6 DEF PilotInv, PilotPlace
<1>8. /\ ~ (Place' <= 2) /\ ~ (Place' <= 3) /\ Place' \notin 11..12 /\ Place' \notin 4..6
      /\ Place' \notin 4..5 /\ Place' \notin 4..7 /\ Place' \notin 9..12
      /\ Place' \notin 10..12
  BY <1>5
<1>12. /\ copies' \in Copies /\ copies'[PilotCopy].vector = {}
       /\ copies'[PilotCopy].cache = copies[PilotCopy].cache
       /\ copies'[PilotCopy].key = copies[PilotCopy].key
       /\ copies'[PilotCopy].fit = copies[PilotCopy].fit
  <2>1. {} \in SUBSET Nat
    OBVIOUS
  <2>. QED  BY <1>2, <1>7, <2>1, PilotPut
<1>9. PilotPlace'
  BY <1>2, <1>7, <1>8, <1>12 DEF PilotPlace, Stopped
<1>10. PilotInv'
  BY <1>2, <1>4, <1>7, <1>9, <1>12 DEF PilotInv, PilotRecord
<1>11. StudyInv'
  BY <1>4 DEF StudyInv
<1>. QED  BY <1>10, <1>11, <1>12

LEMMA UnlinkPilot ==
  ASSUME StudyTypes, ScriptInv, PilotInv, study.program # "study", ~ raising, UnlinkDump
  PROVE  StudyInv' /\ PilotInv'
         /\ copies' \in Copies
<1>1. Step({"unlink dump"})
  BY DEF UnlinkDump, OnCopies, OnStores
<1>2. /\ inside' = inside /\ records' = records /\ rows' = rows
      /\ copies' = [copies EXCEPT ![PilotCopy].key = {}]
  BY DEF UnlinkDump, OnCopies, OnStores, Step, findings
<1>3. Next1.do = "unlink dump"
  BY <1>1 DEF Step
<1>4. /\ Place = 8 /\ Place' = 8 + 1 /\ study' = study /\ OnScript
  BY <1>1, <1>3, PilotHere DEF PilotVerb
<1>5. Place' = 9
  BY <1>4
<1>6. Place \in 3..10 /\ Place \in 8..12 /\ Place \in 5..8 /\ Place \in 7..9 /\ Place \in 7..12
  BY <1>4
<1>7. /\ inside /\ Len(records) = 1 /\ records[1].verdict = "INCOMPLETE"
      /\ copies[PilotCopy].vector = {} /\ copies[PilotCopy].cache = {} /\ copies[PilotCopy].fit = {}
      /\ (\A i \in DOMAIN records : PilotRecord(records[i]))
  BY <1>4, <1>6 DEF PilotInv, PilotPlace
<1>8. /\ ~ (Place' <= 2) /\ ~ (Place' <= 3) /\ Place' \notin 11..12 /\ Place' \notin 4..6
      /\ Place' \notin 4..5 /\ Place' \notin 4..7 /\ Place' \notin 5..8
      /\ Place' \notin 10..12
  BY <1>5
<1>12. /\ copies' \in Copies /\ copies'[PilotCopy].key = {}
       /\ copies'[PilotCopy].cache = copies[PilotCopy].cache
       /\ copies'[PilotCopy].vector = copies[PilotCopy].vector
       /\ copies'[PilotCopy].fit = copies[PilotCopy].fit
  <2>1. {} \in SUBSET Nat
    OBVIOUS
  <2>. QED  BY <1>2, <1>7, <2>1, PilotPut
<1>9. PilotPlace'
  BY <1>2, <1>7, <1>8, <1>12 DEF PilotPlace, Stopped
<1>10. PilotInv'
  BY <1>2, <1>4, <1>7, <1>9, <1>12 DEF PilotInv, PilotRecord
<1>11. StudyInv'
  BY <1>4 DEF StudyInv
<1>. QED  BY <1>10, <1>11, <1>12

LEMMA StopPilot ==
  ASSUME StudyTypes, ScriptInv, PilotInv, study.program # "study", ~ raising, StopServices
  PROVE  StudyInv' /\ PilotInv'
<1>1. Step({"stop"})
  BY DEF StopServices
<1>2. /\ inside' = FALSE /\ records' = records /\ copies' = copies
      /\ hosts' \in {{}, hosts \intersect {"qdrant"}}
  BY DEF StopServices, places, findings
<1>3. Next1.do = "stop"
  BY <1>1 DEF Step
<1>4. /\ Place = 10 /\ Place' = 10 + 1 /\ study' = study /\ OnScript
  BY <1>1, <1>3, PilotHere DEF PilotVerb
<1>5. Place' = 11
  BY <1>4
<1>6. Place \in 3..10 /\ Place \in 8..12 /\ Place \in 9..12 /\ Place \in 7..12 /\ Place \in 10..12
  BY <1>4
<1>7. /\ Len(records) = 2 /\ records[1].verdict = "INCOMPLETE" /\ records[2].verdict = "COMPLETE"
      /\ copies[PilotCopy].vector = {} /\ copies[PilotCopy].key = {}
      /\ copies[PilotCopy].cache = {} /\ copies[PilotCopy].fit = {}
      /\ (\A i \in DOMAIN records : PilotRecord(records[i]))
  BY <1>4, <1>6 DEF PilotInv, PilotPlace
<1>8. /\ ~ (Place' <= 2) /\ ~ (Place' <= 3) /\ Place' \notin 3..10 /\ Place' \notin 4..6
      /\ Place' \notin 4..5 /\ Place' \notin 4..7 /\ Place' \notin 5..8 /\ Place' \notin 7..9
  BY <1>5
<1>9. PilotPlace'
  BY <1>2, <1>7, <1>8 DEF PilotPlace, Stopped
<1>10. PilotInv'
  BY <1>2, <1>4, <1>7, <1>9 DEF PilotInv, PilotRecord
<1>11. StudyInv'
  BY <1>4 DEF StudyInv
<1>. QED  BY <1>10, <1>11

LEMMA WritePilot ==
  ASSUME StudyTypes, ScriptInv, PilotInv, study.program # "study", ~ raising, WriteResult
  PROVE  StudyInv' /\ PilotInv'
<1>1. Step({"write"})
  BY DEF WriteResult
<1>2. /\ inside' = inside /\ records' = records /\ copies' = copies /\ hosts' = hosts
  BY DEF WriteResult, places, findings
<1>3. Next1.do = "write"
  BY <1>1 DEF Step
<1>4. /\ Place = 11 /\ Place' = 11 + 1 /\ study' = study /\ OnScript
  BY <1>1, <1>3, PilotHere DEF PilotVerb
<1>5. Place' = 12
  BY <1>4
<1>6. Place \in 11..12 /\ Place \in 8..12 /\ Place \in 9..12 /\ Place \in 7..12 /\ Place \in 10..12
  BY <1>4
<1>7. /\ ~ inside /\ Stopped
      /\ Len(records) = 2 /\ records[1].verdict = "INCOMPLETE" /\ records[2].verdict = "COMPLETE"
      /\ copies[PilotCopy].vector = {} /\ copies[PilotCopy].key = {}
      /\ copies[PilotCopy].cache = {} /\ copies[PilotCopy].fit = {}
      /\ (\A i \in DOMAIN records : PilotRecord(records[i]))
  BY <1>4, <1>6 DEF PilotInv, PilotPlace
<1>8. /\ ~ (Place' <= 2) /\ ~ (Place' <= 3) /\ Place' \notin 3..10 /\ Place' \notin 4..6
      /\ Place' \notin 4..5 /\ Place' \notin 4..7 /\ Place' \notin 5..8 /\ Place' \notin 7..9
  BY <1>5
<1>9. PilotPlace'
  BY <1>2, <1>7, <1>8 DEF PilotPlace, Stopped
<1>10. PilotInv'
  BY <1>2, <1>4, <1>7, <1>9 DEF PilotInv, PilotRecord
<1>11. StudyInv'
  BY <1>4 DEF StudyInv
<1>. QED  BY <1>10, <1>11

\* The audits of the pilot.
LEMMA AuditBeforePilot ==
  ASSUME StudyTypes, ScriptInv, PilotInv, study.program # "study", ~ raising, AuditGraph,
         Place = 6
  PROVE  StudyInv' /\ PilotInv' /\ records' \in Seq(AuditRecords)
<1>. DEFINE copy == copies[PilotCopy]
<1>1. Step({"audit before", "audit after"})
  BY DEF AuditGraph, OnStores
<1>2. inside' = inside /\ copies' = copies
  BY DEF AuditGraph, OnStores, places
<1>4. Place' = 6 + 1 /\ study' = study /\ OnScript
  BY <1>1, ScriptStep
<1>3. Next1.do = "audit before"
  <2>1. PICK n \in 0..11 : Place = n /\ PilotVerb(n, Next1.do)
    BY <1>1, PilotHere
  <2>2. /\ n # 0 /\ n # 1 /\ n # 2 /\ n # 3 /\ n # 4 /\ n # 5
        /\ n # 7 /\ n # 8 /\ n # 9 /\ n # 10 /\ n # 11
    BY <2>1
  <2>. QED  BY <2>1, <2>2 DEF PilotVerb
<1>5. Place' = 7
  BY <1>4
<1>6. Place \in 3..10 /\ Place \in 4..6 /\ Place \in 4..7 /\ Place \in 5..8
  BY <1>4
<1>7. /\ inside /\ records = <<>> /\ copy.vector = {0} /\ copy.key = {0}
      /\ copy.cache = {} /\ copy.fit = {}
  BY <1>4, <1>6 DEF PilotInv, PilotPlace
<1>8. PICK r : r = [seed |-> 0, via |-> PilotCopy, target |-> 0, stores |-> copy,
                    verdict |-> "INCOMPLETE", retained |-> 0]
  OBVIOUS
<1>9. records' = Append(records, r)
  BY <1>3, <1>7, <1>8 DEF AuditGraph
<1>10. r.target = 0 /\ r.verdict = "INCOMPLETE"
  BY <1>8
<1>11. r \in AuditRecords
  <2>1. copy \in CopyRecords /\ PilotCopy \in Vias
    BY Places, VerbLists
  <2>2. 0 \in Nat /\ 0 \in Int
    OBVIOUS
  <2>. HIDE DEF copy
  <2>. QED  BY <1>8, <2>1, <2>2 DEF AuditRecords
<1>12. records \in Seq(AuditRecords)
  BY DEF StudyTypes
<1>13. /\ records' \in Seq(AuditRecords) /\ Len(records') = 1 /\ records'[1] = r
       /\ DOMAIN records' = {1}
  <2>1. /\ records' \in Seq(AuditRecords) /\ Len(records') = Len(records) + 1
        /\ DOMAIN records' = 1..(Len(records) + 1) /\ records'[Len(records) + 1] = r
    BY <1>9, <1>11, <1>12, Longer
  <2>2. Len(records) = 0
    BY <1>7, EmptySeq
  <2>3. 0 + 1 = 1 /\ 1..1 = {1}
    OBVIOUS
  <2>. QED  BY <2>1, <2>2, <2>3
<1>14. PilotPlace'
  <2>1. /\ ~ (Place' <= 2) /\ ~ (Place' <= 3) /\ Place' \notin 11..12 /\ Place' \notin 4..6
        /\ Place' \notin 4..5 /\ Place' \notin 8..12 /\ Place' \notin 9..12
        /\ Place' \notin 10..12
    BY <1>5
  <2>2. records'[1].verdict = "INCOMPLETE"
    BY <1>10, <1>13
  <2>. QED  BY <1>2, <1>7, <1>13, <2>1, <2>2 DEF PilotPlace
<1>15. (\A i \in DOMAIN records : PilotRecord(records[i]))'
  BY <1>10, <1>13 DEF PilotRecord
<1>16. PilotInv'
  BY <1>2, <1>4, <1>7, <1>14, <1>15 DEF PilotInv
<1>17. StudyInv'
  BY <1>4 DEF StudyInv
<1>. QED  BY <1>13, <1>16, <1>17

LEMMA AuditAfterPilot ==
  ASSUME StudyTypes, ScriptInv, PilotInv, study.program # "study", ~ raising, AuditGraph,
         Place = 9
  PROVE  StudyInv' /\ PilotInv' /\ records' \in Seq(AuditRecords)
<1>. DEFINE copy == copies[PilotCopy]
<1>1. Step({"audit before", "audit after"})
  BY DEF AuditGraph, OnStores
<1>2. inside' = inside /\ copies' = copies
  BY DEF AuditGraph, OnStores, places
<1>4. Place' = 9 + 1 /\ study' = study /\ OnScript
  BY <1>1, ScriptStep
<1>3. Next1.do = "audit after"
  <2>1. PICK n \in 0..11 : Place = n /\ PilotVerb(n, Next1.do)
    BY <1>1, PilotHere
  <2>2. /\ n # 0 /\ n # 1 /\ n # 2 /\ n # 3 /\ n # 4 /\ n # 5
        /\ n # 6 /\ n # 7 /\ n # 8 /\ n # 10 /\ n # 11
    BY <2>1
  <2>. QED  BY <2>1, <2>2 DEF PilotVerb
<1>5. Place' = 10
  BY <1>4
<1>6. /\ Place \in 3..10 /\ Place \in 8..12 /\ Place \in 9..12 /\ Place \in 7..9
      /\ Place \in 7..12
  BY <1>4
<1>7. /\ inside /\ copy.vector = {} /\ copy.key = {} /\ copy.cache = {} /\ copy.fit = {}
      /\ Len(records) = 1 /\ records[1].verdict = "INCOMPLETE"
      /\ \A i \in DOMAIN records : PilotRecord(records[i])
  BY <1>4, <1>6 DEF PilotInv, PilotPlace
<1>8. PICK r : r = [seed |-> 0, via |-> PilotCopy, target |-> 0, stores |-> copy,
                    verdict |-> "COMPLETE", retained |-> 0]
  OBVIOUS
<1>9. records' = Append(records, r)
  BY <1>3, <1>7, <1>8 DEF AuditGraph
<1>10. r.target = 0 /\ r.verdict = "COMPLETE" /\ r.stores = copy
  BY <1>8
<1>11. r \in AuditRecords
  <2>1. copy \in CopyRecords /\ PilotCopy \in Vias
    BY Places, VerbLists
  <2>2. 0 \in Nat /\ 0 \in Int
    OBVIOUS
  <2>. HIDE DEF copy
  <2>. QED  BY <1>8, <2>1, <2>2 DEF AuditRecords
<1>12. records \in Seq(AuditRecords)
  BY DEF StudyTypes
<1>13. /\ records' \in Seq(AuditRecords) /\ Len(records') = 2 /\ records'[2] = r
       /\ DOMAIN records' = 1..2 /\ records'[1] = records[1] /\ 1 \in DOMAIN records
  <2>1. /\ records' \in Seq(AuditRecords) /\ Len(records') = Len(records) + 1
        /\ DOMAIN records' = 1..(Len(records) + 1) /\ records'[Len(records) + 1] = r
        /\ DOMAIN records = 1..Len(records)
        /\ \A i \in 1..Len(records) : records'[i] = records[i]
    BY <1>9, <1>11, <1>12, Longer
  <2>2. Len(records) = 1
    BY <1>7
  <2>3. 1 + 1 = 2 /\ 1 \in 1..1
    OBVIOUS
  <2>. QED  BY <2>1, <2>2, <2>3
<1>14. PilotPlace'
  <2>1. /\ ~ (Place' <= 2) /\ ~ (Place' <= 3) /\ Place' \notin 11..12 /\ Place' \notin 4..6
        /\ Place' \notin 4..5 /\ Place' \notin 4..7 /\ Place' \notin 5..8
        /\ Place' \notin 7..9
    BY <1>5
  <2>2. records'[1].verdict = "INCOMPLETE" /\ records'[2].verdict = "COMPLETE"
    BY <1>7, <1>10, <1>13
  <2>. QED  BY <1>2, <1>7, <1>13, <2>1, <2>2 DEF PilotPlace
<1>15. (\A i \in DOMAIN records : PilotRecord(records[i]))'
  <2>1. PilotRecord(r)
    BY <1>7, <1>10 DEF PilotRecord
  <2>2. PilotRecord(records[1])
    BY <1>7, <1>13
  <2>3. \A i \in 1..2 : i = 1 \/ i = 2
    OBVIOUS
  <2>4. ASSUME NEW i \in DOMAIN records' PROVE PilotRecord(records[i])'
    <3>1. i = 1 \/ i = 2
      BY <1>13, <2>3
    <3>. QED  BY <1>13, <2>1, <2>2, <3>1 DEF PilotRecord
  <2>. QED  BY <2>4
<1>16. PilotInv'
  BY <1>2, <1>4, <1>7, <1>14, <1>15 DEF PilotInv
<1>17. StudyInv'
  BY <1>4 DEF StudyInv
<1>. QED  BY <1>13, <1>16, <1>17
-----------------------------------------------------------------------------
(* The operations that both programs have, and the planner.                *)

LEMMA RefuseKeeps ==
  ASSUME StudyIInv, RefuseExistingOutput
  PROVE  StudyIInv'
<1>0. StudyTypes /\ ScriptInv /\ StudyInv /\ PilotInv /\ ResultInv
  BY DEF StudyIInv
<1>1. Step({"refuse existing"})
  BY DEF RefuseExistingOutput
<1>2. ~ raising
  BY <1>0, <1>1, NotRaising
<1>3. ScriptInv' /\ study' = study
  BY <1>0, <1>1, <1>2, ScriptStep
<1>4. StudyInv' /\ PilotInv'
  <2>1. CASE study.program = "study"
    BY <1>0, <1>2, <2>1, RefusePlace
  <2>2. CASE study.program # "study"
    BY <1>0, <1>2, <2>2, RefusePilot
  <2>. QED  BY <2>1, <2>2
<1>5. StudyTypes'
  <2>1. copies' \in Copies
    BY <1>0 DEF RefuseExistingOutput, Step, places, findings, StudyTypes, Copies
  <2>2. rows' \in SUBSET Nat
    BY <1>0 DEF RefuseExistingOutput, Step, places, findings, StudyTypes
  <2>3. retained' \in SUBSET Nat /\ records' \in Seq(AuditRecords)
    BY <1>0 DEF RefuseExistingOutput, Step, places, findings, StudyTypes
  <2>4. inside' \in BOOLEAN
    BY <1>0 DEF RefuseExistingOutput, Step, places, findings, StudyTypes
  <2>. QED  BY <1>0, <1>1, <1>2, <2>1, <2>2, <2>3, <2>4, TypesStep
<1>6. ResultInv'
  <2>1. selected' = selected /\ result' = result
    BY DEF RefuseExistingOutput, Step, places, findings
  <2>. QED  BY <1>0, <1>3, <2>1 DEF ResultInv
<1>. QED  BY <1>3, <1>4, <1>5, <1>6 DEF StudyIInv

LEMMA OutputKeeps ==
  ASSUME StudyIInv, MakeOutput
  PROVE  StudyIInv'
<1>0. StudyTypes /\ ScriptInv /\ StudyInv /\ PilotInv /\ ResultInv
  BY DEF StudyIInv
<1>1. Step({"mkdir output"})
  BY DEF MakeOutput
<1>2. ~ raising
  BY <1>0, <1>1, NotRaising
<1>3. ScriptInv' /\ study' = study
  BY <1>0, <1>1, <1>2, ScriptStep
<1>4. StudyInv' /\ PilotInv'
  <2>1. study.program = "study"
    <3>1. Next1.do \in {"mkdir output"}
      BY <1>1 DEF Step
    <3>. QED  BY <1>0, <1>1, <1>2, <3>1, StudyOnly
  <2>. QED  BY <1>0, <1>2, <2>1, OutputPlace
<1>5. StudyTypes'
  <2>1. copies' \in Copies
    BY <1>0 DEF MakeOutput, Step, places, findings, StudyTypes, Copies
  <2>2. rows' \in SUBSET Nat
    BY <1>0 DEF MakeOutput, Step, places, findings, StudyTypes
  <2>3. retained' \in SUBSET Nat /\ records' \in Seq(AuditRecords)
    BY <1>0 DEF MakeOutput, Step, places, findings, StudyTypes
  <2>4. inside' \in BOOLEAN
    BY <1>0 DEF MakeOutput, Step, places, findings, StudyTypes
  <2>. QED  BY <1>0, <1>1, <1>2, <2>1, <2>2, <2>3, <2>4, TypesStep
<1>6. ResultInv'
  <2>1. selected' = selected /\ result' = result
    BY DEF MakeOutput, Step, places, findings
  <2>. QED  BY <1>0, <1>3, <2>1 DEF ResultInv
<1>. QED  BY <1>3, <1>4, <1>5, <1>6 DEF StudyIInv

LEMMA StartKeeps ==
  ASSUME StudyIInv, StartService
  PROVE  StudyIInv'
<1>0. StudyTypes /\ ScriptInv /\ StudyInv /\ PilotInv /\ ResultInv
  BY DEF StudyIInv
<1>1. Step({"start postgres", "start redis", "start qdrant"})
  BY DEF StartService
<1>2. ~ raising
  BY <1>0, <1>1, NotRaising
<1>3. ScriptInv' /\ study' = study
  BY <1>0, <1>1, <1>2, ScriptStep
<1>4. StudyInv' /\ PilotInv'
  <2>1. CASE study.program = "study"
    BY <1>0, <1>2, <2>1, StartPlace
  <2>2. CASE study.program # "study"
    BY <1>0, <1>2, <2>2, StartPilot
  <2>. QED  BY <2>1, <2>2
<1>5. StudyTypes'
  <2>1. copies' \in Copies
    BY <1>0 DEF StartService, Step, places, findings, StudyTypes, Copies
  <2>2. rows' \in SUBSET Nat
    BY <1>0 DEF StartService, Step, places, findings, StudyTypes
  <2>3. retained' \in SUBSET Nat /\ records' \in Seq(AuditRecords)
    BY <1>0 DEF StartService, Step, places, findings, StudyTypes
  <2>4. inside' \in BOOLEAN
    BY <1>0 DEF StartService, Step, places, findings, StudyTypes
  <2>. QED  BY <1>0, <1>1, <1>2, <2>1, <2>2, <2>3, <2>4, TypesStep
<1>6. ResultInv'
  <2>1. selected' = selected /\ result' = result
    BY DEF StartService, Step, places, findings
  <2>. QED  BY <1>0, <1>3, <2>1 DEF ResultInv
<1>. QED  BY <1>3, <1>4, <1>5, <1>6 DEF StudyIInv

LEMMA EnteredKeeps ==
  ASSUME StudyIInv, Entered
  PROVE  StudyIInv'
<1>0. StudyTypes /\ ScriptInv /\ StudyInv /\ PilotInv /\ ResultInv
  BY DEF StudyIInv
<1>1. Step({"ready", "started"})
  BY DEF Entered
<1>2. ~ raising
  BY <1>0, <1>1, NotRaising
<1>3. ScriptInv' /\ study' = study
  BY <1>0, <1>1, <1>2, ScriptStep
<1>4. StudyInv' /\ PilotInv'
  <2>1. CASE study.program = "study"
    BY <1>0, <1>2, <2>1, EnteredPlace
  <2>2. CASE study.program # "study"
    BY <1>0, <1>2, <2>2, EnteredPilot
  <2>. QED  BY <2>1, <2>2
<1>5. StudyTypes'
  <2>1. copies' \in Copies
    BY <1>0 DEF Entered, Step, places, findings, StudyTypes, Copies
  <2>2. rows' \in SUBSET Nat
    BY <1>0 DEF Entered, Step, places, findings, StudyTypes
  <2>3. retained' \in SUBSET Nat /\ records' \in Seq(AuditRecords)
    BY <1>0 DEF Entered, Step, places, findings, StudyTypes
  <2>4. inside' \in BOOLEAN
    BY <1>0 DEF Entered, Step, places, findings, StudyTypes
  <2>. QED  BY <1>0, <1>1, <1>2, <2>1, <2>2, <2>3, <2>4, TypesStep
<1>6. ResultInv'
  <2>1. selected' = selected /\ result' = result
    BY DEF Entered, Step, places, findings
  <2>. QED  BY <1>0, <1>3, <2>1 DEF ResultInv
<1>. QED  BY <1>3, <1>4, <1>5, <1>6 DEF StudyIInv

LEMMA DeleteKeeps ==
  ASSUME StudyIInv, DeleteSource
  PROVE  StudyIInv'
<1>0. StudyTypes /\ ScriptInv /\ StudyInv /\ PilotInv /\ ResultInv
  BY DEF StudyIInv
<1>1. Step({"delete source"})
  BY DEF DeleteSource, OnSource, OnStores
<1>2. ~ raising
  BY <1>0, <1>1, NotRaising
<1>3. ScriptInv' /\ study' = study
  BY <1>0, <1>1, <1>2, ScriptStep
<1>4. StudyInv' /\ PilotInv'
  <2>1. CASE study.program = "study"
    BY <1>0, <1>2, <2>1, DeletePlace
  <2>2. CASE study.program # "study"
    BY <1>0, <1>2, <2>2, DeletePilot
  <2>. QED  BY <2>1, <2>2
<1>5. StudyTypes'
  <2>1. copies' \in Copies
    BY <1>0 DEF DeleteSource, OnSource, OnStores, Step, findings, StudyTypes, Copies
  <2>2. rows' \in SUBSET Nat
    BY <1>0 DEF DeleteSource, OnSource, OnStores, Step, findings, StudyTypes
  <2>3. retained' \in SUBSET Nat /\ records' \in Seq(AuditRecords)
    BY <1>0 DEF DeleteSource, OnSource, OnStores, Step, findings, StudyTypes
  <2>4. inside' \in BOOLEAN
    BY <1>0 DEF DeleteSource, OnSource, OnStores, Step, findings, StudyTypes
  <2>. QED  BY <1>0, <1>1, <1>2, <2>1, <2>2, <2>3, <2>4, TypesStep
<1>6. ResultInv'
  <2>1. selected' = selected /\ result' = result
    BY DEF DeleteSource, OnSource, OnStores, Step, findings
  <2>. QED  BY <1>0, <1>3, <2>1 DEF ResultInv
<1>. QED  BY <1>3, <1>4, <1>5, <1>6 DEF StudyIInv

LEMMA PopulateKeeps ==
  ASSUME StudyIInv, Populate
  PROVE  StudyIInv'
<1>0. StudyTypes /\ ScriptInv /\ StudyInv /\ PilotInv /\ ResultInv
  BY DEF StudyIInv
<1>1. Step({"populate"})
  BY DEF Populate, OnStores
<1>2. ~ raising
  BY <1>0, <1>1, NotRaising
<1>3. ScriptInv' /\ study' = study
  BY <1>0, <1>1, <1>2, ScriptStep
<1>4. StudyInv' /\ PilotInv'
  <2>1. study.program # "study"
    <3>1. Next1.do \in {"populate"}
      BY <1>1 DEF Step
    <3>. QED  BY <1>0, <1>1, <1>2, <3>1, PilotOnly DEF PilotVerbs
  <2>. QED  BY <1>0, <1>2, <2>1, PopulatePilot
<1>5. StudyTypes'
  <2>1. copies' \in Copies
    <3>1. study.program # "study"
      <4>1. Next1.do \in PilotVerbs
        BY <1>1 DEF Step, PilotVerbs
      <4>. QED  BY <1>0, <1>1, <1>2, <4>1, PilotOnly
    <3>. QED  BY <1>0, <1>2, <3>1, PopulatePilot
  <2>2. rows' \in SUBSET Nat
    <3>1. rows' = {0}
      BY DEF Populate
    <3>. QED  BY <3>1
  <2>3. retained' \in SUBSET Nat /\ records' \in Seq(AuditRecords)
    BY <1>0 DEF Populate, OnStores, Step, findings, StudyTypes
  <2>4. inside' \in BOOLEAN
    BY <1>0 DEF Populate, OnStores, Step, findings, StudyTypes
  <2>. QED  BY <1>0, <1>1, <1>2, <2>1, <2>2, <2>3, <2>4, TypesStep
<1>6. ResultInv'
  <2>1. selected' = selected /\ result' = result
    BY DEF Populate, OnStores, Step, findings
  <2>. QED  BY <1>0, <1>3, <2>1 DEF ResultInv
<1>. QED  BY <1>3, <1>4, <1>5, <1>6 DEF StudyIInv

LEMMA DumpKeeps ==
  ASSUME StudyIInv, Dump
  PROVE  StudyIInv'
<1>0. StudyTypes /\ ScriptInv /\ StudyInv /\ PilotInv /\ ResultInv
  BY DEF StudyIInv
<1>1. Step({"dump"})
  BY DEF Dump, OnCopies, OnStores
<1>2. ~ raising
  BY <1>0, <1>1, NotRaising
<1>3. ScriptInv' /\ study' = study
  BY <1>0, <1>1, <1>2, ScriptStep
<1>4. StudyInv' /\ PilotInv'
  <2>1. study.program # "study"
    <3>1. Next1.do \in {"dump"}
      BY <1>1 DEF Step
    <3>. QED  BY <1>0, <1>1, <1>2, <3>1, PilotOnly DEF PilotVerbs
  <2>. QED  BY <1>0, <1>2, <2>1, DumpPilot
<1>5. StudyTypes'
  <2>1. copies' \in Copies
    <3>1. study.program # "study"
      <4>1. Next1.do \in PilotVerbs
        BY <1>1 DEF Step, PilotVerbs
      <4>. QED  BY <1>0, <1>1, <1>2, <4>1, PilotOnly
    <3>. QED  BY <1>0, <1>2, <3>1, DumpPilot
  <2>2. rows' \in SUBSET Nat
    BY <1>0 DEF Dump, OnCopies, OnStores, Step, findings, StudyTypes
  <2>3. retained' \in SUBSET Nat /\ records' \in Seq(AuditRecords)
    BY <1>0 DEF Dump, OnCopies, OnStores, Step, findings, StudyTypes
  <2>4. inside' \in BOOLEAN
    BY <1>0 DEF Dump, OnCopies, OnStores, Step, findings, StudyTypes
  <2>. QED  BY <1>0, <1>1, <1>2, <2>1, <2>2, <2>3, <2>4, TypesStep
<1>6. ResultInv'
  <2>1. selected' = selected /\ result' = result
    BY DEF Dump, OnCopies, OnStores, Step, findings
  <2>. QED  BY <1>0, <1>3, <2>1 DEF ResultInv
<1>. QED  BY <1>3, <1>4, <1>5, <1>6 DEF StudyIInv

LEMMA DerivedKeeps ==
  ASSUME StudyIInv, DeleteDerived
  PROVE  StudyIInv'
<1>0. StudyTypes /\ ScriptInv /\ StudyInv /\ PilotInv /\ ResultInv
  BY DEF StudyIInv
<1>1. Step({"delete derived"})
  BY DEF DeleteDerived, OnCopies, OnStores
<1>2. ~ raising
  BY <1>0, <1>1, NotRaising
<1>3. ScriptInv' /\ study' = study
  BY <1>0, <1>1, <1>2, ScriptStep
<1>4. StudyInv' /\ PilotInv'
  <2>1. study.program # "study"
    <3>1. Next1.do \in {"delete derived"}
      BY <1>1 DEF Step
    <3>. QED  BY <1>0, <1>1, <1>2, <3>1, PilotOnly DEF PilotVerbs
  <2>. QED  BY <1>0, <1>2, <2>1, DerivedPilot
<1>5. StudyTypes'
  <2>1. copies' \in Copies
    <3>1. study.program # "study"
      <4>1. Next1.do \in PilotVerbs
        BY <1>1 DEF Step, PilotVerbs
      <4>. QED  BY <1>0, <1>1, <1>2, <4>1, PilotOnly
    <3>. QED  BY <1>0, <1>2, <3>1, DerivedPilot
  <2>2. rows' \in SUBSET Nat
    BY <1>0 DEF DeleteDerived, OnCopies, OnStores, Step, findings, StudyTypes
  <2>3. retained' \in SUBSET Nat /\ records' \in Seq(AuditRecords)
    BY <1>0 DEF DeleteDerived, OnCopies, OnStores, Step, findings, StudyTypes
  <2>4. inside' \in BOOLEAN
    BY <1>0 DEF DeleteDerived, OnCopies, OnStores, Step, findings, StudyTypes
  <2>. QED  BY <1>0, <1>1, <1>2, <2>1, <2>2, <2>3, <2>4, TypesStep
<1>6. ResultInv'
  <2>1. selected' = selected /\ result' = result
    BY DEF DeleteDerived, OnCopies, OnStores, Step, findings
  <2>. QED  BY <1>0, <1>3, <2>1 DEF ResultInv
<1>. QED  BY <1>3, <1>4, <1>5, <1>6 DEF StudyIInv

LEMMA UnlinkKeeps ==
  ASSUME StudyIInv, UnlinkDump
  PROVE  StudyIInv'
<1>0. StudyTypes /\ ScriptInv /\ StudyInv /\ PilotInv /\ ResultInv
  BY DEF StudyIInv
<1>1. Step({"unlink dump"})
  BY DEF UnlinkDump, OnCopies, OnStores
<1>2. ~ raising
  BY <1>0, <1>1, NotRaising
<1>3. ScriptInv' /\ study' = study
  BY <1>0, <1>1, <1>2, ScriptStep
<1>4. StudyInv' /\ PilotInv'
  <2>1. study.program # "study"
    <3>1. Next1.do \in {"unlink dump"}
      BY <1>1 DEF Step
    <3>. QED  BY <1>0, <1>1, <1>2, <3>1, PilotOnly DEF PilotVerbs
  <2>. QED  BY <1>0, <1>2, <2>1, UnlinkPilot
<1>5. StudyTypes'
  <2>1. copies' \in Copies
    <3>1. study.program # "study"
      <4>1. Next1.do \in PilotVerbs
        BY <1>1 DEF Step, PilotVerbs
      <4>. QED  BY <1>0, <1>1, <1>2, <4>1, PilotOnly
    <3>. QED  BY <1>0, <1>2, <3>1, UnlinkPilot
  <2>2. rows' \in SUBSET Nat
    BY <1>0 DEF UnlinkDump, OnCopies, OnStores, Step, findings, StudyTypes
  <2>3. retained' \in SUBSET Nat /\ records' \in Seq(AuditRecords)
    BY <1>0 DEF UnlinkDump, OnCopies, OnStores, Step, findings, StudyTypes
  <2>4. inside' \in BOOLEAN
    BY <1>0 DEF UnlinkDump, OnCopies, OnStores, Step, findings, StudyTypes
  <2>. QED  BY <1>0, <1>1, <1>2, <2>1, <2>2, <2>3, <2>4, TypesStep
<1>6. ResultInv'
  <2>1. selected' = selected /\ result' = result
    BY DEF UnlinkDump, OnCopies, OnStores, Step, findings
  <2>. QED  BY <1>0, <1>3, <2>1 DEF ResultInv
<1>. QED  BY <1>3, <1>4, <1>5, <1>6 DEF StudyIInv

LEMMA AuditGraphKeeps ==
  ASSUME StudyIInv, AuditGraph
  PROVE  StudyIInv'
<1>0. StudyTypes /\ ScriptInv /\ StudyInv /\ PilotInv /\ ResultInv
  BY DEF StudyIInv
<1>1. Step({"audit before", "audit after"})
  BY DEF AuditGraph, OnStores
<1>2. ~ raising
  BY <1>0, <1>1, NotRaising
<1>3. ScriptInv' /\ study' = study
  BY <1>0, <1>1, <1>2, ScriptStep
<1>4. study.program # "study"
  <2>1. Next1.do \in {"audit before", "audit after"}
    BY <1>1 DEF Step
  <2>. QED  BY <1>0, <1>1, <1>2, <2>1, PilotOnly DEF PilotVerbs
<1>5. Place = 6 \/ Place = 9
  <2>1. Next1.do = "audit before" \/ Next1.do = "audit after"
    BY <1>1 DEF Step
  <2>. QED  BY <1>0, <1>1, <1>2, <1>4, <2>1, PilotHere DEF PilotVerb
<1>6. StudyInv' /\ PilotInv' /\ records' \in Seq(AuditRecords)
  BY <1>0, <1>2, <1>4, <1>5, AuditBeforePilot, AuditAfterPilot
<1>7. StudyTypes'
  <2>1. copies' \in Copies /\ rows' \in SUBSET Nat
    BY <1>0 DEF AuditGraph, OnStores, places, StudyTypes, Copies
  <2>2. retained' \in SUBSET Nat /\ inside' \in BOOLEAN
    BY <1>0 DEF AuditGraph, OnStores, StudyTypes
  <2>. QED  BY <1>0, <1>1, <1>2, <1>6, <2>1, <2>2, TypesStep
<1>8. ResultInv'
  <2>1. selected' = selected /\ result' = result
    BY DEF AuditGraph, OnStores
  <2>. QED  BY <1>0, <1>3, <2>1 DEF ResultInv
<1>. QED  BY <1>3, <1>6, <1>7, <1>8 DEF StudyIInv

\* The clean-up of a failure leaves the script.
LEMMA StopKeeps ==
  ASSUME StudyIInv, StopServices
  PROVE  StudyIInv'
<1>0. StudyTypes /\ ScriptInv /\ StudyInv /\ PilotInv /\ ResultInv
  BY DEF StudyIInv
<1>1. /\ Step({"stop"}) /\ inside' = FALSE /\ hosts' \in {{}, hosts \intersect {"qdrant"}}
      /\ output' = output /\ result' = result /\ selected' = selected /\ records' = records
      /\ retained' = retained /\ rows' = rows /\ copies' = copies /\ dirs' = dirs
  BY DEF StopServices, places, findings
<1>2. study' = study /\ left' = left
  BY <1>1 DEF Step
<1>3. ResultInv'
  BY <1>0, <1>1, <1>2 DEF ResultInv
<1>4. CASE ~ raising
  <2>1. ScriptInv'
    BY <1>0, <1>1, <1>4, ScriptStep
  <2>2. StudyInv' /\ PilotInv'
    <3>1. CASE study.program = "study"
      BY <1>0, <1>4, <3>1, StopPlace
    <3>2. CASE study.program # "study"
      BY <1>0, <1>4, <3>2, StopPilot
    <3>. QED  BY <3>1, <3>2
  <2>3. StudyTypes'
    <3>1. /\ copies' \in Copies /\ rows' \in SUBSET Nat /\ retained' \in SUBSET Nat
          /\ inside' \in BOOLEAN /\ records' \in Seq(AuditRecords)
      BY <1>0, <1>1 DEF StudyTypes, Copies
    <3>. QED  BY <1>0, <1>1, <1>4, <3>1, TypesStep
  <2>. QED  BY <1>3, <2>1, <2>2, <2>3 DEF StudyIInv
<1>5. CASE raising
  <2>1. script' = <<>> /\ outcome' = "running" /\ raising' /\ Whole' = Whole
    BY <1>0, <1>1, <1>5, CleanUpStep
  <2>2. raising' \in BOOLEAN
    BY <1>0, <1>1 DEF Step, StudyTypes
  <2>3. StudyTypes'
    <3>1. script' \in Seq(Operations)
      BY <2>1, EmptySeq
    <3>. QED  BY <1>0, <1>1, <1>2, <2>1, <2>2, <3>1 DEF StudyTypes
  <2>4. ScriptInv'
    <3>1. Place' \in 0..Len(Whole)'
      <4>1. Len(Whole) \in Nat
        BY <1>0, WholeFacts DEF StudyTypes
      <4>2. Len(script') = 0
        BY <2>1, EmptySeq
      <4>. QED  BY <2>1, <4>1, <4>2 DEF Place
    <3>2. ~ OnScript'
      BY <2>1 DEF OnScript
    <3>3. Stopped'
      BY <1>1 DEF Stopped
    <3>4. <<>> # Exit
      BY ExitFacts
    <3>. QED  BY <2>1, <3>1, <3>2, <3>3, <3>4 DEF ScriptInv
  <2>5. ~ OnScript'
    BY <2>1 DEF OnScript
  <2>6. StudyInv'
    <3>1. StudyPlace'
      BY <2>5 DEF StudyPlace
    <3>2. study.program = "study" => StudyOutput'
      BY <1>0, <1>1, <1>2 DEF StudyInv, StudyOutput
    <3>3. study.program = "study" => (\A i \in DOMAIN records : StudyRecord(records[i]))'
      BY <1>0, <1>1, <1>2 DEF StudyInv, StudyRecord, OthersOf, People, Target
    <3>. QED  BY <1>2, <2>5, <3>1, <3>2, <3>3 DEF StudyInv
  <2>7. PilotInv'
    <3>1. PilotPlace'
      BY <2>5 DEF PilotPlace
    <3>. QED  BY <1>0, <1>1, <1>2, <3>1 DEF PilotInv, PilotRecord
  <2>. QED  BY <1>3, <2>3, <2>4, <2>6, <2>7 DEF StudyIInv
<1>. QED  BY <1>4, <1>5

\* What the plan costs.
LEMMA ComponentFacts ==
  /\ IsFiniteSet(Components) /\ Cardinality(Components) = 4 /\ "rebuild-all" \notin Components
  /\ IsFiniteSet(Actions) /\ Components # {} /\ Components \subseteq Actions
<1>1. IsFiniteSet(Components) /\ Cardinality(Components) = 4
  <2>. DEFINE a == {"vector"}
              b == a \union {"cache"}
              c == b \union {"backup"}
              d == c \union {"model"}
  <2>1. IsFiniteSet(a) /\ Cardinality(a) = 1
    BY FS_Singleton
  <2>2. "cache" \notin a /\ "backup" \notin b /\ "model" \notin c
    OBVIOUS
  <2>. HIDE DEF a
  <2>3. IsFiniteSet(b) /\ Cardinality(b) = 2
    BY <2>1, <2>2, FS_AddElement
  <2>. HIDE DEF b
  <2>4. IsFiniteSet(c) /\ Cardinality(c) = 3
    BY <2>2, <2>3, FS_AddElement
  <2>. HIDE DEF c
  <2>5. IsFiniteSet(d) /\ Cardinality(d) = 4
    BY <2>2, <2>4, FS_AddElement
  <2>6. d = Components
    BY DEF a, b, c, d, Components
  <2>. QED  BY <2>5, <2>6
<1>2. /\ "rebuild-all" \notin Components /\ Components # {} /\ Components \subseteq Actions
      /\ Actions = Components \union {"rebuild-all"}
  BY DEF Components, Actions
<1>3. IsFiniteSet(Actions)
  BY <1>1, <1>2, FS_AddElement
<1>. QED  BY <1>1, <1>2, <1>3

Complete(S) == S \in SUBSET Actions /\ UNION {ClosesOf(a) : a \in S} = Components
Beats(S, R, timing) ==
  \/ CostOfPlan(S, timing) < CostOfPlan(R, timing)
  \/ /\ CostOfPlan(S, timing) = CostOfPlan(R, timing)
     /\ Cardinality(S) < Cardinality(R)

\* The complete plans are the one of all the components, and those that rebuild.
LEMMA CompletePlans ==
  /\ Complete(Components) /\ Complete({"rebuild-all"})
  /\ \A S : Complete(S) => S = Components \/ "rebuild-all" \in S
<1>1. Complete(Components)
  BY ComponentFacts DEF Complete, ClosesOf
<1>2. Complete({"rebuild-all"})
  BY DEF Complete, ClosesOf, Actions
<1>3. ASSUME NEW S, Complete(S), "rebuild-all" \notin S PROVE S = Components
  <2>1. \A a \in S : ClosesOf(a) = {a}
    BY <1>3 DEF ClosesOf
  <2>2. S \subseteq Components
    BY <1>3 DEF Complete, Actions
  <2>3. \A c \in Components : c \in S
    BY <1>3, <2>1 DEF Complete
  <2>. QED  BY <2>2, <2>3
<1>. QED  BY <1>1, <1>2, <1>3

LEMMA PlanCosts ==
  ASSUME NEW timing \in Timings
  PROVE  /\ timing.part \in Nat /\ timing.whole \in Nat
         /\ CostOfPlan(Components, timing) = 4 * timing.part /\ Cardinality(Components) = 4
         /\ CostOfPlan({"rebuild-all"}, timing) = timing.whole /\ Cardinality({"rebuild-all"}) = 1
         /\ \A S : Complete(S) /\ "rebuild-all" \in S =>
              /\ CostOfPlan(S, timing) \in Nat /\ CostOfPlan(S, timing) >= timing.whole
              /\ Cardinality(S) \in Nat /\ Cardinality(S) >= 1
              /\ S # {"rebuild-all"} => Cardinality(S) > 1
<1>1. timing.part \in Nat /\ timing.whole \in Nat
  BY StudiesAssumption
<1>2. PICK p \in Nat : p = timing.part
  BY <1>1
<1>3. PICK w \in Nat : w = timing.whole
  BY <1>1
<1>4. CostOfPlan(Components, timing) = 4 * p
  <2>1. Components \ {"rebuild-all"} = Components
    BY ComponentFacts
  <2>2. CostOfPlan(Components, timing) = Cardinality(Components) * p + 0
    BY <1>2, <2>1, ComponentFacts DEF CostOfPlan
  <2>. QED  BY <2>2, ComponentFacts
<1>5. CostOfPlan({"rebuild-all"}, timing) = w /\ Cardinality({"rebuild-all"}) = 1
  <2>1. {"rebuild-all"} \ {"rebuild-all"} = {}
    OBVIOUS
  <2>2. Cardinality({}) = 0
    BY FS_EmptySet
  <2>3. CostOfPlan({"rebuild-all"}, timing) = 0 * p + w
    BY <1>2, <1>3, <2>1, <2>2 DEF CostOfPlan
  <2>. QED  BY <2>3, FS_Singleton
<1>6. ASSUME NEW S, Complete(S), "rebuild-all" \in S
      PROVE  /\ CostOfPlan(S, timing) \in Nat /\ CostOfPlan(S, timing) >= w
             /\ Cardinality(S) \in Nat /\ Cardinality(S) >= 1
             /\ S # {"rebuild-all"} => Cardinality(S) > 1
  <2>. DEFINE T == S \ {"rebuild-all"}
  <2>1. IsFiniteSet(S)
    BY <1>6, ComponentFacts, FS_Subset DEF Complete
  <2>2. IsFiniteSet(T) /\ Cardinality(T) = Cardinality(S) - 1
    BY <1>6, <2>1, FS_RemoveElement
  <2>3. Cardinality(T) \in Nat /\ Cardinality(S) \in Nat
    BY <2>1, <2>2, FS_CardinalityType
  <2>4. PICK k \in Nat : k = Cardinality(T)
    BY <2>3
  <2>5. CostOfPlan(S, timing) = k * p + w
    BY <1>2, <1>3, <1>6, <2>4 DEF CostOfPlan
  <2>6. k * p \in Nat
    OBVIOUS
  <2>7. CostOfPlan(S, timing) \in Nat /\ CostOfPlan(S, timing) >= w
    <3>1. PICK x \in Nat : x = k * p
      BY <2>6
    <3>. QED  BY <2>5, <3>1
  <2>8. ASSUME S # {"rebuild-all"} PROVE Cardinality(T) # 0
    <3>1. T # {}
      BY <1>6, <2>8
    <3>. QED  BY <2>2, <3>1, FS_EmptySet
  <2>. HIDE DEF T
  <2>. QED  BY <2>2, <2>3, <2>7, <2>8
<1>7. CostOfPlan(Components, timing) = 4 * timing.part
  BY <1>2, <1>4
<1>8. CostOfPlan({"rebuild-all"}, timing) = timing.whole
  BY <1>3, <1>5
<1>9. \A S : Complete(S) /\ "rebuild-all" \in S =>
        /\ CostOfPlan(S, timing) \in Nat /\ CostOfPlan(S, timing) >= timing.whole
        /\ Cardinality(S) \in Nat /\ Cardinality(S) >= 1
        /\ S # {"rebuild-all"} => Cardinality(S) > 1
  BY <1>3, <1>6
<1>. QED  BY <1>1, <1>5, <1>7, <1>8, <1>9, ComponentFacts, Zenon

LEMMA PlanIsPure ==
  ASSUME NEW timing \in Timings, NEW plan,
         plan = CHOOSE S \in { S \in SUBSET Actions : UNION {ClosesOf(a) : a \in S} = Components } :
                  \A R \in { Q \in SUBSET Actions : UNION {ClosesOf(a) : a \in Q} = Components } :
                    ~ Beats(R, S, timing)
  PROVE  plan = Components \/ plan = {"rebuild-all"}
<1>. DEFINE complete == { S \in SUBSET Actions : UNION {ClosesOf(a) : a \in S} = Components }
            all == {"rebuild-all"}
<1>1. \A S : S \in complete <=> Complete(S)
  BY DEF Complete
<1>. HIDE DEF complete
<1>2. PICK p \in Nat : p = timing.part
  BY PlanCosts
<1>3. PICK w \in Nat : w = timing.whole
  BY PlanCosts
<1>4. /\ CostOfPlan(Components, timing) = 4 * p /\ Cardinality(Components) = 4
      /\ CostOfPlan(all, timing) = w /\ Cardinality(all) = 1
  BY <1>2, <1>3, PlanCosts
<1>5. \A S : Complete(S) /\ "rebuild-all" \in S =>
        /\ CostOfPlan(S, timing) \in Nat /\ CostOfPlan(S, timing) >= w
        /\ Cardinality(S) \in Nat /\ Cardinality(S) >= 1
        /\ S # all => Cardinality(S) > 1
  BY <1>3, PlanCosts
<1>6. Complete(Components) /\ Complete(all) /\ \A S : Complete(S) => S = Components \/ "rebuild-all" \in S
  BY CompletePlans
<1>. HIDE DEF all
<1>7. \E S \in complete : \A R \in complete : ~ Beats(R, S, timing)
  <2>1. CASE 4 * p < w
    <3>1. ASSUME NEW R, Complete(R) PROVE ~ Beats(R, Components, timing)
      <4>1. CASE R = Components
        BY <1>4, <4>1 DEF Beats
      <4>2. CASE "rebuild-all" \in R
        <5>1. PICK x \in Nat : x = CostOfPlan(R, timing)
          BY <1>5, <3>1, <4>2
        <5>2. x >= w
          BY <1>5, <3>1, <4>2, <5>1
        <5>. QED  BY <1>4, <2>1, <5>1, <5>2 DEF Beats
      <4>. QED  BY <1>6, <3>1, <4>1, <4>2
    <3>. QED  BY <1>1, <1>6, <3>1
  <2>2. CASE ~ (4 * p < w)
    <3>1. ASSUME NEW R, Complete(R) PROVE ~ Beats(R, all, timing)
      <4>1. CASE R = Components
        BY <1>4, <2>2, <4>1 DEF Beats
      <4>2. CASE "rebuild-all" \in R
        <5>1. PICK x \in Nat : x = CostOfPlan(R, timing)
          BY <1>5, <3>1, <4>2
        <5>2. PICK c \in Nat : c = Cardinality(R)
          BY <1>5, <3>1, <4>2
        <5>3. x >= w /\ c >= 1
          BY <1>5, <3>1, <4>2, <5>1, <5>2
        <5>. QED  BY <1>4, <5>1, <5>2, <5>3 DEF Beats
      <4>. QED  BY <1>6, <3>1, <4>1, <4>2
    <3>. QED  BY <1>1, <1>6, <3>1
  <2>. QED  BY <2>1, <2>2
<1>8. plan \in complete /\ \A R \in complete : ~ Beats(R, plan, timing)
  BY <1>7 DEF complete
<1>9. CASE "rebuild-all" \in plan
  <2>1. Complete(plan) /\ ~ Beats(all, plan, timing)
    BY <1>1, <1>6, <1>8
  <2>2. PICK x \in Nat : x = CostOfPlan(plan, timing)
    BY <1>5, <1>9, <2>1
  <2>3. PICK c \in Nat : c = Cardinality(plan)
    BY <1>5, <1>9, <2>1
  <2>4. x >= w /\ (plan # all => c > 1)
    BY <1>5, <1>9, <2>1, <2>2, <2>3
  <2>5. plan # all => FALSE
    BY <1>4, <2>1, <2>2, <2>3, <2>4 DEF Beats
  <2>. QED  BY <2>5 DEF all
<1>. QED  BY <1>1, <1>6, <1>8, <1>9

LEMMA PlannerKeeps ==
  ASSUME StudyIInv, PlannerFromCalibration
  PROVE  StudyIInv'
<1>0. StudyTypes /\ ScriptInv /\ StudyInv /\ PilotInv /\ ResultInv
  BY DEF StudyIInv
<1>1. /\ Step({"plan"}) /\ inside' = inside /\ hosts' = hosts /\ output' = output
      /\ result' = result /\ records' = records /\ retained' = retained
      /\ rows' = rows /\ copies' = copies
  BY DEF PlannerFromCalibration, OnStores, places
<1>2. ~ raising
  BY <1>0, <1>1, NotRaising
<1>3. ScriptInv' /\ study' = study
  BY <1>0, <1>1, <1>2, ScriptStep
<1>4. Next1.do = "plan"
  BY <1>1 DEF Step
<1>5. StudyInv' /\ PilotInv'
  <2>1. study.program = "study"
    BY <1>0, <1>1, <1>2, <1>4, StudyOnly
  <2>. QED  BY <1>0, <1>1, <1>2, <1>4, <2>1, PlanPlace
<1>6. StudyTypes'
  <2>1. /\ copies' \in Copies /\ rows' \in SUBSET Nat /\ retained' \in SUBSET Nat
        /\ inside' \in BOOLEAN /\ records' \in Seq(AuditRecords)
    BY <1>0, <1>1 DEF StudyTypes, Copies
  <2>. QED  BY <1>0, <1>1, <1>2, <2>1, TypesStep
<1>7. ResultInv'
  <2>1. selected' = Components \/ selected' = {"rebuild-all"}
    BY PlanIsPure DEF PlannerFromCalibration, Beats
  <2>. QED  BY <1>0, <1>1, <1>3, <2>1 DEF ResultInv
<1>. QED  BY <1>3, <1>5, <1>6, <1>7 DEF StudyIInv

LEMMA WriteKeeps ==
  ASSUME StudyIInv, WriteResult
  PROVE  StudyIInv'
<1>0. StudyTypes /\ ScriptInv /\ StudyInv /\ PilotInv /\ ResultInv
  BY DEF StudyIInv
<1>1. /\ Step({"write"}) /\ inside' = inside /\ hosts' = hosts /\ output' = "result"
      /\ selected' = selected /\ records' = records /\ retained' = retained
      /\ rows' = rows /\ copies' = copies
  BY DEF WriteResult, places, findings
<1>2. ~ raising
  BY <1>0, <1>1, NotRaising
<1>3. ScriptInv' /\ study' = study /\ OnScript
  BY <1>0, <1>1, <1>2, ScriptStep
<1>4. Next1.do = "write"
  BY <1>1 DEF Step
<1>5. StudyInv' /\ PilotInv'
  <2>1. CASE study.program = "study"
    BY <1>0, <1>1, <1>2, <1>4, <2>1, PlanPlace
  <2>2. CASE study.program # "study"
    BY <1>0, <1>2, <2>2, WritePilot
  <2>. QED  BY <2>1, <2>2
<1>6. StudyTypes'
  <2>1. /\ copies' \in Copies /\ rows' \in SUBSET Nat /\ retained' \in SUBSET Nat
        /\ inside' \in BOOLEAN /\ records' \in Seq(AuditRecords)
    BY <1>0, <1>1 DEF StudyTypes, Copies
  <2>. QED  BY <1>0, <1>1, <1>2, <2>1, TypesStep
<1>7. ResultInv'
  <2>1. PICK timing \in Timings :
          result' = IF study.program = "pilot" \/ study.only THEN <<"measured">>
                    ELSE <<Decision(timing), timing>>
    BY DEF WriteResult
  <2>2. CASE study.program = "pilot" \/ study.only
    <3>1. result' = <<"measured">>
      BY <2>1, <2>2
    <3>. QED  BY <1>0, <1>1, <3>1 DEF ResultInv
  <2>3. CASE ~ (study.program = "pilot" \/ study.only)
    <3>1. study.program = "study" /\ ~ study.only
      BY <1>0, <2>3, ArgumentFacts DEF StudyTypes
    <3>2. PICK d : d = Decision(timing)
      OBVIOUS
    <3>3. result' = <<d, timing>>
      BY <2>1, <2>3, <3>2
    <3>4. result'[1] = d /\ result'[2] = timing
      BY <3>3
    <3>5. \A i \in DOMAIN records :
            records[i].verdict = "COMPLETE" /\ records[i].retained = study.people - 1
      BY <1>0, <3>1 DEF StudyInv, StudyRecord
    <3>6. d \in {"PASS", "FAIL"} /\ (d = "FAIL" => ~ (timing.faster /\ timing.smaller))
      BY <3>2, <3>5 DEF Decision
    <3>. QED  BY <1>0, <1>1, <1>3, <3>1, <3>4, <3>6 DEF ResultInv
  <2>. QED  BY <2>2, <2>3
<1>. QED  BY <1>3, <1>5, <1>6, <1>7 DEF StudyIInv

-----------------------------------------------------------------------------
(* Failures, ends and new starts.                                          *)

\* Off its script, a process owes nothing but what its records and its services say.
LEMMA OffScript ==
  ASSUME StudyInv, PilotInv, ~ OnScript', study' = study, records' = records, left' = left,
         hosts' = hosts, output' = output, copies' = copies
  PROVE  StudyInv' /\ PilotInv'
<1>1. StudyPlace' /\ PilotPlace'
  BY DEF StudyPlace, PilotPlace
<1>2. study.program = "study" => StudyOutput'
  BY DEF StudyInv, StudyOutput
<1>3. study.program = "study" => (\A i \in DOMAIN records : StudyRecord(records[i]))'
  BY DEF StudyInv, StudyRecord, OthersOf, People, Target
<1>4. StudyInv'
  BY <1>1, <1>2, <1>3 DEF StudyInv
<1>5. PilotInv'
  BY <1>1 DEF PilotInv, PilotRecord
<1>. QED  BY <1>4, <1>5

LEMMA RaiseKeeps ==
  ASSUME StudyIInv, Raise
  PROVE  StudyIInv'
<1>0. StudyTypes /\ ScriptInv /\ StudyInv /\ PilotInv /\ ResultInv
  BY DEF StudyIInv
<1>1. /\ outcome = "running" /\ script # <<>> /\ (Next1.do = "stop" => study.program = "pilot")
      /\ raising' = TRUE /\ script' = IF Next1.do = "stop" THEN <<>> ELSE OnException
      /\ study' = study /\ outcome' = outcome /\ inside' = inside /\ hosts' = hosts
      /\ left' = left /\ output' = output
  BY DEF Raise
<1>2. /\ rows' = rows /\ copies' = copies /\ dirs' = dirs /\ retained' = retained
      /\ records' = records /\ selected' = selected /\ result' = result
  BY DEF Raise, places, findings
<1>3. ~ OnScript'
  BY <1>1 DEF OnScript
<1>4. StudyInv' /\ PilotInv'
  BY <1>0, <1>1, <1>2, <1>3, OffScript
<1>5. ResultInv'
  BY <1>0, <1>1, <1>2 DEF ResultInv
<1>6. script' = <<>> \/ (script' = Exit /\ inside)
  BY <1>1 DEF OnException
<1>7. StudyTypes'
  <2>1. script' \in Seq(Operations)
    BY <1>6, EmptySeq, ExitFacts
  <2>. QED  BY <1>0, <1>1, <1>2, <2>1 DEF StudyTypes
<1>8. Place' \in 0..Len(Whole)'
  <2>1. Len(Whole) \in Nat /\ Len(Whole) >= 6 /\ Whole' = Whole
    BY <1>0, <1>1, WholeFacts DEF StudyTypes, Whole
  <2>2. Len(script') = 0 \/ Len(script') = 1
    BY <1>6, EmptySeq, ExitFacts
  <2>3. PICK w \in Nat : w = Len(Whole) /\ w >= 6
    BY <2>1
  <2>4. Place' = w - Len(script') /\ Len(Whole)' = w
    BY <2>1, <2>3 DEF Place
  <2>5. Place' \in 0..w
    BY <2>2, <2>3, <2>4
  <2>. QED  BY <2>4, <2>5
<1>9. ASSUME script' = <<>> PROVE Stopped \/ Untouched \/ (study.program = "pilot" /\ inside)
  <2>1. CASE raising
    <3>1. script = Exit /\ inside
      BY <1>0, <1>1, <2>1 DEF ScriptInv
    <3>2. Next1.do = "stop"
      BY <3>1, ExitFacts DEF Next1
    <3>. QED  BY <1>1, <3>1, <3>2
  <2>2. CASE ~ raising
    <3>1. OnScript
      BY <1>1, <2>2 DEF OnScript
    <3>2. PICK n \in Nat : n = Place /\ n + 1 \in 1..Len(Whole) /\ Next1 = Whole[n + 1]
      <4>1. script \in Seq(Operations) /\ script # <<>> /\ Len(Whole) \in Nat
        BY <1>0, <1>1, WholeFacts DEF StudyTypes
      <4>2. /\ Place \in 0..Len(Whole)
            /\ \A i \in 1..Len(script) : script[i] = Whole[Place + i]
        BY <1>0, <3>1 DEF ScriptInv
      <4>3. PICK m \in Nat : m = Len(script) /\ m >= 1 /\ Next1 = script[1]
        BY <4>1 DEF Next1
      <4>4. Place = Len(Whole) - m
        BY <4>3 DEF Place
      <4>5. Place \in Nat /\ Place + 1 \in 1..Len(Whole) /\ 1 \in 1..m
        BY <4>1, <4>2, <4>3, <4>4
      <4>. QED  BY <4>2, <4>3, <4>5
    <3>3. study \in Studies
      BY <1>0 DEF StudyTypes
    <3>4. CASE study.program = "study"
      <4>1. script' = OnException /\ ~ inside
        <5>1. Next1.do # "stop"
          BY <1>1, <3>4
        <5>2. <<>> # Exit
          BY ExitFacts
        <5>. QED  BY <1>1, <1>9, <5>1, <5>2 DEF OnException
      <4>2. (Place <= 5 => Untouched) /\ (Place >= 6 => inside \/ Stopped)
        BY <1>0, <3>1, <3>4 DEF StudyInv, StudyPlace
      <4>3. Place <= 5 \/ Place >= 6
        BY <3>2
      <4>. QED  BY <4>1, <4>2, <4>3
    <3>5. CASE study.program # "study"
      <4>1. study.program = "pilot"
        BY <3>3, <3>5, ArgumentFacts
      <4>2. n \in 0..11
        BY <3>2, <3>3, <3>5, PilotPlaces
      <4>3. Place <= 3 \/ Place \in 3..10 \/ Place \in 11..12
        BY <3>2, <4>2
      <4>4. /\ (Place <= 3 => Untouched) /\ (Place \in 3..10 => inside)
            /\ (Place \in 11..12 => Stopped)
        BY <1>0, <3>1, <3>5 DEF PilotInv, PilotPlace
      <4>. QED  BY <4>1, <4>3, <4>4
    <3>. QED  BY <3>4, <3>5
  <2>. QED  BY <2>1, <2>2
<1>10. ScriptInv'
  <2>1. <<>> # Exit
    BY ExitFacts
  <2>2. raising' /\ outcome' = "running"
    BY <1>1
  <2>3. script' = <<>> => (Stopped \/ Untouched \/ (study.program = "pilot" /\ inside))'
    BY <1>1, <1>2, <1>9 DEF Stopped, Untouched
  <2>. QED  BY <1>1, <1>3, <1>6, <1>8, <2>1, <2>2, <2>3 DEF ScriptInv
<1>. QED  BY <1>4, <1>5, <1>7, <1>10 DEF StudyIInv

\* Where it stands, a process stands when it has returned.
LEMMA SamePlace ==
  ASSUME StudyInv, PilotInv, OnScript,
         study' = study, script' = script, inside' = inside, hosts' = hosts, left' = left,
         output' = output, rows' = rows, copies' = copies, dirs' = dirs,
         retained' = retained, records' = records
  PROVE  StudyInv' /\ PilotInv'
<1>1. /\ Whole' = Whole /\ Place' = Place /\ Untouched' = Untouched /\ Stopped' = Stopped
      /\ People' = People
  BY DEF Whole, Place, Untouched, Stopped, People
<1>2. study.program = "study" => StudyPlace'
  BY <1>1 DEF StudyInv, StudyPlace
<1>3. study.program = "study" => StudyOutput'
  BY DEF StudyInv, StudyOutput
<1>4. study.program = "study" => (\A i \in DOMAIN records : StudyRecord(records[i]))'
  BY DEF StudyInv, StudyRecord, OthersOf, People, Target
<1>5. study.program = "study" => AuditsInv'
  BY <1>1 DEF StudyInv, AuditsInv
<1>6. study.program = "study" => TrialsInv'
  <2>1. ASSUME NEW k, NEW seed, TrialFacts(k, seed) PROVE TrialFacts(k, seed)'
    BY <2>1 DEF TrialFacts, SourceFacts, TargetedFacts, RebuildFacts, Turns, BeforeTargeted,
                BeforeRebuild, Target, People
  <2>0. PICK n : n = Place
    OBVIOUS
  <2>2. ASSUME study.program = "study", NEW b \in 0..n, NEW seed \in Nat,
               TrialAt(Whole, b, seed), n <= b + 25
        PROVE  TrialFacts(n - b, seed)'
    <3>1. PICK k : k = n - b
      OBVIOUS
    <3>2. TrialFacts(k, seed)
      BY <2>0, <2>2, <3>1 DEF StudyInv, TrialsInv
    <3>3. TrialFacts(k, seed)'
      BY <2>1, <3>2
    <3>. QED  BY <3>1, <3>3
  <2>. QED  BY <1>1, <2>0, <2>2 DEF TrialsInv
<1>7. StudyInv'
  BY <1>2, <1>3, <1>4, <1>5, <1>6 DEF StudyInv
<1>8. study.program # "study" => PilotPlace'
  BY <1>1 DEF PilotInv, PilotPlace
<1>9. PilotInv'
  BY <1>8 DEF PilotInv, PilotRecord
<1>. QED  BY <1>7, <1>9

LEMMA ReturnKeeps ==
  ASSUME StudyIInv, Return
  PROVE  StudyIInv'
<1>0. StudyTypes /\ ScriptInv /\ StudyInv /\ PilotInv /\ ResultInv
  BY DEF StudyIInv
<1>1. /\ outcome = "running" /\ script = <<>>
      /\ outcome' = IF raising THEN "raised" ELSE "done"
      /\ study' = study /\ script' = script /\ raising' = raising /\ inside' = inside
      /\ hosts' = hosts /\ left' = left /\ output' = output
  BY DEF Return
<1>2. /\ rows' = rows /\ copies' = copies /\ dirs' = dirs /\ retained' = retained
      /\ records' = records /\ selected' = selected /\ result' = result
  BY DEF Return, places, findings
<1>3. StudyInv' /\ PilotInv'
  <2>1. CASE raising
    <3>1. ~ OnScript'
      BY <1>1, <2>1 DEF OnScript
    <3>. QED  BY <1>0, <1>1, <1>2, <3>1, OffScript
  <2>2. CASE ~ raising
    <3>1. OnScript
      BY <1>1, <2>2 DEF OnScript
    <3>. QED  BY <1>0, <1>1, <1>2, <3>1, SamePlace
  <2>. QED  BY <2>1, <2>2
<1>4. StudyTypes'
  BY <1>0, <1>1, <1>2 DEF StudyTypes
<1>5. ScriptInv'
  <2>1. Whole' = Whole /\ Place' = Place /\ Stopped' = Stopped /\ Untouched' = Untouched
    BY <1>1, <1>2 DEF Whole, Place, Stopped, Untouched
  <2>2. OnScript' => OnScript
    BY <1>1 DEF OnScript
  <2>3. (outcome' = "done" => ~ raising) /\ (outcome' = "raised" => raising)
    BY <1>1
  <2>. QED  BY <1>0, <1>1, <2>1, <2>2, <2>3 DEF ScriptInv
<1>6. ResultInv'
  BY <1>0, <1>1, <1>2 DEF ResultInv
<1>. QED  BY <1>3, <1>4, <1>5, <1>6 DEF StudyIInv

LEMMA KillKeeps ==
  ASSUME StudyIInv, KillStudy
  PROVE  StudyIInv'
<1>0. StudyTypes /\ ScriptInv /\ StudyInv /\ PilotInv /\ ResultInv
  BY DEF StudyIInv
<1>1. /\ outcome' = "killed"
      /\ study' = study /\ script' = script /\ raising' = raising /\ inside' = inside
      /\ hosts' = hosts /\ left' = left /\ output' = output
  BY DEF KillStudy
<1>2. /\ rows' = rows /\ copies' = copies /\ dirs' = dirs /\ retained' = retained
      /\ records' = records /\ selected' = selected /\ result' = result
  BY DEF KillStudy, places, findings
<1>3. ~ OnScript'
  BY <1>1 DEF OnScript
<1>4. StudyInv' /\ PilotInv'
  BY <1>0, <1>1, <1>2, <1>3, OffScript
<1>5. StudyTypes'
  BY <1>0, <1>1, <1>2 DEF StudyTypes
<1>6. ScriptInv'
  <2>1. Whole' = Whole /\ Place' = Place /\ Stopped' = Stopped /\ Untouched' = Untouched
    BY <1>1, <1>2 DEF Whole, Place, Stopped, Untouched
  <2>. QED  BY <1>0, <1>1, <1>3, <2>1 DEF ScriptInv
<1>7. ResultInv'
  BY <1>0, <1>1, <1>2 DEF ResultInv
<1>. QED  BY <1>4, <1>5, <1>6, <1>7 DEF StudyIInv

\* At the start, of the first process and of any other, nothing is touched.
Fresh ==
  /\ study \in Studies /\ script = Whole /\ outcome = "running" /\ raising = FALSE
  /\ inside = FALSE /\ hosts = {} /\ Untouched /\ retained = {} /\ selected = {}
  /\ copies = [via \in Strategies \union {PilotCopy} |-> NoCopy]

OutputHolds == study.program = "study" => StudyOutput

LEMMA NothingTurned ==
  ASSUME NEW seed \in Nat
  PROVE  TrialFacts(0, seed)
<1>1. \/ BeforeTargeted(seed) = 12 /\ BeforeRebuild(seed) = 17
      \/ BeforeTargeted(seed) = 18 /\ BeforeRebuild(seed) = 12
  BY Orders
<1>2. SourceFacts(0, Target(seed))
  BY DEF SourceFacts, Turns
<1>3. TargetedFacts(0, BeforeTargeted(seed), Target(seed))
  BY <1>1 DEF TargetedFacts, Turns
<1>4. RebuildFacts(0, BeforeRebuild(seed), Target(seed))
  BY <1>1 DEF RebuildFacts, Turns
<1>. QED  BY <1>2, <1>3, <1>4 DEF TrialFacts

LEMMA FreshHolds == Fresh /\ OutputHolds /\ ResultInv => StudyIInv
<1>. SUFFICES ASSUME Fresh, OutputHolds, ResultInv PROVE StudyIInv
  OBVIOUS
<1>1. /\ study \in Studies /\ script = Whole /\ outcome = "running" /\ raising = FALSE
      /\ inside = FALSE /\ Untouched /\ retained = {} /\ OnScript
      /\ copies = [via \in Strategies \union {PilotCopy} |-> NoCopy]
  BY DEF Fresh, OnScript
<1>2. Whole \in Seq(Operations) /\ Len(Whole) \in Nat /\ Len(Whole) >= 6
  BY <1>1, WholeFacts
<1>3. Place = 0
  BY <1>1, <1>2 DEF Place
<1>4. rows = {} /\ records = <<>> /\ dirs = {}
  BY <1>1 DEF Untouched
<1>5. DOMAIN records = {}
  BY <1>4
<1>6. StudyTypes
  <2>1. NoCopy \in CopyRecords
    BY DEF NoCopy, CopyRecords
  <2>2. records \in Seq(AuditRecords)
    BY <1>4, EmptySeq
  <2>. QED  BY <1>1, <1>2, <1>4, <2>1, <2>2 DEF StudyTypes
<1>7. ScriptInv
  <2>1. \A i \in 1..Len(script) : 0 + i = i
    BY <1>1, <1>2
  <2>2. \A i \in 1..Len(script) : script[i] = Whole[Place + i]
    BY <1>1, <1>3, <2>1
  <2>3. Place \in 0..Len(Whole)
    BY <1>2, <1>3
  <2>. QED  BY <1>1, <2>2, <2>3 DEF ScriptInv
<1>8. StudyInv
  <2>1. StudyPlace
    <3>1. ~ (Place >= 2) /\ ~ (Place >= 1) /\ ~ (Place >= 6)
      BY <1>3
    <3>. QED  BY <1>1, <3>1 DEF StudyPlace
  <2>2. AuditsInv
    <3>1. 1..Place = {}
      BY <1>3
    <3>. QED  BY <3>1 DEF AuditsInv
  <2>3. TrialsInv
    <3>1. ASSUME NEW b \in 0..Place, NEW seed \in Nat PROVE TrialFacts(Place - b, seed)
      <4>0. b \in 0..0
        BY <1>3
      <4>3. b = 0 /\ 0 - 0 = 0
        BY <4>0
      <4>1. Place - b = 0
        BY <1>3, <4>3
      <4>2. TrialFacts(0, seed)
        BY NothingTurned
      <4>. QED  BY <4>1, <4>2
    <3>. QED  BY <3>1 DEF TrialsInv
  <2>. QED  BY <1>5, <2>1, <2>2, <2>3 DEF StudyInv, OutputHolds
<1>9. PilotInv
  <2>1. PilotPlace
    <3>1. /\ Place \notin 3..10 /\ Place \notin 11..12 /\ Place \notin 4..6 /\ Place \notin 4..5
          /\ Place \notin 4..7 /\ Place \notin 8..12 /\ Place \notin 5..8
      BY <1>3
    <3>2. Place \notin 9..12 /\ Place \notin 7..9 /\ Place \notin 7..12 /\ Place \notin 10..12
      BY <1>3
    <3>. QED  BY <1>1, <3>1, <3>2 DEF PilotPlace
  <2>2. copies[PilotCopy] = NoCopy
    BY <1>1
  <2>3. copies[PilotCopy].cache = {} /\ copies[PilotCopy].fit = {}
    BY <2>2 DEF NoCopy
  <2>. QED  BY <1>5, <2>1, <2>3 DEF PilotInv
<1>. QED  BY <1>6, <1>7, <1>8, <1>9 DEF StudyIInv

LEMMA StartAgainKeeps ==
  ASSUME StudyIInv, StartAgain
  PROVE  StudyIInv'
<1>0. StudyTypes /\ ScriptInv /\ StudyInv /\ PilotInv /\ ResultInv
  BY DEF StudyIInv
<1>1. /\ script' = Scripts[study] /\ outcome' = "running" /\ raising' = FALSE
      /\ inside' = FALSE /\ left' = left \union hosts /\ hosts' = {} /\ rows' = {}
      /\ copies' = [via \in DOMAIN copies |-> NoCopy] /\ dirs' = {} /\ retained' = {}
      /\ records' = <<>> /\ selected' = {}
      /\ study' = study /\ output' = output /\ result' = result
  BY DEF StartAgain
<1>2. copies' = [via \in Strategies \union {PilotCopy} |-> NoCopy]
  BY <1>0, <1>1 DEF StudyTypes
<1>3. Fresh'
  BY <1>0, <1>1, <1>2 DEF Fresh, Untouched, Whole, StudyTypes, NoCopy
<1>4. OutputHolds'
  BY <1>0, <1>1 DEF StudyInv, StudyOutput, OutputHolds
<1>5. ResultInv'
  BY <1>0, <1>1 DEF ResultInv
<1>. QED  BY <1>3, <1>4, <1>5, FreshHolds, PTL

LEMMA StudyStart ==
  ASSUME StudyInit
  PROVE  StudyIInv
<1>1. Fresh
  BY DEF StudyInit, Fresh, Untouched, Whole
<1>2. OutputHolds
  BY DEF StudyInit, StudyOutput, OutputHolds
<1>3. ResultInv
  BY DEF StudyInit, ResultInv
<1>. QED  BY <1>1, <1>2, <1>3, FreshHolds

-----------------------------------------------------------------------------
(* The theorems.                                                           *)

LEMMA StudyStep ==
  ASSUME StudyIInv, [StudyNext]_studyVars
  PROVE  StudyIInv'
<1>1. CASE UNCHANGED studyVars
  <2>1. /\ study' = study /\ script' = script /\ outcome' = outcome /\ raising' = raising
        /\ inside' = inside /\ hosts' = hosts /\ left' = left /\ output' = output
        /\ result' = result
    BY <1>1 DEF studyVars
  <2>2. /\ rows' = rows /\ copies' = copies /\ dirs' = dirs /\ retained' = retained
        /\ records' = records /\ selected' = selected
    BY <1>1 DEF studyVars, places, findings
  <2>3. StudyTypes /\ ScriptInv /\ StudyInv /\ PilotInv /\ ResultInv
    BY DEF StudyIInv
  <2>4. StudyTypes' /\ ResultInv'
    BY <2>1, <2>2, <2>3 DEF StudyTypes, ResultInv
  <2>5. Whole' = Whole /\ Place' = Place /\ Stopped' = Stopped /\ Untouched' = Untouched
    BY <2>1, <2>2 DEF Whole, Place, Stopped, Untouched
  <2>6. ScriptInv'
    BY <2>1, <2>3, <2>5 DEF ScriptInv, OnScript
  <2>7. StudyInv' /\ PilotInv'
    <3>1. CASE OnScript
      BY <2>1, <2>2, <2>3, <3>1, SamePlace
    <3>2. CASE ~ OnScript
      <4>1. ~ OnScript'
        BY <2>1, <3>2 DEF OnScript
      <4>. QED  BY <2>1, <2>2, <2>3, <4>1, OffScript
    <3>. QED  BY <3>1, <3>2
  <2>. QED  BY <2>4, <2>6, <2>7 DEF StudyIInv
<1>2. CASE RefuseExistingOutput \/ MakeOutput \/ StartService \/ Entered \/ StopServices
  BY <1>2, RefuseKeeps, OutputKeeps, StartKeeps, EnteredKeeps, StopKeeps
<1>3. CASE LoadSource \/ MakeTrialDirectory \/ SetupDerivatives \/ DeleteSource \/ ReadRetained
  BY <1>3, LoadKeeps, DirectoryKeeps, SetupKeeps, DeleteKeeps, RetainedKeeps
<1>4. CASE TargetedRemediation \/ RebuildRemediation \/ AuditStrategy \/ ClearCopies
  BY <1>4, TargetedKeeps, RebuildKeeps, AuditKeeps, ClearKeeps
<1>5. CASE PlannerFromCalibration \/ WriteResult
  BY <1>5, PlannerKeeps, WriteKeeps
<1>6. CASE Populate \/ Dump \/ DeleteDerived \/ UnlinkDump \/ AuditGraph
  BY <1>6, PopulateKeeps, DumpKeeps, DerivedKeeps, UnlinkKeeps, AuditGraphKeeps
<1>7. CASE Raise \/ Return \/ KillStudy \/ StartAgain
  BY <1>7, RaiseKeeps, ReturnKeeps, KillKeeps, StartAgainKeeps
<1>8. CASE StudyEnded
  BY <1>1, <1>8 DEF StudyEnded
<1>. QED  BY <1>1, <1>2, <1>3, <1>4, <1>5, <1>6, <1>7, <1>8 DEF StudyNext

\* The invariant the two properties rest on holds in every state.
LEMMA StudyIInvHolds == StudySpec => []StudyIInv
<1>1. StudyInit => StudyIInv
  BY StudyStart
<1>2. StudyIInv /\ [StudyNext]_studyVars => StudyIInv'
  BY StudyStep
<1>. QED  BY <1>1, <1>2, PTL DEF StudySpec

\* A process that is done has made its whole script.
LEMMA DonePlace ==
  ASSUME StudyIInv, outcome = "done"
  PROVE  /\ OnScript /\ Place = Len(Whole) /\ Len(Whole) \in Nat /\ Len(Whole) >= 6
         /\ study \in Studies
<1>1. study \in Studies /\ script = <<>> /\ OnScript
  BY DEF StudyIInv, StudyTypes, ScriptInv, OnScript
<1>2. Len(Whole) \in Nat /\ Len(Whole) >= 6
  BY <1>1, WholeFacts
<1>3. Len(script) = 0
  BY <1>1, EmptySeq
<1>4. Place = Len(Whole)
  BY <1>2, <1>3 DEF Place
<1>. QED  BY <1>1, <1>2, <1>4

LEMMA ScriptEnd ==
  ASSUME StudyIInv, outcome = "done"
  PROVE  /\ study.program = "study" => Stopped /\ left = {} /\ AuditsInv
         /\ study.program # "study" => Stopped /\ Place = 12
<1>1. OnScript /\ Place = Len(Whole) /\ Len(Whole) \in Nat /\ Len(Whole) >= 6 /\ study \in Studies
  BY DonePlace
<1>2. CASE study.program = "study"
  <2>1. Place >= 6 /\ Place >= 1 /\ (Place + 1)..Len(Whole) = {}
    BY <1>1
  <2>2. /\ Place >= 6 => inside \/ Stopped
        /\ Place >= 1 => left = {}
        /\ inside => \E q \in (Place + 1)..Len(Whole) : Whole[q].do = "stop"
        /\ AuditsInv
    BY <1>1, <1>2 DEF StudyIInv, StudyInv, StudyPlace
  <2>. QED  BY <1>2, <2>1, <2>2
<1>3. CASE study.program # "study"
  <2>1. Len(Whole) = 12
    BY <1>1, <1>3, WholeFacts
  <2>2. Place = 12 /\ Place \in 11..12
    BY <1>1, <2>1
  <2>3. Stopped
    BY <1>1, <1>3, <2>2 DEF StudyIInv, PilotInv, PilotPlace
  <2>. QED  BY <1>3, <2>2, <2>3
<1>. QED  BY <1>2, <1>3

LEMMA CleansUp ==
  ASSUME StudyIInv
  PROVE  StudyCleansUp
<1>1. ASSUME outcome = "done" PROVE Stopped /\ (study.program = "study" => left = {})
  BY <1>1, ScriptEnd
<1>2. ASSUME outcome = "raised"
      PROVE  Stopped \/ Untouched \/ (study.program = "pilot" /\ inside)
  BY <1>2 DEF StudyIInv, ScriptInv
<1>. QED  BY <1>1, <1>2 DEF StudyCleansUp, Stopped, Untouched

LEMMA RecordsAreReal ==
  ASSUME StudyIInv, NEW i \in DOMAIN records, records[i].verdict = "COMPLETE"
  PROVE  records[i].target \notin records[i].stores.vector \union records[i].stores.cache
                                    \union records[i].stores.key \union records[i].stores.fit
<1>. DEFINE r == records[i]
<1>1. CASE study.program = "study"
  <2>1. StudyRecord(r)
    BY <1>1 DEF StudyIInv, StudyInv
  <2>. HIDE DEF r
  <2>2. r.stores = OthersOf(r.target)
    BY <2>1 DEF StudyRecord
  <2>3. LET s == r.stores
            x == People \ {r.target}
        IN  s.vector = x /\ s.cache = x /\ s.key = x /\ s.fit = x
    BY <2>2 DEF OthersOf
  <2>4. r.target \notin r.stores.vector \union r.stores.cache \union r.stores.key \union r.stores.fit
    BY <2>3
  <2>. QED  BY <2>4 DEF r
<1>2. CASE study.program # "study"
  <2>1. PilotRecord(r)
    BY <1>2 DEF StudyIInv, PilotInv
  <2>. QED  BY <2>1 DEF PilotRecord
<1>. QED  BY <1>1, <1>2

LEMMA PassIsOfEveryTrial ==
  ASSUME StudyIInv, outcome = "done", result # <<>>, result[1] = "PASS",
         NEW i \in DOMAIN study.holdout, NEW via \in Strategies
  PROVE  \E j \in DOMAIN records :
           /\ records[j].seed = study.holdout[i] /\ records[j].via = via
           /\ records[j].stores = OthersOf(Target(study.holdout[i]))
<1>1. study.program = "study" /\ ~ study.only
  <2>1. \/ result = <<"measured">>
        \/ study.program = "study" /\ ~ study.only
    BY DEF StudyIInv, ResultInv
  <2>2. result # <<"measured">>
    <3>1. <<"measured">>[1] = "measured"
      OBVIOUS
    <3>. QED  BY <3>1
  <2>. QED  BY <2>1, <2>2
<1>2. Place = Len(Whole) /\ AuditsInv /\ study \in Studies
  BY <1>1, DonePlace, ScriptEnd
<1>3. Audits(Whole, study.holdout[i])
  BY <1>1, <1>2, StudyScriptFacts DEF Whole
<1>4. PICK q \in 1..Len(Whole) :
        Whole[q].do = "audit" /\ Whole[q].seed = study.holdout[i] /\ Whole[q].via = via
  BY <1>3 DEF Audits
<1>5. PICK j \in DOMAIN records :
        records[j].seed = study.holdout[i] /\ records[j].via = via
  BY <1>2, <1>4 DEF AuditsInv
<1>6. StudyRecord(records[j])
  BY <1>1 DEF StudyIInv, StudyInv
<1>7. records[j].stores = OthersOf(Target(study.holdout[i]))
  BY <1>5, <1>6 DEF StudyRecord
<1>. QED  BY <1>5, <1>7

LEMMA ErasureIsReal ==
  ASSUME StudyIInv
  PROVE  MeasuredErasureIsReal
<1>1. \A i \in DOMAIN records :
        LET r == records[i]
        IN  r.verdict = "COMPLETE" =>
              r.target \notin r.stores.vector \union r.stores.cache \union r.stores.key
                               \union r.stores.fit
  BY RecordsAreReal
<1>2. outcome = "done" /\ result # <<>> /\ result[1] = "PASS" =>
        \A i \in DOMAIN study.holdout : \A via \in Strategies :
          LET others == People \ {Target(study.holdout[i])}
          IN  \E j \in DOMAIN records :
                /\ records[j].seed = study.holdout[i] /\ records[j].via = via
                /\ records[j].stores = [vector |-> others, cache |-> others, key |-> others,
                                        fit |-> others]
  BY PassIsOfEveryTrial DEF OthersOf
<1>3. outcome = "done" /\ result # <<>> /\ result[1] = "FAIL" =>
        ~ (result[2].faster /\ result[2].smaller)
  <2>1. <<"measured">>[1] = "measured"
    OBVIOUS
  <2>. QED  BY <2>1 DEF StudyIInv, ResultInv
<1>4. selected \in {{}, Components, {"rebuild-all"}}
  BY DEF StudyIInv, ResultInv
<1>5. outcome = "done" /\ study.program = "pilot" =>
        [i \in DOMAIN records |-> records[i].verdict] = <<"INCOMPLETE", "COMPLETE">>
  <2>. SUFFICES ASSUME outcome = "done", study.program = "pilot"
                PROVE  [i \in DOMAIN records |-> records[i].verdict] = <<"INCOMPLETE", "COMPLETE">>
    OBVIOUS
  <2>1. Place = 12 /\ OnScript /\ study.program # "study"
    BY ScriptEnd, DonePlace
  <2>2. Place \in 7..12 /\ Place \in 10..12
    BY <2>1
  <2>3. /\ records[1].verdict = "INCOMPLETE" /\ Len(records) = 2
        /\ records[2].verdict = "COMPLETE"
    BY <2>1, <2>2 DEF StudyIInv, PilotInv, PilotPlace
  <2>4. records \in Seq(AuditRecords)
    BY DEF StudyIInv, StudyTypes
  <2>5. DOMAIN records = 1..2
    BY <2>3, <2>4
  <2>. QED  BY <2>3, <2>5
<1>. QED  BY <1>1, <1>2, <1>3, <1>4, <1>5 DEF MeasuredErasureIsReal

\* A verdict of the measured study is true of the stores that were audited, a
\* study that passes has kept everybody else in every holdout trial, and the
\* planner never mixes the strategies, whatever the people, the seeds and the
\* measured times are.
THEOREM ErasureIsMeasured == StudySpec => []MeasuredErasureIsReal
<1>1. StudyIInv => MeasuredErasureIsReal
  BY ErasureIsReal
<1>. QED  BY <1>1, StudyIInvHolds, PTL

\* A process that ends by itself has stopped its services, but for the container
\* whose removal nobody checks, a failed start and a pilot that could not stop
\* its cluster; no study is done while services of an earlier one are up.
THEOREM StudiesCleanUp == StudySpec => []StudyCleansUp
<1>1. StudyIInv => StudyCleansUp
  BY CleansUp
<1>. QED  BY <1>1, StudyIInvHolds, PTL
=============================================================================
