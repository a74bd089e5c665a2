------------------------ MODULE MultiCarrierLab_proofs ------------------------
(***************************************************************************)
(* Proofs about the trials on the stores, for any subjects, any trials and *)
(* any number of kills.                                                    *)
(***************************************************************************)
EXTENDS MultiCarrierLab, DataInduction

-----------------------------------------------------------------------------
(* The operations of a trial.                                              *)

Verbs == {"put", "drop", "write", "drop unused key", "rebuild", "read controls", "run",
          "look", "install", "destroy key", "audit", "refuse existing", "create", "issue",
          "verify", "conclude"}
Names == Online \union AllCarriers \union TransitionIds
           \union {"cipher", "key", "controls", "tombstone", "all"}
Derivatives == {"vector-index", "cache", "model"}
\* The names that the operations of a verb can have.
NamesOf(verb) ==
  CASE verb = "run" -> Reactivations
    [] verb = "rebuild" -> Derivatives
    [] verb = "write" -> LatentFiles
    [] OTHER -> Names
Operation ==
  { op \in [do : Verbs, what : Names, who : SubjectIds] : op.what \in NamesOf(op.do) }

Readers == {"run", "look", "audit", "issue"}
NoPut == Verbs \ {"put"}
\* The verbs of the operations that set a trial up.
Writing == {"put", "write", "drop unused key", "drop", "refuse existing", "create"}
\* The verbs of an enrollment.
Enrolling == {"put", "refuse existing", "create"}

PutOf(what, s) == [do |-> "put", what |-> what, who |-> s]

\* Everything in q is done by one of the verbs.
Uses(q, verbs) == \A i \in 1..Len(q) : q[i].do \in verbs

\* A ciphertext is followed by its key.
KeysFollow(q) ==
  \A i \in 1..Len(q) : q[i].do = "put" /\ q[i].what = "cipher" =>
    \E j \in 1..Len(q) : i < j /\ q[j] = PutOf("key", q[i].who)

\* The data is put before it is read.
PutsFirst(q) ==
  \A i, j \in 1..Len(q) : i < j => ~ (q[i].do \in Readers /\ q[j].do = "put")

LEMMA SubjectFacts ==
  /\ Len(Subjects) \in Nat /\ Deletions \in Nat /\ 1 <= Deletions /\ Deletions < Len(Subjects)
  /\ \A i \in 1..Len(Subjects) : Subjects[i] \in SubjectIds
  /\ One \in SubjectIds
BY SubjectsAssumption DEF SubjectIds, One

LEMMA NamesFacts ==
  /\ NamesOf("run") = Reactivations /\ NamesOf("rebuild") = Derivatives
  /\ NamesOf("write") = LatentFiles
  /\ NamesOf("put") = Names /\ NamesOf("drop") = Names /\ NamesOf("install") = Names
  /\ \A verb \in Verbs \ {"run", "rebuild", "write"} : NamesOf(verb) = Names
  /\ \A verb \in Verbs : NamesOf(verb) \subseteq Names
<1>1. Reactivations \subseteq Names /\ Derivatives \subseteq Names /\ LatentFiles \subseteq Names
  BY DEF Names, Reactivations, TransitionIds, Derivatives, LatentFiles, Online, BackupRestore,
     CheckpointRedeploy, LegacyImport, QueueReplay
<1>. QED  BY <1>1 DEF NamesOf

\* One operation for each name.
LEMMA EachFacts ==
  ASSUME NEW verb \in Verbs, NEW names \in Seq(NamesOf(verb)),
         NEW who \in SubjectIds
  PROVE  /\ Each(verb, names, who) \in Seq(Operation)
         /\ Len(Each(verb, names, who)) = Len(names)
         /\ \A i \in 1..Len(names) :
              Each(verb, names, who)[i] = [do |-> verb, what |-> names[i], who |-> who]
<1>1. /\ Len(names) \in Nat /\ DOMAIN names = 1..Len(names)
      /\ \A i \in 1..Len(names) : names[i] \in NamesOf(verb)
  OBVIOUS
<1>2. Each(verb, names, who) =
        [i \in 1..Len(names) |-> [do |-> verb, what |-> names[i], who |-> who]]
  BY <1>1 DEF Each
<1>3. \A i \in 1..Len(names) : [do |-> verb, what |-> names[i], who |-> who] \in Operation
  BY <1>1, NamesFacts DEF Operation
<1>. HIDE DEF Each
<1>. QED  BY <1>1, <1>2, <1>3

LEMMA OnceFacts ==
  ASSUME NEW verb \in Verbs \ {"run", "rebuild", "write"}, NEW who \in SubjectIds
  PROVE  /\ Once(verb, who) \in Seq(Operation)
         /\ Len(Once(verb, who)) = 1
         /\ Once(verb, who)[1] = [do |-> verb, what |-> "all", who |-> who]
<1>. DEFINE names == <<"all">>
<1>1. names \in Seq(NamesOf(verb)) /\ Len(names) = 1 /\ names[1] = "all"
  <2>1. "all" \in NamesOf(verb)
    BY NamesFacts DEF Names
  <2>. QED  BY <2>1
<1>. HIDE DEF names
<1>2. Once(verb, who) = Each(verb, names, who)
  BY DEF Once, names
<1>3. /\ Each(verb, names, who) \in Seq(Operation) /\ Len(Each(verb, names, who)) = 1
      /\ Each(verb, names, who)[1] = [do |-> verb, what |-> "all", who |-> who]
  BY <1>1, EachFacts
<1>. QED  BY <1>2, <1>3

\* One sequence of operations after another.
LEMMA JoinFacts ==
  ASSUME NEW p \in Seq(Operation), NEW q \in Seq(Operation)
  PROVE  /\ p \o q \in Seq(Operation)
         /\ Len(p) \in Nat /\ Len(q) \in Nat /\ Len(p \o q) = Len(p) + Len(q)
         /\ \A i \in 1..Len(p) : (p \o q)[i] = p[i]
         /\ \A i \in 1..Len(q) : (p \o q)[Len(p) + i] = q[i]
         /\ \A i \in 1..Len(p \o q) :
              \/ i \in 1..Len(p) /\ (p \o q)[i] = p[i]
              \/ i - Len(p) \in 1..Len(q) /\ (p \o q)[i] = q[i - Len(p)]
OBVIOUS

LEMMA JoinUses ==
  ASSUME NEW p \in Seq(Operation), NEW q \in Seq(Operation), NEW verbs,
         Uses(p, verbs), Uses(q, verbs)
  PROVE  p \o q \in Seq(Operation) /\ Uses(p \o q, verbs)
<1>. DEFINE r == p \o q
<1>1. \A i \in 1..Len(r) :
        \/ i \in 1..Len(p) /\ r[i] = p[i]
        \/ i - Len(p) \in 1..Len(q) /\ r[i] = q[i - Len(p)]
  BY JoinFacts
<1>2. r \in Seq(Operation)
  BY JoinFacts
<1>. HIDE DEF r
<1>3. Uses(r, verbs)
  BY <1>1 DEF Uses
<1>. QED  BY <1>2, <1>3 DEF r

LEMMA JoinKeysFollow ==
  ASSUME NEW p \in Seq(Operation), NEW q \in Seq(Operation), KeysFollow(p), KeysFollow(q)
  PROVE  KeysFollow(p \o q)
<1>. DEFINE r == p \o q
<1>1. /\ Len(p) \in Nat /\ Len(q) \in Nat /\ Len(r) = Len(p) + Len(q)
      /\ \A i \in 1..Len(p) : r[i] = p[i]
      /\ \A i \in 1..Len(q) : r[Len(p) + i] = q[i]
      /\ \A i \in 1..Len(r) : \/ i \in 1..Len(p) /\ r[i] = p[i]
                              \/ i - Len(p) \in 1..Len(q) /\ r[i] = q[i - Len(p)]
  BY JoinFacts
<1>. HIDE DEF r
<1>2. ASSUME NEW i \in 1..Len(r), r[i].do = "put", r[i].what = "cipher"
      PROVE  \E j \in 1..Len(r) : i < j /\ r[j] = PutOf("key", r[i].who)
  <2>1. CASE i \in 1..Len(p) /\ r[i] = p[i]
    <3>1. PICK j \in 1..Len(p) : i < j /\ p[j] = PutOf("key", p[i].who)
      BY <1>2, <2>1 DEF KeysFollow
    <3>. QED  BY <1>1, <2>1, <3>1
  <2>2. CASE i - Len(p) \in 1..Len(q) /\ r[i] = q[i - Len(p)]
    <3>1. PICK j \in 1..Len(q) : i - Len(p) < j /\ q[j] = PutOf("key", q[i - Len(p)].who)
      BY <1>2, <2>2 DEF KeysFollow
    <3>2. Len(p) + j \in 1..Len(r) /\ i < Len(p) + j /\ r[Len(p) + j] = q[j]
      BY <1>1, <2>2, <3>1
    <3>. QED  BY <2>2, <3>1, <3>2
  <2>. QED  BY <1>1, <2>1, <2>2
<1>. QED  BY <1>2 DEF KeysFollow, r

LEMMA PutsStayFirst ==
  ASSUME NEW p \in Seq(Operation), NEW q \in Seq(Operation), PutsFirst(p),
         NEW verbs, Uses(q, verbs), "put" \notin verbs
  PROVE  PutsFirst(p \o q)
<1>. DEFINE r == p \o q
<1>1. /\ Len(p) \in Nat /\ Len(q) \in Nat /\ Len(r) = Len(p) + Len(q)
      /\ \A i \in 1..Len(r) : \/ i \in 1..Len(p) /\ r[i] = p[i]
                              \/ i - Len(p) \in 1..Len(q) /\ r[i] = q[i - Len(p)]
  BY JoinFacts
<1>. HIDE DEF r
<1>2. ASSUME NEW i \in 1..Len(r), NEW j \in 1..Len(r), i < j
      PROVE  ~ (r[i].do \in Readers /\ r[j].do = "put")
  <2>1. CASE j \in 1..Len(p) /\ r[j] = p[j]
    <3>1. i \in 1..Len(p)
      BY <1>1, <1>2, <2>1
    <3>2. r[i] = p[i]
      BY <1>1, <3>1
    <3>. QED  BY <1>2, <2>1, <3>1, <3>2 DEF PutsFirst
  <2>2. CASE j - Len(p) \in 1..Len(q) /\ r[j] = q[j - Len(p)]
    BY <2>2 DEF Uses
  <2>. QED  BY <1>1, <2>1, <2>2
<1>. QED  BY <1>2 DEF PutsFirst, r

LEMMA JoinPutsFirst ==
  ASSUME NEW p \in Seq(Operation), NEW q \in Seq(Operation),
         NEW writers, writers \intersect Readers = {}, Uses(p, writers),
         NEW verbs, Uses(q, verbs), "put" \notin verbs
  PROVE  PutsFirst(p \o q)
<1>1. PutsFirst(p)
  BY DEF Uses, PutsFirst
<1>. QED  BY <1>1, PutsStayFirst

\* What a sequence of one verb uses.
LEMMA EachUses ==
  ASSUME NEW verb \in Verbs, NEW names \in Seq(NamesOf(verb)), NEW who \in SubjectIds,
         NEW verbs, verb \in verbs
  PROVE  Each(verb, names, who) \in Seq(Operation) /\ Uses(Each(verb, names, who), verbs)
<1>. DEFINE q == Each(verb, names, who)
<1>1. /\ q \in Seq(Operation) /\ Len(q) = Len(names)
      /\ \A i \in 1..Len(names) : q[i] = [do |-> verb, what |-> names[i], who |-> who]
  BY EachFacts
<1>. HIDE DEF q
<1>2. ASSUME NEW i \in 1..Len(names) PROVE q[i].do = verb
  <2>1. q[i] = [do |-> verb, what |-> names[i], who |-> who]
    BY <1>1
  <2>. QED  BY <2>1
<1>3. Uses(q, verbs)
  BY <1>1, <1>2 DEF Uses
<1>. QED  BY <1>1, <1>3 DEF q

LEMMA OnceUses ==
  ASSUME NEW verb \in Verbs \ {"run", "rebuild", "write"}, NEW who \in SubjectIds, NEW verbs, verb \in verbs
  PROVE  Once(verb, who) \in Seq(Operation) /\ Uses(Once(verb, who), verbs)
<1>1. <<"all">> \in Seq(NamesOf(verb))
  <2>1. "all" \in NamesOf(verb)
    BY NamesFacts DEF Names
  <2>. QED  BY <2>1
<1>2. Each(verb, <<"all">>, who) \in Seq(Operation) /\ Uses(Each(verb, <<"all">>, who), verbs)
  BY <1>1, EachUses
<1>. QED  BY <1>2 DEF Once

\* More verbs are used, too.
LEMMA UsesMore ==
  ASSUME NEW q, NEW verbs, NEW more, Uses(q, verbs), verbs \subseteq more
  PROVE  Uses(q, more)
BY DEF Uses

\* A sequence without puts needs no key.
LEMMA NoPuts ==
  ASSUME NEW q, NEW verbs, Uses(q, verbs), "put" \notin verbs
  PROVE  KeysFollow(q) /\ PutsFirst(q)
BY DEF Uses, KeysFollow, PutsFirst

LEMMA VerbFacts ==
  /\ NoPut \subseteq Verbs /\ Writing \subseteq Verbs /\ Enrolling \subseteq Writing
  /\ "put" \notin NoPut /\ Writing \intersect Readers = {}
BY DEF NoPut, Verbs, Writing, Readers, Enrolling

LEMMA EnrollFacts ==
  ASSUME NEW s \in SubjectIds
  PROVE  /\ Enroll(s) \in Seq(Operation) /\ Len(Enroll(s)) = 6
         /\ Uses(Enroll(s), Writing) /\ Uses(Enroll(s), Enrolling)
         /\ Enroll(s)[1] = PutOf("postgres", s) /\ Enroll(s)[2] = PutOf("vector-index", s)
         /\ Enroll(s)[3] = PutOf("cache", s) /\ Enroll(s)[4] = PutOf("cipher", s)
         /\ Enroll(s)[5] = PutOf("key", s) /\ Enroll(s)[6] = PutOf("model", s)
         /\ KeysFollow(Enroll(s))
<1>. DEFINE names == <<"postgres", "vector-index", "cache", "cipher", "key", "model">>
            q == Each("put", names, s)
<1>1. names \in Seq(NamesOf("put")) /\ Len(names) = 6
  <2>1. \A n \in Online \union {"cipher", "key"} : n \in NamesOf("put")
    BY NamesFacts DEF Names
  <2>. QED  BY <2>1 DEF Online
<1>2. "put" \in Verbs /\ "put" \in Writing /\ "put" \in Enrolling
  BY DEF Verbs, Writing, Enrolling
<1>. HIDE DEF q
<1>3. q \in Seq(Operation) /\ Uses(q, Writing) /\ Uses(q, Enrolling) /\ Len(q) = 6
  <2>. HIDE DEF names
  <2>. QED  BY <1>1, <1>2, EachUses, EachFacts DEF q
<1>4. \A i \in 1..6 : q[i] = PutOf(names[i], s)
  <2>. HIDE DEF names
  <2>. QED  BY <1>1, <1>2, EachFacts DEF q, PutOf
<1>5. /\ q[1] = PutOf("postgres", s) /\ q[2] = PutOf("vector-index", s)
      /\ q[3] = PutOf("cache", s) /\ q[4] = PutOf("cipher", s)
      /\ q[5] = PutOf("key", s) /\ q[6] = PutOf("model", s)
  BY <1>4
<1>6. KeysFollow(q)
  <2>1. ASSUME NEW i \in 1..Len(q), q[i].do = "put", q[i].what = "cipher"
        PROVE  \E j \in 1..Len(q) : i < j /\ q[j] = PutOf("key", q[i].who)
    <3>1. i \in 1..6 /\ q[i] = PutOf(names[i], s)
      BY <1>3, <1>4, <2>1
    <3>2. i = 4
      BY <2>1, <3>1 DEF PutOf
    <3>3. q[i].who = s /\ 5 \in 1..Len(q) /\ i < 5
      BY <1>3, <3>1, <3>2 DEF PutOf
    <3>. QED  BY <1>5, <3>3
  <2>. QED  BY <2>1 DEF KeysFollow
<1>7. Enroll(s) = q
  BY DEF Enroll, q
<1>. HIDE DEF names
<1>. QED  BY <1>3, <1>5, <1>6, <1>7

\* The parts of the trials and the verbs they use.
LEMMA Parts ==
  ASSUME NEW s \in SubjectIds
  PROVE  /\ DropOnline(s) \in Seq(Operation) /\ Uses(DropOnline(s), {"drop"})
         /\ Rebuilds(s) \in Seq(Operation) /\ Uses(Rebuilds(s), {"rebuild"})
         /\ Install(s) \in Seq(Operation) /\ Uses(Install(s), {"install"})
         /\ Audit(s) \in Seq(Operation) /\ Uses(Audit(s), {"audit"})
         /\ WriteCarriers(s) \in Seq(Operation)
         /\ Uses(WriteCarriers(s), {"write", "drop unused key"})
         /\ Remediate(s) \in Seq(Operation) /\ Uses(Remediate(s), {"drop", "destroy key"})
         /\ Replay(s) \in Seq(Operation)
         /\ Uses(Replay(s), {"read controls", "run", "rebuild", "look"})
         /\ Deletion(s) \in Seq(Operation)
         /\ Uses(Deletion(s), {"drop", "destroy key", "audit", "issue", "verify"})
<1>1. /\ <<"postgres", "vector-index", "cache", "model">> \in Seq(NamesOf("drop"))
      /\ <<"vector-index", "cache">> \in Seq(NamesOf("drop"))
      /\ <<"model">> \in Seq(NamesOf("drop")) /\ <<"postgres">> \in Seq(NamesOf("drop"))
  <2>1. \A n \in Online : n \in NamesOf("drop")
    BY NamesFacts DEF Names
  <2>. QED  BY <2>1 DEF Online
<1>2. <<"vector-index", "cache", "model">> \in Seq(NamesOf("rebuild"))
  BY NamesFacts DEF Derivatives
<1>3. <<"controls", "tombstone", "key", "carrier-export", "carrier-queue", "carrier-checkpoint">>
        \in Seq(NamesOf("install"))
  <2>1. \A n \in AllCarriers \union {"controls", "tombstone", "key"} : n \in NamesOf("install")
    BY NamesFacts DEF Names
  <2>. QED  BY <2>1 DEF AllCarriers
<1>4. <<"carrier-export", "carrier-queue", "carrier-checkpoint">> \in Seq(NamesOf("write"))
  BY NamesFacts DEF LatentFiles, AllCarriers
<1>6. <<BackupRestore, LegacyImport, QueueReplay, CheckpointRedeploy>> \in Seq(NamesOf("run"))
  BY NamesFacts DEF Reactivations
<1>7. \A v \in {"put", "drop", "write", "drop unused key", "rebuild", "read controls", "run",
                "look", "install", "destroy key", "audit", "issue", "verify"} :
        v \in Verbs /\ (v \notin {"run", "rebuild", "write"} => v \in Verbs \ {"run", "rebuild", "write"})
  BY DEF Verbs
<1>8. DropOnline(s) \in Seq(Operation) /\ Uses(DropOnline(s), {"drop"})
  BY <1>1, <1>7, EachUses DEF DropOnline
<1>9. Rebuilds(s) \in Seq(Operation) /\ Uses(Rebuilds(s), {"rebuild"})
  BY <1>2, <1>7, EachUses DEF Rebuilds
<1>10. Install(s) \in Seq(Operation) /\ Uses(Install(s), {"install"})
  BY <1>3, <1>7, EachUses DEF Install
<1>11. Audit(s) \in Seq(Operation) /\ Uses(Audit(s), {"audit"})
  BY <1>7, OnceUses DEF Audit
<1>12. WriteCarriers(s) \in Seq(Operation) /\ Uses(WriteCarriers(s), {"write", "drop unused key"})
  <2>. DEFINE verbs == {"write", "drop unused key"}
              a == Each("write", <<"carrier-export", "carrier-queue", "carrier-checkpoint">>, s)
              b == Once("drop unused key", s)
  <2>1. "write" \in verbs /\ "drop unused key" \in verbs
    OBVIOUS
  <2>. HIDE DEF verbs
  <2>2. a \in Seq(Operation) /\ Uses(a, verbs)
    BY <1>4, <1>7, <2>1, EachUses
  <2>3. b \in Seq(Operation) /\ Uses(b, verbs)
    BY <1>7, <2>1, OnceUses
  <2>. HIDE DEF a, b
  <2>4. a \o b \in Seq(Operation) /\ Uses(a \o b, verbs)
    BY <2>2, <2>3, JoinUses
  <2>. QED  BY <2>4 DEF a, b, verbs, WriteCarriers
<1>13. Remediate(s) \in Seq(Operation) /\ Uses(Remediate(s), {"drop", "destroy key"})
  <2>. DEFINE verbs == {"drop", "destroy key"}
              a == Each("drop", <<"vector-index", "cache">>, s)
              b == Once("destroy key", s)
              c == Each("drop", <<"model">>, s)
  <2>1. "drop" \in verbs /\ "destroy key" \in verbs
    OBVIOUS
  <2>. HIDE DEF verbs
  <2>2. /\ a \in Seq(Operation) /\ Uses(a, verbs)
        /\ c \in Seq(Operation) /\ Uses(c, verbs)
    BY <1>1, <1>7, <2>1, EachUses
  <2>3. b \in Seq(Operation) /\ Uses(b, verbs)
    BY <1>7, <2>1, OnceUses
  <2>. HIDE DEF a, b, c
  <2>4. a \o b \in Seq(Operation) /\ Uses(a \o b, verbs)
    BY <2>2, <2>3, JoinUses
  <2>5. a \o b \o c \in Seq(Operation) /\ Uses(a \o b \o c, verbs)
    BY <2>2, <2>4, JoinUses
  <2>. QED  BY <2>5 DEF a, b, c, verbs, Remediate
<1>14. Replay(s) \in Seq(Operation) /\ Uses(Replay(s), {"read controls", "run", "rebuild", "look"})
  <2>. DEFINE verbs == {"read controls", "run", "rebuild", "look"}
              a == Once("read controls", s)
              b == Each("run", <<BackupRestore, LegacyImport, QueueReplay, CheckpointRedeploy>>, s)
              c == Rebuilds(s)
              d == Once("look", s)
  <2>1. "read controls" \in verbs /\ "run" \in verbs /\ {"rebuild"} \subseteq verbs /\ "look" \in verbs
    OBVIOUS
  <2>. HIDE DEF verbs
  <2>2. /\ a \in Seq(Operation) /\ Uses(a, verbs)
        /\ d \in Seq(Operation) /\ Uses(d, verbs)
    BY <1>7, <2>1, OnceUses
  <2>3. b \in Seq(Operation) /\ Uses(b, verbs)
    BY <1>6, <1>7, <2>1, EachUses
  <2>4. c \in Seq(Operation) /\ Uses(c, verbs)
    BY <1>9, <2>1, UsesMore
  <2>. HIDE DEF a, b, c, d
  <2>5. a \o b \in Seq(Operation) /\ Uses(a \o b, verbs)
    BY <2>2, <2>3, JoinUses
  <2>6. a \o b \o c \in Seq(Operation) /\ Uses(a \o b \o c, verbs)
    BY <2>4, <2>5, JoinUses
  <2>7. a \o b \o c \o d \in Seq(Operation) /\ Uses(a \o b \o c \o d, verbs)
    BY <2>2, <2>6, JoinUses
  <2>. QED  BY <2>7 DEF a, b, c, d, verbs, Replay
<1>15. /\ Deletion(s) \in Seq(Operation)
       /\ Uses(Deletion(s), {"drop", "destroy key", "audit", "issue", "verify"})
  <2>. DEFINE verbs == {"drop", "destroy key", "audit", "issue", "verify"}
              a == Each("drop", <<"postgres">>, s)
              b == Audit(s)
              c == Remediate(s)
              d == Once("issue", s)
              e == Once("verify", s)
  <2>1. /\ "drop" \in verbs /\ {"audit"} \subseteq verbs /\ {"drop", "destroy key"} \subseteq verbs
        /\ "issue" \in verbs /\ "verify" \in verbs
    OBVIOUS
  <2>. HIDE DEF verbs
  <2>2. a \in Seq(Operation) /\ Uses(a, verbs)
    BY <1>1, <1>7, <2>1, EachUses
  <2>3. /\ b \in Seq(Operation) /\ Uses(b, verbs)
        /\ c \in Seq(Operation) /\ Uses(c, verbs)
    BY <1>11, <1>13, <2>1, UsesMore
  <2>4. /\ d \in Seq(Operation) /\ Uses(d, verbs)
        /\ e \in Seq(Operation) /\ Uses(e, verbs)
    BY <1>7, <2>1, OnceUses
  <2>. HIDE DEF a, b, c, d, e
  <2>5. a \o b \in Seq(Operation) /\ Uses(a \o b, verbs)
    BY <2>2, <2>3, JoinUses
  <2>6. a \o b \o c \in Seq(Operation) /\ Uses(a \o b \o c, verbs)
    BY <2>3, <2>5, JoinUses
  <2>7. a \o b \o c \o b \in Seq(Operation) /\ Uses(a \o b \o c \o b, verbs)
    BY <2>3, <2>6, JoinUses
  <2>8. a \o b \o c \o b \o d \in Seq(Operation) /\ Uses(a \o b \o c \o b \o d, verbs)
    BY <2>4, <2>7, JoinUses
  <2>9. a \o b \o c \o b \o d \o e \in Seq(Operation) /\ Uses(a \o b \o c \o b \o d \o e, verbs)
    BY <2>4, <2>8, JoinUses
  <2>. QED  BY <2>9 DEF a, b, c, d, e, verbs, Deletion
<1>. QED  BY <1>8, <1>9, <1>10, <1>11, <1>12, <1>13, <1>14, <1>15

\* The data is put before it is read, and a ciphertext before its key.
Begins(q) == q \in Seq(Operation) /\ KeysFollow(q) /\ PutsFirst(q)

LEMMA NoReads ==
  ASSUME NEW q, Uses(q, Writing)
  PROVE  PutsFirst(q)
BY VerbFacts DEF Uses, PutsFirst

\* The set-up of the output directory.
LEMMA CreateFacts == CreateOutput \in Seq(Operation) /\ Uses(CreateOutput, {"refuse existing", "create"})
<1>. DEFINE verbs == {"refuse existing", "create"}
            a == Once("refuse existing", One)
            b == Once("create", One)
<1>1. /\ "refuse existing" \in verbs /\ "create" \in verbs
      /\ "refuse existing" \in Verbs /\ "create" \in Verbs
  BY DEF Verbs
<1>. HIDE DEF verbs
<1>2. /\ a \in Seq(Operation) /\ Uses(a, verbs)
      /\ b \in Seq(Operation) /\ Uses(b, verbs)
  BY <1>1, SubjectFacts, OnceUses
<1>. HIDE DEF a, b
<1>3. a \o b \in Seq(Operation) /\ Uses(a \o b, verbs)
  BY <1>2, JoinUses
<1>. QED  BY <1>3 DEF a, b, verbs, CreateOutput

LEMMA ConstructBegins == Begins(Construct.does)
<1>. DEFINE a == Enroll(One)
            b == WriteCarriers(One)
            c == DropOnline(One)
<1>1. /\ {"write", "drop unused key"} \subseteq Writing /\ {"drop"} \subseteq Writing
      /\ "put" \notin {"write", "drop unused key"} /\ "put" \notin {"drop"}
  BY DEF Writing
<1>2. a \in Seq(Operation) /\ Uses(a, Writing) /\ KeysFollow(a)
  BY SubjectFacts, EnrollFacts
<1>3. b \in Seq(Operation) /\ Uses(b, Writing) /\ KeysFollow(b)
  <2>1. b \in Seq(Operation) /\ Uses(b, {"write", "drop unused key"})
    BY SubjectFacts, Parts
  <2>. QED  BY <1>1, <2>1, UsesMore, NoPuts
<1>4. c \in Seq(Operation) /\ Uses(c, Writing) /\ KeysFollow(c)
  <2>1. c \in Seq(Operation) /\ Uses(c, {"drop"})
    BY SubjectFacts, Parts
  <2>. QED  BY <1>1, <2>1, UsesMore, NoPuts
<1>. HIDE DEF a, b, c
<1>5. a \o b \in Seq(Operation) /\ Uses(a \o b, Writing) /\ KeysFollow(a \o b)
  BY <1>2, <1>3, JoinUses, JoinKeysFollow
<1>6. a \o b \o c \in Seq(Operation) /\ Uses(a \o b \o c, Writing) /\ KeysFollow(a \o b \o c)
  BY <1>4, <1>5, JoinUses, JoinKeysFollow
<1>7. Construct.does = a \o b \o c
  BY DEF Construct, Stage, a, b, c
<1>. QED  BY <1>6, <1>7, NoReads DEF Begins

\* The first stages of TemporalLabTrial and of RegisteredStorageTrial.
LEMMA SingleBegins == Begins(Enroll(One) \o DropOnline(One) \o Once("look", One))
<1>. DEFINE a == Enroll(One)
            b == DropOnline(One)
            c == Once("look", One)
            looks == {"look"}
<1>1. {"drop"} \subseteq Writing /\ "put" \notin {"drop"} /\ "put" \notin looks
      /\ "look" \in looks /\ "look" \in Verbs
  BY DEF Writing, Verbs
<1>2. a \in Seq(Operation) /\ Uses(a, Writing) /\ KeysFollow(a)
  BY SubjectFacts, EnrollFacts
<1>3. b \in Seq(Operation) /\ Uses(b, Writing) /\ KeysFollow(b)
  <2>1. b \in Seq(Operation) /\ Uses(b, {"drop"})
    BY SubjectFacts, Parts
  <2>. QED  BY <1>1, <2>1, UsesMore, NoPuts
<1>. HIDE DEF looks
<1>4. c \in Seq(Operation) /\ Uses(c, looks) /\ KeysFollow(c)
  BY <1>1, SubjectFacts, OnceUses, NoPuts
<1>. HIDE DEF a, b, c
<1>5. a \o b \in Seq(Operation) /\ Uses(a \o b, Writing) /\ KeysFollow(a \o b)
  BY <1>2, <1>3, JoinUses, JoinKeysFollow
<1>6. a \o b \o c \in Seq(Operation)
  BY <1>4, <1>5, JoinFacts
<1>7. KeysFollow(a \o b \o c)
  BY <1>4, <1>5, JoinKeysFollow
<1>8. PutsFirst(a \o b \o c)
  BY <1>1, <1>4, <1>5, VerbFacts, JoinPutsFirst
<1>9. Begins(a \o b \o c)
  BY <1>6, <1>7, <1>8 DEF Begins
<1>. QED  BY <1>9 DEF a, b, c

LEMMA StorageBegins ==
  Begins(CreateOutput \o Enroll(One) \o Each("drop", <<"postgres">>, One)
           \o Audit(One) \o Remediate(One) \o Audit(One))
<1>. DEFINE o == CreateOutput
            a == Enroll(One)
            b == Each("drop", <<"postgres">>, One)
            c == Audit(One)
            d == Remediate(One)
            verbs == {"drop", "destroy key", "audit"}
<1>1. /\ {"refuse existing", "create"} \subseteq Writing
      /\ "put" \notin {"refuse existing", "create"}
      /\ "put" \notin verbs /\ {"audit"} \subseteq verbs /\ {"drop", "destroy key"} \subseteq verbs
      /\ "drop" \in verbs /\ "drop" \in Verbs /\ <<"postgres">> \in Seq(NamesOf("drop"))
  <2>1. "postgres" \in NamesOf("drop")
    BY NamesFacts DEF Names, Online
  <2>. QED  BY <2>1 DEF Writing, Verbs
<1>. HIDE DEF verbs
<1>2. o \in Seq(Operation) /\ Uses(o, Writing) /\ KeysFollow(o)
  BY <1>1, CreateFacts, UsesMore, NoPuts
<1>3. a \in Seq(Operation) /\ Uses(a, Writing) /\ KeysFollow(a)
  BY SubjectFacts, EnrollFacts
<1>4. b \in Seq(Operation) /\ Uses(b, verbs)
  BY <1>1, SubjectFacts, EachUses
<1>5. c \in Seq(Operation) /\ Uses(c, verbs)
  <2>1. c \in Seq(Operation) /\ Uses(c, {"audit"})
    BY SubjectFacts, Parts
  <2>. QED  BY <1>1, <2>1, UsesMore
<1>6. d \in Seq(Operation) /\ Uses(d, verbs)
  <2>1. d \in Seq(Operation) /\ Uses(d, {"drop", "destroy key"})
    BY SubjectFacts, Parts
  <2>. QED  BY <1>1, <2>1, UsesMore
<1>7. KeysFollow(b) /\ KeysFollow(c) /\ KeysFollow(d)
  BY <1>1, <1>4, <1>5, <1>6, NoPuts
<1>. HIDE DEF o, a, b, c, d
<1>8. o \o a \in Seq(Operation) /\ Uses(o \o a, Writing) /\ KeysFollow(o \o a)
  BY <1>2, <1>3, JoinUses, JoinKeysFollow
<1>9. (o \o a) \o b \in Seq(Operation) /\ KeysFollow((o \o a) \o b) /\ PutsFirst((o \o a) \o b)
  BY <1>1, <1>4, <1>7, <1>8, VerbFacts, JoinFacts, JoinKeysFollow, JoinPutsFirst
<1>10. /\ (o \o a \o b) \o c \in Seq(Operation) /\ KeysFollow((o \o a \o b) \o c)
       /\ PutsFirst((o \o a \o b) \o c)
  BY <1>1, <1>5, <1>7, <1>9, JoinFacts, JoinKeysFollow, PutsStayFirst
<1>11. /\ (o \o a \o b \o c) \o d \in Seq(Operation) /\ KeysFollow((o \o a \o b \o c) \o d)
       /\ PutsFirst((o \o a \o b \o c) \o d)
  BY <1>1, <1>6, <1>7, <1>10, JoinFacts, JoinKeysFollow, PutsStayFirst
<1>12. Begins((o \o a \o b \o c \o d) \o c)
  BY <1>1, <1>5, <1>7, <1>11, JoinFacts, JoinKeysFollow, PutsStayFirst DEF Begins
<1>. QED  BY <1>12 DEF o, a, b, c, d

\* The subjects of the pilot are enrolled one after the other.
PutNames == Online \union {"cipher", "key"}
HasPuts(q, s) == \A what \in PutNames : \E j \in 1..Len(q) : q[j] = PutOf(what, s)
Enrolls(f) ==
  f = [i \in 0..Len(Subjects) |->
         IF i = 0 THEN CreateOutput ELSE f[i - 1] \o Enroll(Subjects[i])]

LEMMA EnrollHasPuts == \A s \in SubjectIds : HasPuts(Enroll(s), s)
<1>. TAKE s \in SubjectIds
<1>1. /\ Len(Enroll(s)) = 6
      /\ Enroll(s)[1] = PutOf("postgres", s) /\ Enroll(s)[2] = PutOf("vector-index", s)
      /\ Enroll(s)[3] = PutOf("cache", s) /\ Enroll(s)[4] = PutOf("cipher", s)
      /\ Enroll(s)[5] = PutOf("key", s) /\ Enroll(s)[6] = PutOf("model", s)
  BY EnrollFacts
<1>. QED  BY <1>1 DEF HasPuts, PutNames, Online

LEMMA JoinHasPuts ==
  ASSUME NEW p \in Seq(Operation), NEW q \in Seq(Operation), NEW s, HasPuts(p, s) \/ HasPuts(q, s)
  PROVE  HasPuts(p \o q, s)
<1>. DEFINE r == p \o q
<1>1. /\ Len(p) \in Nat /\ Len(q) \in Nat /\ Len(r) = Len(p) + Len(q)
      /\ \A i \in 1..Len(p) : r[i] = p[i]
      /\ \A i \in 1..Len(q) : r[Len(p) + i] = q[i]
  BY JoinFacts
<1>. HIDE DEF r
<1>2. ASSUME NEW what \in PutNames PROVE \E j \in 1..Len(r) : r[j] = PutOf(what, s)
  <2>1. CASE HasPuts(p, s)
    <3>1. PICK j \in 1..Len(p) : p[j] = PutOf(what, s)
      BY <2>1 DEF HasPuts
    <3>2. j \in 1..Len(r) /\ r[j] = p[j]
      BY <1>1
    <3>. QED  BY <3>1, <3>2
  <2>2. CASE HasPuts(q, s)
    <3>1. PICK j \in 1..Len(q) : q[j] = PutOf(what, s)
      BY <2>2 DEF HasPuts
    <3>2. Len(p) + j \in 1..Len(r) /\ r[Len(p) + j] = q[j]
      BY <1>1
    <3>. QED  BY <3>1, <3>2
  <2>. QED  BY <2>1, <2>2
<1>. QED  BY <1>2 DEF HasPuts, r

LEMMA EnrollsExist == \E f : Enrolls(f)
<1>. DEFINE n == Len(Subjects)
            D == Seq(Operation)
            start == CreateOutput
            Grow(k, q) == q \o Enroll(Subjects[k])
            step == [k \in 1..n |-> [q \in D |-> Grow(k, q)]]
<1>1. n \in Nat /\ start \in D
  BY SubjectFacts, CreateFacts
<1>2. step \in [1..n -> [D -> D]]
  <2>1. \A k \in 1..n : Enroll(Subjects[k]) \in D
    BY SubjectFacts, EnrollFacts
  <2>2. \A k \in 1..n : \A q \in D : Grow(k, q) \in D
    BY <2>1, JoinFacts
  <2>. HIDE DEF Grow, D
  <2>. QED  BY <2>2
<1>3. PICK f : Iterates(D, start, n, step, f)
  <2>. HIDE DEF D, start, n, step
  <2>. QED  BY <1>1, <1>2, IteratesExist
<1>4. f \in [0..n -> D] /\ f[0] = start /\ \A k \in 1..n : f[k] = step[k][f[k - 1]]
  BY <1>3 DEF Iterates
<1>5. \A k \in 1..n : f[k] = Grow(k, f[k - 1])
  <2>. TAKE k \in 1..n
  <2>1. k - 1 \in 0..n
    BY <1>1
  <2>2. f[k - 1] \in D
    BY <1>4, <2>1
  <2>3. step[k][f[k - 1]] = Grow(k, f[k - 1])
    <3>. HIDE DEF Grow, D
    <3>. QED  BY <2>2
  <2>. QED  BY <1>4, <2>3
<1>6. \A i \in 0..n : f[i] = IF i = 0 THEN start ELSE Grow(i, f[i - 1])
  <2>1. \A i \in 0..n : i = 0 \/ i \in 1..n
    BY <1>1
  <2>. HIDE DEF Grow, start, D, step
  <2>. QED  BY <1>4, <1>5, <2>1
<1>7. f = [i \in 0..n |-> f[i]]
  BY <1>4
<1>8. f = [i \in 0..n |-> IF i = 0 THEN start ELSE Grow(i, f[i - 1])]
  <2>. HIDE DEF Grow, start, D, step
  <2>. QED  BY <1>6, <1>7
<1>9. Enrolls(f)
  <2>. HIDE DEF Enroll, CreateOutput
  <2>. QED  BY <1>8 DEF Enrolls
<1>. QED  BY <1>9

LEMMA EnrollAllFacts ==
  /\ EnrollAll \in Seq(Operation) /\ Uses(EnrollAll, Enrolling) /\ KeysFollow(EnrollAll)
  /\ \A k \in 1..Len(Subjects) : HasPuts(EnrollAll, Subjects[k])
<1>. DEFINE n == Len(Subjects)
            f == CHOOSE g : Enrolls(g)
            Good(i) == /\ f[i] \in Seq(Operation) /\ Uses(f[i], Enrolling) /\ KeysFollow(f[i])
                       /\ \A k \in 1..i : HasPuts(f[i], Subjects[k])
            bad == { i \in 0..n : ~ Good(i) }
<1>1. n \in Nat /\ EnrollAll = f[n]
  BY SubjectFacts DEF EnrollAll, Enrolls
<1>2. f[0] = CreateOutput /\ \A i \in 1..n : f[i] = f[i - 1] \o Enroll(Subjects[i])
  <2>1. Enrolls(f)
    BY EnrollsExist
  <2>2. 0 \in 0..n /\ \A i \in 1..n : i \in 0..n /\ i # 0
    BY <1>1
  <2>. HIDE DEF f
  <2>. QED  BY <2>1, <2>2 DEF Enrolls
<1>. HIDE DEF f
<1>3. Good(0)
  <2>1. /\ CreateOutput \in Seq(Operation) /\ Uses(CreateOutput, {"refuse existing", "create"})
        /\ {"refuse existing", "create"} \subseteq Enrolling /\ "put" \notin {"refuse existing", "create"}
    BY CreateFacts DEF Enrolling
  <2>2. /\ CreateOutput \in Seq(Operation) /\ Uses(CreateOutput, Enrolling) /\ KeysFollow(CreateOutput)
    BY <2>1, UsesMore, NoPuts
  <2>. QED  BY <1>2, <2>2
<1>4. ASSUME NEW i \in 1..n, Good(i - 1) PROVE Good(i)
  <2>. DEFINE p == f[i - 1]
              q == Enroll(Subjects[i])
  <2>1. Subjects[i] \in SubjectIds /\ f[i] = p \o q
    BY <1>2, SubjectFacts
  <2>2. /\ q \in Seq(Operation) /\ Uses(q, Enrolling) /\ KeysFollow(q) /\ HasPuts(q, Subjects[i])
    BY <2>1, EnrollFacts, EnrollHasPuts
  <2>3. /\ p \in Seq(Operation) /\ Uses(p, Enrolling) /\ KeysFollow(p)
        /\ \A k \in 1..(i - 1) : HasPuts(p, Subjects[k])
    BY <1>4
  <2>4. \A k \in 1..i : k = i \/ k \in 1..(i - 1)
    BY <1>1
  <2>. HIDE DEF p, q
  <2>5. p \o q \in Seq(Operation) /\ Uses(p \o q, Enrolling) /\ KeysFollow(p \o q)
    BY <2>2, <2>3, JoinUses, JoinKeysFollow
  <2>6. \A k \in 1..i : HasPuts(p \o q, Subjects[k])
    BY <2>2, <2>3, <2>4, JoinHasPuts
  <2>. QED  BY <2>1, <2>5, <2>6
<1>5. bad = {}
  <2>. SUFFICES ASSUME bad # {} PROVE FALSE
    OBVIOUS
  <2>1. bad \in SUBSET Nat
    BY <1>1
  <2>2. PICK i \in bad : \A k \in bad : i <= k
    <3>. HIDE DEF bad
    <3>. QED  BY <2>1, LeastNat
  <2>3. i \in 0..n /\ ~ Good(i)
    BY <2>2
  <2>. HIDE DEF Good
  <2>4. i # 0
    BY <1>3, <2>3
  <2>5. i \in 1..n /\ i - 1 \in 0..n /\ ~ (i <= i - 1)
    BY <1>1, <2>3, <2>4
  <2>6. Good(i - 1)
    BY <2>2, <2>5
  <2>. QED  BY <1>4, <2>3, <2>5, <2>6
<1>6. Good(n)
  <2>. HIDE DEF Good
  <2>. QED  BY <1>1, <1>5
<1>. QED  BY <1>1, <1>6

-----------------------------------------------------------------------------
(* The stages of a trial.                                                  *)

\* Only the first stage puts data.
Staged(p) ==
  /\ Len(p) \in Nat /\ 1 <= Len(p)
  /\ Begins(p[1].does)
  /\ \A i \in 2..Len(p) : p[i].does \in Seq(Operation) /\ Uses(p[i].does, NoPut)

LEMMA StageParts ==
  /\ Reset.does \in Seq(Operation) /\ Uses(Reset.does, NoPut)
  /\ \A plan : InstallPlan(plan).does \in Seq(Operation) /\ Uses(InstallPlan(plan).does, NoPut)
  /\ \A mode : ReplayAs(mode).does \in Seq(Operation) /\ Uses(ReplayAs(mode).does, NoPut)
<1>1. /\ {"drop"} \subseteq NoPut /\ {"install"} \subseteq NoPut
      /\ {"read controls", "run", "rebuild", "look"} \subseteq NoPut
  BY DEF NoPut, Verbs
<1>2. /\ Reset.does = DropOnline(One)
      /\ \A plan : InstallPlan(plan).does = Install(One)
      /\ \A mode : ReplayAs(mode).does = Replay(One)
  BY DEF Reset, InstallPlan, ReplayAs, Stage
<1>3. DropOnline(One) \in Seq(Operation) /\ Uses(DropOnline(One), NoPut)
  <2>1. DropOnline(One) \in Seq(Operation) /\ Uses(DropOnline(One), {"drop"})
    BY SubjectFacts, Parts
  <2>. QED  BY <1>1, <2>1, UsesMore
<1>4. Install(One) \in Seq(Operation) /\ Uses(Install(One), NoPut)
  <2>1. Install(One) \in Seq(Operation) /\ Uses(Install(One), {"install"})
    BY SubjectFacts, Parts
  <2>. QED  BY <1>1, <2>1, UsesMore
<1>5. Replay(One) \in Seq(Operation) /\ Uses(Replay(One), NoPut)
  <2>1. Replay(One) \in Seq(Operation) /\ Uses(Replay(One), {"read controls", "run", "rebuild", "look"})
    BY SubjectFacts, Parts
  <2>. QED  BY <1>1, <2>1, UsesMore
<1>. QED  BY <1>2, <1>3, <1>4, <1>5

LEMMA LatentStages ==
  /\ \A latent : Staged(RiskTrial(latent))
  /\ Staged(SafeTrial) /\ Staged(CoverageFaultTrial) /\ Staged(RobustPhysicalTrial)
<1>1. ASSUME NEW latent PROVE Staged(RiskTrial(latent))
  <2>. DEFINE a == Construct
              b == ReplayAs("running")
              c == Reset
              d == InstallPlan(RiskPlan[latent])
              e == ReplayAs("promised")
              p == << a, b, c, d, e >>
  <2>1. Begins(a.does) /\ \A x \in {b, c, d, e} : x.does \in Seq(Operation) /\ Uses(x.does, NoPut)
    BY ConstructBegins, StageParts
  <2>. HIDE DEF a, b, c, d, e
  <2>2. Len(p) = 5 /\ p[1] = a /\ \A i \in 2..5 : p[i] \in {b, c, d, e}
    OBVIOUS
  <2>3. Staged(p)
    <3>. HIDE DEF p
    <3>. QED  BY <2>1, <2>2 DEF Staged
  <2>. QED  BY <2>3 DEF RiskTrial, a, b, c, d, e
<1>2. Staged(SafeTrial)
  <2>. DEFINE a == Construct
              b == InstallPlan({Tombstone})
              c == ReplayAs("promised")
              p == << a, b, c >>
  <2>1. Begins(a.does) /\ \A x \in {b, c} : x.does \in Seq(Operation) /\ Uses(x.does, NoPut)
    BY ConstructBegins, StageParts
  <2>. HIDE DEF a, b, c
  <2>2. Len(p) = 3 /\ p[1] = a /\ \A i \in 2..3 : p[i] \in {b, c}
    OBVIOUS
  <2>3. Staged(p)
    <3>. HIDE DEF p
    <3>. QED  BY <2>1, <2>2 DEF Staged
  <2>. QED  BY <2>3 DEF SafeTrial, a, b, c
<1>3. Staged(CoverageFaultTrial)
  <2>. DEFINE a == Construct
              b == InstallPlan({Tombstone})
              p == << a, b >>
  <2>1. Begins(a.does) /\ \A x \in {b} : x.does \in Seq(Operation) /\ Uses(x.does, NoPut)
    BY ConstructBegins, StageParts
  <2>. HIDE DEF a, b
  <2>2. Len(p) = 2 /\ p[1] = a /\ \A i \in 2..2 : p[i] \in {b}
    OBVIOUS
  <2>3. Staged(p)
    <3>. HIDE DEF p
    <3>. QED  BY <2>1, <2>2 DEF Staged
  <2>. QED  BY <2>3 DEF CoverageFaultTrial, a, b
<1>4. Staged(RobustPhysicalTrial)
  <2>. DEFINE a == Construct
              b == ReplayAs("running")
              c == Reset
              d == InstallPlan(NominalPlan)
              e == InstallPlan(RobustPlan)
              f == ReplayAs("promised")
              p == << a, b, c, d, b, c, e, f >>
  <2>1. Begins(a.does) /\ \A x \in {b, c, d, e, f} : x.does \in Seq(Operation) /\ Uses(x.does, NoPut)
    BY ConstructBegins, StageParts
  <2>. HIDE DEF a, b, c, d, e, f
  <2>. DEFINE others == {b, c, d, e, f}
  <2>2. Len(p) = 8 /\ p[1] = a /\ \A i \in 2..8 : p[i] \in others
    OBVIOUS
  <2>3. \A x \in others : x.does \in Seq(Operation) /\ Uses(x.does, NoPut)
    BY <2>1
  <2>4. Staged(p)
    <3>. HIDE DEF p, others
    <3>. QED  BY <2>1, <2>2, <2>3 DEF Staged
  <2>. QED  BY <2>4 DEF RobustPhysicalTrial, a, b, c, d, e, f
<1>. QED  BY <1>1, <1>2, <1>3, <1>4

LEMMA SingleStages == Staged(TemporalLabTrial)
<1>. DEFINE q == Each("run", <<BackupRestore>>, One) \o Rebuilds(One) \o Once("look", One)
            a == Stage("preparing", {}, Enroll(One) \o DropOnline(One) \o Once("look", One))
            b == Stage("running", {}, q)
            c == Reset
            d == Stage("preparing", SinglePlan, Each("install", <<"tombstone">>, One))
            e == Stage("promised", {}, q)
            p == << a, b, c, d, e >>
<1>1. q \in Seq(Operation) /\ Uses(q, NoPut)
  <2>. DEFINE x == Each("run", <<BackupRestore>>, One)
              y == Rebuilds(One)
              z == Once("look", One)
  <2>1. /\ "run" \in Verbs /\ "run" \in NoPut /\ "look" \in Verbs /\ "look" \in NoPut
        /\ <<BackupRestore>> \in Seq(NamesOf("run")) /\ {"rebuild"} \subseteq NoPut
    <3>1. <<BackupRestore>> \in Seq(NamesOf("run"))
      BY NamesFacts DEF Reactivations
    <3>. QED  BY <3>1 DEF Verbs, NoPut
  <2>2. x \in Seq(Operation) /\ Uses(x, NoPut)
    BY <2>1, SubjectFacts, EachUses
  <2>3. z \in Seq(Operation) /\ Uses(z, NoPut)
    BY <2>1, SubjectFacts, OnceUses
  <2>4. y \in Seq(Operation) /\ Uses(y, {"rebuild"})
    BY SubjectFacts, Parts
  <2>5. Uses(y, NoPut)
    BY <2>1, <2>4, UsesMore
  <2>. HIDE DEF x, y, z
  <2>6. x \o y \in Seq(Operation) /\ Uses(x \o y, NoPut)
    BY <2>2, <2>4, <2>5, JoinUses
  <2>7. x \o y \o z \in Seq(Operation) /\ Uses(x \o y \o z, NoPut)
    BY <2>3, <2>6, JoinUses
  <2>. QED  BY <2>7 DEF x, y, z
<1>2. Begins(a.does)
  BY SingleBegins DEF Stage
<1>3. d.does \in Seq(Operation) /\ Uses(d.does, NoPut)
  <2>1. "install" \in Verbs /\ "install" \in NoPut /\ <<"tombstone">> \in Seq(NamesOf("install"))
    <3>1. "tombstone" \in NamesOf("install")
      BY NamesFacts DEF Names
    <3>. QED  BY <3>1 DEF Verbs, NoPut
  <2>2. d.does = Each("install", <<"tombstone">>, One)
    BY DEF Stage
  <2>. QED  BY <2>1, <2>2, SubjectFacts, EachUses
<1>. HIDE DEF q
<1>4. \A x \in {b, c, d, e} : x.does \in Seq(Operation) /\ Uses(x.does, NoPut)
  <2>1. b.does = q /\ e.does = q
    BY DEF Stage
  <2>. HIDE DEF b, d, e
  <2>. QED  BY <1>1, <1>3, <2>1, StageParts
<1>. HIDE DEF a, b, c, d, e
<1>5. Len(p) = 5 /\ p[1] = a /\ \A i \in 2..5 : p[i] \in {b, c, d, e}
  OBVIOUS
<1>6. Staged(p)
  <2>. HIDE DEF p
  <2>. QED  BY <1>2, <1>4, <1>5 DEF Staged
<1>. QED  BY <1>6 DEF TemporalLabTrial, q, a, b, c, d, e

LEMMA StorageStages == Staged(RegisteredStorageTrial)
<1>. DEFINE a == Stage("preparing", {}, CreateOutput \o Enroll(One) \o Each("drop", <<"postgres">>, One)
                                          \o Audit(One) \o Remediate(One) \o Audit(One))
            p == << a >>
<1>1. Begins(a.does)
  BY StorageBegins DEF Stage
<1>. HIDE DEF a
<1>2. Len(p) = 1 /\ p[1] = a /\ \A i \in 2..1 : FALSE
  OBVIOUS
<1>3. Staged(p)
  <2>. HIDE DEF p
  <2>. QED  BY <1>1, <1>2 DEF Staged
<1>. QED  BY <1>3 DEF RegisteredStorageTrial, a

\* The pilot enrolls its subjects, erases some of them and concludes.
DeletionStage(i) == Stage(IF i = 1 THEN "preparing" ELSE "promised", {}, Deletion(Subjects[i]))
ConcludeStage == Stage("promised", {}, Once("conclude", One))

LEMMA ConcludeFacts ==
  /\ ConcludeStage.does \in Seq(Operation) /\ Uses(ConcludeStage.does, NoPut)
  /\ Len(ConcludeStage.does) = 1
  /\ ConcludeStage.does[1] = [do |-> "conclude", what |-> "all", who |-> One]
<1>1. "conclude" \in Verbs /\ "conclude" \in NoPut
  BY DEF Verbs, NoPut
<1>2. ConcludeStage.does = Once("conclude", One)
  BY DEF ConcludeStage, Stage
<1>. QED  BY <1>1, <1>2, SubjectFacts, OnceFacts, OnceUses

LEMMA PilotFacts ==
  /\ Len(PilotTrial) = Deletions + 2
  /\ PilotTrial[1] = Stage("preparing", {}, EnrollAll)
  /\ \A i \in 1..Deletions : PilotTrial[i + 1] = DeletionStage(i)
  /\ PilotTrial[Deletions + 2] = ConcludeStage
<1>. DEFINE a == Stage("preparing", {}, EnrollAll)
            q == [i \in 1..Deletions |-> DeletionStage(i)]
            c == ConcludeStage
            T == {a, c} \union { q[i] : i \in 1..Deletions }
<1>1. Deletions \in Nat /\ q \in Seq(T) /\ Len(q) = Deletions
      /\ \A i \in 1..Deletions : q[i] = DeletionStage(i)
  BY SubjectFacts
<1>2. PilotTrial = << a >> \o q \o << c >>
  BY DEF PilotTrial, DeletionStage, ConcludeStage
<1>. HIDE DEF a, q, c
<1>3. /\ << a >> \in Seq(T) /\ Len(<< a >>) = 1 /\ << a >>[1] = a
      /\ << c >> \in Seq(T) /\ Len(<< c >>) = 1 /\ << c >>[1] = c
  OBVIOUS
<1>. DEFINE x == << a >>
            z == << c >>
<1>. HIDE DEF T, x, z
<1>4. /\ x \o q \in Seq(T) /\ Len(x \o q) = Deletions + 1 /\ (x \o q)[1] = a
      /\ \A i \in 1..Deletions : (x \o q)[i + 1] = q[i]
  BY <1>1, <1>3 DEF x
<1>. QED  BY <1>1, <1>2, <1>3, <1>4 DEF x, z, a, c

LEMMA PilotStages == Staged(PilotTrial)
<1>1. Begins(PilotTrial[1].does)
  <2>1. Uses(EnrollAll, Writing)
    BY EnrollAllFacts, VerbFacts, UsesMore
  <2>. QED  BY <2>1, PilotFacts, EnrollAllFacts, NoReads DEF Begins, Stage
<1>2. ASSUME NEW i \in 2..Len(PilotTrial)
      PROVE  PilotTrial[i].does \in Seq(Operation) /\ Uses(PilotTrial[i].does, NoPut)
  <2>1. i \in Nat /\ Deletions \in Nat /\ (i = Deletions + 2 \/ i - 1 \in 1..Deletions)
    BY SubjectFacts, PilotFacts
  <2>2. CASE i = Deletions + 2
    BY <2>2, PilotFacts, ConcludeFacts
  <2>3. CASE i - 1 \in 1..Deletions
    <3>1. PilotTrial[i] = DeletionStage(i - 1)
      BY <2>1, <2>3, PilotFacts
    <3>2. DeletionStage(i - 1).does = Deletion(Subjects[i - 1]) /\ Subjects[i - 1] \in SubjectIds
      BY <2>3, SubjectFacts DEF DeletionStage, Stage
    <3>3. /\ Deletion(Subjects[i - 1]) \in Seq(Operation)
          /\ Uses(Deletion(Subjects[i - 1]), {"drop", "destroy key", "audit", "issue", "verify"})
      BY <3>2, Parts
    <3>4. {"drop", "destroy key", "audit", "issue", "verify"} \subseteq NoPut
      BY DEF NoPut, Verbs
    <3>5. Uses(Deletion(Subjects[i - 1]), NoPut)
      BY <3>3, <3>4, UsesMore
    <3>. QED  BY <3>1, <3>2, <3>3, <3>5
  <2>. QED  BY <2>1, <2>2, <2>3
<1>. QED  BY <1>1, <1>2, PilotFacts, SubjectFacts DEF Staged

LEMMA ProgramsAreStaged == \A t \in Trials : Staged(Programs[t])
<1>. TAKE t \in Trials
<1>1. /\ Programs[t] = Program(t)
      /\ t.kind \in {"risk", "safe", "coverage", "shift", "single", "storage", "pilot"}
  BY TrialsAssumption DEF Programs, Trial
<1>. QED  BY <1>1, LatentStages, SingleStages, StorageStages, PilotStages DEF Program

-----------------------------------------------------------------------------
(* What is left of a stage.                                                *)

LeftOf(full, rest) ==
  /\ rest \in Seq(Operation)
  /\ Len(rest) <= Len(full)
  /\ \A i \in 1..Len(rest) : rest[i] = full[Len(full) - Len(rest) + i]

First == Programs[trial][1].does
Contains(q, op) == \E j \in 1..Len(q) : q[j] = op

BaseInv ==
  /\ trial \in Trials
  /\ stage \in 1..Len(Stages)
  /\ status \in {"running", "failed", "done"}
  /\ crashes \in Nat
  /\ LeftOf(Stages[stage].does, todo)

LEMMA LeftFacts ==
  ASSUME NEW full \in Seq(Operation), NEW rest, LeftOf(full, rest)
  PROVE  /\ rest \in Seq(Operation)
         /\ \A i \in 1..Len(rest) : Contains(full, rest[i])
         /\ KeysFollow(full) => KeysFollow(rest)
         /\ PutsFirst(full) => PutsFirst(rest)
         /\ \A verbs : Uses(full, verbs) => Uses(rest, verbs)
<1>. DEFINE k == Len(full) - Len(rest)
<1>1. /\ rest \in Seq(Operation) /\ k \in Nat /\ Len(rest) \in Nat /\ Len(full) = k + Len(rest)
      /\ \A i \in 1..Len(rest) : rest[i] = full[k + i] /\ k + i \in 1..Len(full)
  BY DEF LeftOf
<1>. HIDE DEF k
<1>2. \A i \in 1..Len(rest) : Contains(full, rest[i])
  BY <1>1 DEF Contains
<1>3. ASSUME KeysFollow(full) PROVE KeysFollow(rest)
  <2>1. ASSUME NEW i \in 1..Len(rest), rest[i].do = "put", rest[i].what = "cipher"
        PROVE  \E j \in 1..Len(rest) : i < j /\ rest[j] = PutOf("key", rest[i].who)
    <3>1. PICK j \in 1..Len(full) : k + i < j /\ full[j] = PutOf("key", full[k + i].who)
      BY <1>1, <1>3, <2>1 DEF KeysFollow
    <3>2. j - k \in 1..Len(rest) /\ i < j - k /\ j = k + (j - k)
      BY <1>1, <3>1
    <3>. QED  BY <1>1, <3>1, <3>2
  <2>. QED  BY <2>1 DEF KeysFollow
<1>4. ASSUME PutsFirst(full) PROVE PutsFirst(rest)
  <2>1. ASSUME NEW i \in 1..Len(rest), NEW j \in 1..Len(rest), i < j
        PROVE  ~ (rest[i].do \in Readers /\ rest[j].do = "put")
    <3>1. k + i < k + j
      BY <1>1, <2>1
    <3>. QED  BY <1>1, <1>4, <3>1 DEF PutsFirst
  <2>. QED  BY <2>1 DEF PutsFirst
<1>5. \A verbs : Uses(full, verbs) => Uses(rest, verbs)
  BY <1>1 DEF Uses
<1>. QED  BY <1>1, <1>2, <1>3, <1>4, <1>5

LEMMA LeftStep ==
  ASSUME NEW full \in Seq(Operation), NEW rest, LeftOf(full, rest), rest # <<>>
  PROVE  /\ LeftOf(full, Tail(rest))
         /\ Head(rest) \in Operation /\ Head(rest) = rest[1] /\ 1 \in 1..Len(rest)
         /\ \A i \in 1..Len(rest) : rest[i] = Head(rest) \/ Contains(Tail(rest), rest[i])
         /\ \A i \in 2..Len(rest) : Contains(Tail(rest), rest[i])
<1>1. rest \in Seq(Operation) /\ Len(rest) \in Nat /\ Len(full) \in Nat
  BY DEF LeftOf
<1>2. /\ Head(rest) \in Operation /\ Head(rest) = rest[1] /\ 1 \in 1..Len(rest)
      /\ Tail(rest) \in Seq(Operation) /\ Len(Tail(rest)) = Len(rest) - 1
      /\ \A i \in 1..Len(Tail(rest)) : Tail(rest)[i] = rest[i + 1] /\ i + 1 \in 1..Len(rest)
  BY <1>1
<1>. DEFINE q == Tail(rest)
<1>. HIDE DEF q
<1>3. LeftOf(full, q)
  <2>1. \A i \in 1..Len(q) : rest[i + 1] = full[Len(full) - Len(rest) + (i + 1)]
    BY <1>2 DEF LeftOf, q
  <2>2. \A i \in 1..Len(q) : Len(full) - Len(rest) + (i + 1) = Len(full) - Len(q) + i
    BY <1>1, <1>2 DEF q
  <2>. QED  BY <1>1, <1>2, <2>1, <2>2 DEF LeftOf, q
<1>4. ASSUME NEW i \in 2..Len(rest) PROVE Contains(q, rest[i])
  <2>1. i - 1 \in 1..Len(q) /\ (i - 1) + 1 = i
    BY <1>1, <1>2 DEF q
  <2>. QED  BY <1>2, <2>1 DEF Contains, q
<1>5. \A i \in 1..Len(rest) : i = 1 \/ i \in 2..Len(rest)
  BY <1>1
<1>. QED  BY <1>2, <1>3, <1>4, <1>5 DEF q

LEMMA LeftAll ==
  ASSUME NEW full \in Seq(Operation)
  PROVE  LeftOf(full, full)
BY DEF LeftOf

LEMMA StageFacts ==
  ASSUME BaseInv
  PROVE  /\ Len(Stages) \in Nat /\ stage \in Nat /\ 1 <= Len(Stages)
         /\ First = Stages[1].does /\ Begins(First)
         /\ \A i \in 1..Len(Stages) : Stages[i].does \in Seq(Operation)
         /\ \A i \in 2..Len(Stages) : Uses(Stages[i].does, NoPut)
<1>1. Staged(Stages) /\ First = Stages[1].does
  BY ProgramsAreStaged DEF BaseInv, Stages, First
<1>2. Len(Stages) \in Nat => \A i \in 1..Len(Stages) : i = 1 \/ i \in 2..Len(Stages)
  OBVIOUS
<1>. HIDE DEF Stages
<1>. QED  BY <1>1, <1>2 DEF Staged, BaseInv, Begins

LEMMA TodoFacts ==
  ASSUME BaseInv
  PROVE  /\ todo \in Seq(Operation) /\ KeysFollow(todo) /\ PutsFirst(todo)
         /\ \A i \in 1..Len(todo) : todo[i].do = "put" => Contains(First, todo[i])
<1>1. /\ stage \in Nat /\ stage \in 1..Len(Stages) /\ Len(Stages) \in Nat
      /\ LeftOf(Stages[stage].does, todo) /\ Stages[stage].does \in Seq(Operation)
      /\ stage = 1 => Begins(Stages[stage].does) /\ First = Stages[stage].does
      /\ stage # 1 => Uses(Stages[stage].does, NoPut)
  BY StageFacts DEF BaseInv
<1>2. CASE stage = 1
  BY <1>1, <1>2, LeftFacts DEF Begins
<1>3. CASE stage # 1
  <2>1. todo \in Seq(Operation) /\ Uses(todo, NoPut)
    BY <1>1, <1>3, LeftFacts
  <2>2. KeysFollow(todo) /\ PutsFirst(todo)
    BY <2>1, VerbFacts, NoPuts
  <2>3. \A i \in 1..Len(todo) : todo[i].do # "put"
    BY <2>1, VerbFacts DEF Uses
  <2>. QED  BY <2>1, <2>2, <2>3
<1>. QED  BY <1>2, <1>3

\* An operation that is done leaves the rest of its stage.
LEMMA DoneFacts ==
  ASSUME BaseInv, NEW do, Does(do)
  PROVE  /\ BaseInv' /\ First' = First /\ stage' = stage /\ Stages' = Stages
         /\ Op \in Operation /\ Op.do = do /\ todo # <<>> /\ Op = todo[1] /\ 1 \in 1..Len(todo)
         /\ \A i \in 1..Len(todo) : todo[i] = Op \/ Contains(todo', todo[i])
         /\ \A i \in 2..Len(todo) : Contains(todo', todo[i])
         /\ KeysFollow(todo')
<1>1. /\ todo # <<>> /\ Head(todo).do = do /\ todo' = Tail(todo)
      /\ trial' = trial /\ stage' = stage /\ status' = status /\ crashes' = crashes
  BY DEF Does, At, Op
<1>2. Stages' = Stages /\ First' = First
  BY <1>1 DEF Stages, First
<1>3. LeftOf(Stages[stage].does, todo) /\ Stages[stage].does \in Seq(Operation)
  BY StageFacts DEF BaseInv
<1>4. /\ LeftOf(Stages[stage].does, todo')
      /\ Op \in Operation /\ Op = todo[1] /\ 1 \in 1..Len(todo)
      /\ \A i \in 1..Len(todo) : todo[i] = Op \/ Contains(todo', todo[i])
      /\ \A i \in 2..Len(todo) : Contains(todo', todo[i])
  <2>. HIDE DEF Stages
  <2>. QED  BY <1>1, <1>3, LeftStep DEF Op
<1>5. BaseInv'
  <2>. HIDE DEF Stages
  <2>. QED  BY <1>1, <1>2, <1>4 DEF BaseInv
<1>6. KeysFollow(todo')
  <2>1. todo \in Seq(Operation) /\ KeysFollow(todo) /\ LeftOf(todo, todo)
    BY TodoFacts, LeftAll
  <2>2. LeftOf(todo, todo')
    BY <1>1, <2>1, LeftStep
  <2>. QED  BY <2>1, <2>2, LeftFacts
<1>. QED  BY <1>1, <1>2, <1>4, <1>5, <1>6 DEF Op

LEMMA RerunFacts ==
  ASSUME BaseInv, Rerun
  PROVE  BaseInv' /\ First' = First /\ todo' = First /\ stage' = 1 /\ Stages' = Stages
<1>1. /\ trial' = trial /\ stage' = 1 /\ status' = "running" /\ crashes' = crashes + 1
      /\ todo' = First
  BY DEF Rerun, First
<1>2. Stages' = Stages /\ First' = First
  BY <1>1 DEF Stages, First
<1>3. LeftOf(First, First) /\ 1 \in 1..Len(Stages) /\ First = Stages[1].does
  BY StageFacts, LeftAll DEF Begins
<1>4. BaseInv'
  <2>. HIDE DEF Stages, First
  <2>. QED  BY <1>1, <1>2, <1>3 DEF BaseInv
<1>. QED  BY <1>1, <1>2, <1>4

LEMMA NextStageFacts ==
  ASSUME BaseInv, NextStage
  PROVE  BaseInv' /\ First' = First /\ todo = <<>> /\ Stages' = Stages
<1>1. /\ trial' = trial /\ crashes' = crashes /\ todo = <<>>
      /\ \/ /\ stage < Len(Stages) /\ stage' = stage + 1 /\ todo' = Stages[stage + 1].does
            /\ status' = status
         \/ stage' = stage /\ todo' = todo /\ status' = "done"
  BY DEF NextStage
<1>2. Stages' = Stages /\ First' = First
  BY <1>1 DEF Stages, First
<1>3. BaseInv'
  <2>1. CASE stage < Len(Stages) /\ stage' = stage + 1
    <3>1. stage' \in 1..Len(Stages)
      BY <2>1, StageFacts DEF BaseInv
    <3>2. todo' = Stages[stage'].does
      BY <1>1, <2>1, StageFacts
    <3>3. LeftOf(todo', todo')
      BY <3>1, <3>2, StageFacts, LeftAll
    <3>4. status' \in {"running", "failed", "done"}
      BY <1>1 DEF BaseInv
    <3>. HIDE DEF Stages
    <3>. QED  BY <1>1, <1>2, <3>1, <3>2, <3>3, <3>4 DEF BaseInv
  <2>2. CASE stage' = stage /\ todo' = todo /\ status' = "done"
    <3>. HIDE DEF Stages
    <3>. QED  BY <1>1, <1>2, <2>2 DEF BaseInv
  <2>. QED  BY <1>1, <2>1, <2>2
<1>. QED  BY <1>1, <1>2, <1>3

LEMMA InitBase == Init => BaseInv /\ todo = First
<1>. SUFFICES ASSUME Init PROVE BaseInv /\ todo = First
  OBVIOUS
<1>1. trial \in Trials /\ stage = 1 /\ todo = First /\ status = "running" /\ crashes = 0
  BY DEF Init, First
<1>2. Staged(Stages) /\ First = Stages[1].does
  BY <1>1, ProgramsAreStaged DEF Stages, First
<1>3. 1 \in 1..Len(Stages) /\ LeftOf(First, First)
  <2>. HIDE DEF Stages, First
  <2>. QED  BY <1>2, LeftAll DEF Staged, Begins
<1>. HIDE DEF Stages, First
<1>. QED  BY <1>1, <1>2, <1>3 DEF BaseInv

-----------------------------------------------------------------------------
(* The two files of a backup.                                              *)

Ahead(what, s) == Contains(todo, PutOf(what, s))

\* A key that does not open the ciphertext is replaced before anybody reads it,
\* and so is half a ciphertext, also by a trial that starts over.
Generations(s) ==
  /\ key[s] = 0 \/ (key[s] = cipher[s] /\ key[s] > 0) \/ Ahead("key", s)
  /\ cipher[s] >= 0 \/ Ahead("cipher", s)
  /\ key[s] # 0 => Contains(First, PutOf("key", s))
  /\ cipher[s] # 0 => Contains(First, PutOf("cipher", s))

GenInv ==
  /\ key \in [SubjectIds -> Int] /\ cipher \in [SubjectIds -> Int]
  /\ \A s \in SubjectIds : Generations(s)

\* A put of a ciphertext is always followed by one of its key.
LEMMA KeyFollows ==
  ASSUME NEW q, KeysFollow(q), NEW s, Contains(q, PutOf("cipher", s))
  PROVE  Contains(q, PutOf("key", s))
BY DEF KeysFollow, Contains, PutOf

\* Operations that write no ciphertext and write no key, at most destroy one.
LEMMA QuietGenerations ==
  ASSUME BaseInv, GenInv, NEW do, Does(do),
         ~ (Op.do = "put" /\ Op.what \in {"cipher", "key"}),
         cipher' = cipher, key' \in [SubjectIds -> Int],
         \A s \in SubjectIds : key'[s] = key[s] \/ key'[s] = 0
  PROVE  GenInv'
<1>1. ASSUME NEW s \in SubjectIds PROVE Generations(s)'
  <2>1. First' = First /\ (\A i \in 1..Len(todo) : todo[i] = Op \/ Contains(todo', todo[i]))
    BY DoneFacts
  <2>2. Op # PutOf("cipher", s) /\ Op # PutOf("key", s)
    BY DEF PutOf
  <2>3. /\ Ahead("key", s) => Ahead("key", s)'
        /\ Ahead("cipher", s) => Ahead("cipher", s)'
    BY <2>1, <2>2 DEF Ahead, Contains
  <2>4. Generations(s) /\ cipher'[s] = cipher[s] /\ (key'[s] = key[s] \/ key'[s] = 0)
    BY DEF GenInv
  <2>. QED  BY <2>1, <2>3, <2>4 DEF Generations
<1>2. cipher' \in [SubjectIds -> Int]
  BY DEF GenInv
<1>. QED  BY <1>1, <1>2 DEF GenInv

LEMMA CipherGenerations ==
  ASSUME BaseInv, GenInv, PutCipher
  PROVE  GenInv'
<1>1. /\ Does("put") /\ Op.what = "cipher" /\ key' = key
      /\ cipher' = [cipher EXCEPT ![Op.who] = crashes + 1]
  BY DEF PutCipher, Writes
<1>. DEFINE who == Op.who
<1>2. /\ First' = First /\ Op \in Operation /\ Op = todo[1] /\ 1 \in 1..Len(todo) /\ Op.do = "put"
      /\ \A i \in 1..Len(todo) : todo[i] = Op \/ Contains(todo', todo[i])
      /\ \A i \in 2..Len(todo) : Contains(todo', todo[i])
  BY <1>1, DoneFacts
<1>3. who \in SubjectIds /\ Op = PutOf("cipher", who) /\ crashes \in Nat
  BY <1>1, <1>2 DEF Operation, PutOf, BaseInv
<1>4. Contains(First, Op) /\ Contains(First, PutOf("key", who))
  <2>1. Contains(First, Op)
    BY <1>2, TodoFacts
  <2>2. KeysFollow(First)
    BY StageFacts DEF Begins
  <2>. QED  BY <1>3, <2>1, <2>2, KeyFollows
<1>5. Contains(todo', PutOf("key", who))
  <2>1. PICK j \in 1..Len(todo) : 1 < j /\ todo[j] = PutOf("key", who)
    BY <1>1, <1>2, TodoFacts DEF KeysFollow
  <2>2. j \in 2..Len(todo)
    BY <2>1
  <2>. QED  BY <1>2, <2>1, <2>2
<1>6. cipher' \in [SubjectIds -> Int] /\ key' \in [SubjectIds -> Int]
  BY <1>1, <1>3 DEF GenInv
<1>7. ASSUME NEW s \in SubjectIds PROVE Generations(s)'
  <2>1. Generations(s) /\ cipher \in [SubjectIds -> Int]
    BY DEF GenInv
  <2>2. CASE s = who
    <3>1. cipher'[s] = crashes + 1 /\ key'[s] = key[s]
      BY <1>1, <2>1, <2>2
    <3>. QED  BY <1>2, <1>3, <1>4, <1>5, <2>1, <2>2, <3>1 DEF Generations, Ahead
  <2>3. CASE s # who
    <3>1. cipher'[s] = cipher[s] /\ key'[s] = key[s]
      BY <1>1, <2>1, <2>3
    <3>2. PutOf("key", s) # Op /\ PutOf("cipher", s) # Op
      BY <1>3, <2>3 DEF PutOf
    <3>3. /\ Ahead("key", s) => Ahead("key", s)'
          /\ Ahead("cipher", s) => Ahead("cipher", s)'
      BY <1>2, <3>2 DEF Ahead, Contains
    <3>. QED  BY <1>2, <2>1, <3>1, <3>3 DEF Generations
  <2>. QED  BY <2>2, <2>3
<1>. QED  BY <1>6, <1>7 DEF GenInv

LEMMA KeyGenerations ==
  ASSUME BaseInv, GenInv, PutKey
  PROVE  GenInv'
<1>1. /\ Does("put") /\ Op.what = "key" /\ cipher' = cipher
      /\ key' = [key EXCEPT ![Op.who] = cipher[Op.who]]
  BY DEF PutKey, Writes
<1>. DEFINE who == Op.who
<1>2. /\ KeysFollow(todo') /\ First' = First
      /\ Op \in Operation /\ Op = todo[1] /\ 1 \in 1..Len(todo) /\ Op.do = "put"
      /\ \A i \in 1..Len(todo) : todo[i] = Op \/ Contains(todo', todo[i])
  BY <1>1, DoneFacts
<1>3. who \in SubjectIds /\ Op = PutOf("key", who)
  BY <1>1, <1>2 DEF Operation, PutOf
<1>4. Contains(First, Op)
  BY <1>2, TodoFacts
<1>5. cipher' \in [SubjectIds -> Int] /\ key' \in [SubjectIds -> Int]
  BY <1>1, <1>3 DEF GenInv
<1>6. ASSUME NEW s \in SubjectIds PROVE Generations(s)'
  <2>1. Generations(s) /\ cipher \in [SubjectIds -> Int] /\ key \in [SubjectIds -> Int]
    BY DEF GenInv
  <2>2. PutOf("cipher", s) # Op
    BY <1>3 DEF PutOf
  <2>3. Ahead("cipher", s) => Ahead("cipher", s)'
    BY <1>2, <2>2 DEF Ahead, Contains
  <2>4. CASE s = who
    <3>1. cipher'[s] = cipher[s] /\ key'[s] = cipher[s]
      BY <1>1, <2>1, <2>4
    <3>2. Ahead("cipher", s)' => Ahead("key", s)'
      BY <1>2, KeyFollows DEF Ahead
    <3>. QED  BY <1>2, <1>3, <1>4, <2>1, <2>3, <2>4, <3>1, <3>2 DEF Generations
  <2>5. CASE s # who
    <3>1. cipher'[s] = cipher[s] /\ key'[s] = key[s]
      BY <1>1, <2>1, <2>5
    <3>2. PutOf("key", s) # Op
      BY <1>3, <2>5 DEF PutOf
    <3>3. Ahead("key", s) => Ahead("key", s)'
      BY <1>2, <3>2 DEF Ahead, Contains
    <3>. QED  BY <1>2, <2>1, <2>3, <3>1, <3>3 DEF Generations
  <2>. QED  BY <2>4, <2>5
<1>. QED  BY <1>5, <1>6 DEF GenInv

LEMMA RerunGenerations ==
  ASSUME BaseInv, GenInv, Rerun,
         key' \in [SubjectIds -> Int], cipher' \in [SubjectIds -> Int],
         \A s \in SubjectIds :
           /\ key'[s] = key[s] \/ Contains(First, PutOf("key", s))
           /\ cipher'[s] = cipher[s] \/ Contains(First, PutOf("cipher", s))
  PROVE  GenInv'
<1>1. First' = First /\ todo' = First /\ KeysFollow(First)
  BY RerunFacts, StageFacts DEF Begins
<1>2. ASSUME NEW s \in SubjectIds PROVE Generations(s)'
  <2>1. /\ Generations(s) /\ cipher[s] \in Int
        /\ Contains(First, PutOf("cipher", s)) => Contains(First, PutOf("key", s))
    BY <1>1, KeyFollows DEF GenInv
  <2>2. Ahead("key", s)' <=> Contains(First, PutOf("key", s))
    BY <1>1 DEF Ahead
  <2>3. Ahead("cipher", s)' <=> Contains(First, PutOf("cipher", s))
    BY <1>1 DEF Ahead
  <2>4. /\ key'[s] = key[s] \/ Contains(First, PutOf("key", s))
        /\ cipher'[s] = cipher[s] \/ Contains(First, PutOf("cipher", s))
    OBVIOUS
  <2>. QED  BY <1>1, <2>1, <2>2, <2>3, <2>4 DEF Generations
<1>. QED  BY <1>2 DEF GenInv

LEMMA StepGenerations == BaseInv /\ GenInv /\ [Next]_vars => GenInv'
<1>. SUFFICES ASSUME BaseInv, GenInv, [Next]_vars PROVE GenInv'
  OBVIOUS
<1>1. ASSUME UNCHANGED <<trial, todo, key, cipher>> PROVE GenInv'
  BY <1>1 DEF GenInv, Generations, Ahead, First
<1>2. CASE UNCHANGED vars \/ Ended \/ Fail
  BY <1>1, <1>2 DEF vars, disk, Ended, Fail
<1>3. ASSUME NEW do, Does(do), cipher' = cipher, key' = key,
             ~ (Op.do = "put" /\ Op.what \in {"cipher", "key"})
      PROVE  GenInv'
  BY <1>3, QuietGenerations DEF GenInv
<1>4. CASE PutOnline
  BY <1>3, <1>4 DEF PutOnline, Writes, Online
<1>5. CASE PutCipher
  BY <1>5, CipherGenerations
<1>6. CASE PutKey
  BY <1>6, KeyGenerations
<1>7. ASSUME NEW do, Does(do), do # "put" PROVE Op.do # "put"
  BY <1>7 DEF Does, At, Op
<1>8. CASE WriteCarrier \/ Drop \/ InstallTombstone \/ Rebuild
  BY <1>3, <1>7, <1>8 DEF WriteCarrier, Drop, InstallTombstone, Rebuild, Writes
<1>9. ASSUME NEW do, Does(do), do # "put", cipher' = cipher,
             key' = key \/ key' = [key EXCEPT ![Op.who] = 0]
      PROVE  GenInv'
  <2>1. key' \in [SubjectIds -> Int] /\ \A s \in SubjectIds : key'[s] = key[s] \/ key'[s] = 0
    BY <1>9 DEF GenInv
  <2>. QED  BY <1>7, <1>9, <2>1, QuietGenerations
<1>10. CASE DropUnusedKey
  BY <1>9, <1>10 DEF DropUnusedKey, Writes
<1>11. CASE DestroyBackup
  BY <1>9, <1>11 DEF DestroyBackup, Writes
<1>12. CASE DestroyCarrier
  BY <1>9, <1>12 DEF DestroyCarrier, Writes
<1>13. CASE InstallControls \/ RunWorkflow \/ Create
  BY <1>3, <1>7, <1>13 DEF InstallControls, RunWorkflow, Create
<1>14. CASE ReadControls \/ Look \/ AuditNow \/ RefuseExisting \/ Issue \/ Verify \/ Conclude
  BY <1>3, <1>7, <1>14 DEF ReadControls, Look, AuditNow, RefuseExisting, Issue, Verify, Conclude, disk
<1>15. CASE NextStage
  <2>1. key' = key /\ cipher' = cipher /\ First' = First /\ todo = <<>>
    BY <1>15, NextStageFacts DEF NextStage, disk
  <2>2. \A what, s : ~ Ahead(what, s)
    BY <2>1 DEF Ahead, Contains
  <2>. QED  BY <2>1, <2>2 DEF GenInv, Generations
<1>16. CASE Crash
  BY <1>16, RerunGenerations DEF Crash, disk, GenInv
<1>17. CASE KillInWrite
  <2>1. /\ Rerun /\ todo # <<>>
        /\ \/ key' = key /\ cipher' = cipher
           \/ Op.do = "put" /\ Op.what = "cipher" /\ key' = key /\ cipher' = [cipher EXCEPT ![Op.who] = Half]
           \/ Op.do = "put" /\ Op.what = "key" /\ cipher' = cipher /\ key' = [key EXCEPT ![Op.who] = Half]
    BY <1>17 DEF KillInWrite
  <2>2. Op \in Operation /\ Op = todo[1] /\ 1 \in 1..Len(todo)
    <3>1. todo \in Seq(Operation)
      BY TodoFacts
    <3>. QED  BY <2>1, <3>1 DEF Op
  <2>3. Op.do = "put" => Contains(First, PutOf(Op.what, Op.who))
    <3>1. Op.do = "put" => Op = PutOf(Op.what, Op.who)
      BY <2>2 DEF Operation, PutOf
    <3>. QED  BY <2>2, <3>1, TodoFacts
  <2>4. Op.who \in SubjectIds /\ Half \in Int
    BY <2>2 DEF Operation, Half
  <2>5. key' \in [SubjectIds -> Int] /\ cipher' \in [SubjectIds -> Int]
    BY <2>1, <2>4 DEF GenInv
  <2>6. \A s \in SubjectIds :
          /\ key'[s] = key[s] \/ Contains(First, PutOf("key", s))
          /\ cipher'[s] = cipher[s] \/ Contains(First, PutOf("cipher", s))
    BY <2>1, <2>3, <2>4 DEF GenInv
  <2>. QED  BY <2>1, <2>5, <2>6, RerunGenerations
<1>. QED  BY <1>2, <1>4, <1>5, <1>6, <1>8, <1>10, <1>11, <1>12, <1>13, <1>14, <1>15, <1>16, <1>17
     DEF Next, TrialStep

LEMMA StepBase == BaseInv /\ [Next]_vars => BaseInv'
<1>. SUFFICES ASSUME BaseInv, [Next]_vars PROVE BaseInv'
  OBVIOUS
<1>1. ASSUME NEW do, Does(do) PROVE BaseInv'
  BY <1>1, DoneFacts
<1>2. CASE UNCHANGED vars \/ Ended \/ Fail
  BY <1>2 DEF vars, Ended, Fail, BaseInv, Stages
<1>3. CASE NextStage
  BY <1>3, NextStageFacts
<1>4. CASE Crash \/ KillInWrite
  BY <1>4, RerunFacts DEF Crash, KillInWrite
<1>5. CASE \/ PutOnline \/ PutCipher \/ PutKey \/ WriteCarrier \/ DropUnusedKey \/ Drop
           \/ DestroyBackup \/ InstallControls \/ InstallTombstone \/ DestroyCarrier
  BY <1>1, <1>5 DEF PutOnline, PutCipher, PutKey, WriteCarrier, DropUnusedKey, Drop, DestroyBackup,
     InstallControls, InstallTombstone, DestroyCarrier, Writes
<1>6. CASE \/ ReadControls \/ RunWorkflow \/ Rebuild \/ Look \/ AuditNow \/ RefuseExisting
           \/ Create \/ Issue \/ Verify \/ Conclude
  BY <1>1, <1>6 DEF ReadControls, RunWorkflow, Rebuild, Look, AuditNow, RefuseExisting, Create,
     Issue, Verify, Conclude, Writes
<1>. QED  BY <1>2, <1>3, <1>4, <1>5, <1>6 DEF Next, TrialStep

LEMMA InitGenerations == Init => GenInv
<1>. SUFFICES ASSUME Init PROVE GenInv
  OBVIOUS
<1>1. key = [s \in SubjectIds |-> 0] /\ cipher = [s \in SubjectIds |-> 0]
  BY DEF Init
<1>2. /\ key \in [SubjectIds -> Int] /\ cipher \in [SubjectIds -> Int]
      /\ \A s \in SubjectIds : key[s] = 0 /\ cipher[s] = 0
  BY <1>1
<1>. QED  BY <1>2 DEF GenInv, Generations

\* For any subjects, trials and number of kills: wherever a backup is read, a key
\* that exists opens the ciphertext, although enroll replaces the two files one
\* after the other (storage_lab.py, RegisteredStoreLab.enroll).
THEOREM ReadersAlwaysSeeOneGeneration == Spec => []ReadersSeeOneGeneration
<1>1. Init => BaseInv /\ GenInv
  BY InitBase, InitGenerations
<1>2. BaseInv /\ GenInv => ReadersSeeOneGeneration
  <2>. SUFFICES ASSUME BaseInv, GenInv, NEW s \in SubjectIds, todo # <<>>, Op.who = s,
                       Op.do \in {"run", "look", "audit", "issue"}
                PROVE  ~ Undecipherable(s)
    BY DEF ReadersSeeOneGeneration
  <2>1. todo \in Seq(Operation) /\ PutsFirst(todo)
    BY TodoFacts
  <2>2. Op = todo[1] /\ 1 \in 1..Len(todo)
    BY <2>1 DEF Op
  <2>3. \A i \in 1..Len(todo) : todo[i].do # "put"
    <3>1. \A i \in 1..Len(todo) : i = 1 \/ 1 < i
      BY <2>1
    <3>. QED  BY <2>1, <2>2, <3>1 DEF PutsFirst, Readers
  <2>4. ~ Ahead("key", s)
    BY <2>3 DEF Ahead, Contains, PutOf
  <2>5. key[s] = 0 \/ (key[s] = cipher[s] /\ key[s] > 0)
    BY <2>4 DEF GenInv, Generations
  <2>. QED  BY <2>5 DEF Undecipherable, Opens
<1>3. BaseInv /\ GenInv /\ [Next]_vars => (BaseInv /\ GenInv)'
  BY StepBase, StepGenerations
<1>. QED  BY <1>1, <1>2, <1>3, PTL DEF Spec

-----------------------------------------------------------------------------
(* What the analysis says of the carriers.                                 *)

\* Every reactivation whose carrier is there is guarded.
Blocked(topology, chosen) ==
  \A t \in Reactivations \intersect topology.transitions :
    CarrierOf[t] \in topology.latent => t \in GuardIds(chosen)

Topology == [transitions : SUBSET TransitionIds, latent : SUBSET AllCarriers]

LEMMA WorkflowFacts ==
  /\ Reactivations \subseteq TransitionIds
  /\ \A t \in TransitionIds :
       /\ Workflows[t].requires \in SUBSET Facts /\ Workflows[t].requires # {}
       /\ Workflows[t].forbids = {} /\ Workflows[t].removes = {}
       /\ Workflows[t].adds \in SUBSET Online /\ Workflows[t].adds # {}
  /\ \A t \in Reactivations :
       Workflows[t].requires = {CarrierOf[t]} /\ CarrierOf[t] \in AllCarriers
  /\ \A t \in TransitionIds \ Reactivations : Workflows[t].requires \subseteq Online
  /\ \A t, u \in Reactivations : CarrierOf[t] = CarrierOf[u] => t = u
<1>. USE DEF BackupRestore, CheckpointRedeploy, LegacyImport, ModelRetrain, NightlyEtl, QueueReplay,
         VectorRebuild
<1>1. /\ Workflows[1] = Copies("carrier-backup", "postgres")
      /\ Workflows[2] = Copies("carrier-checkpoint", "model")
      /\ Workflows[3] = Copies("carrier-export", "postgres")
      /\ Workflows[4] = Copies("vector-index", "model")
      /\ Workflows[5] = Copies("postgres", "cache")
      /\ Workflows[6] = Copies("carrier-queue", "cache")
      /\ Workflows[7] = Copies("postgres", "vector-index")
  BY DEF Workflows
<1>2. /\ CarrierOf[1] = "carrier-backup" /\ CarrierOf[2] = "carrier-checkpoint"
      /\ CarrierOf[3] = "carrier-export" /\ CarrierOf[6] = "carrier-queue"
  BY DEF CarrierOf
<1>3. Reactivations = {1, 2, 3, 6} /\ TransitionIds \ Reactivations = {4, 5, 7}
      /\ TransitionIds = {1, 2, 3, 4, 5, 6, 7}
  BY DEF Reactivations, TransitionIds
<1>4. \A from, to : /\ Copies(from, to).requires = {from} /\ Copies(from, to).adds = {to}
                    /\ Copies(from, to).forbids = {} /\ Copies(from, to).removes = {}
  BY DEF Copies
<1>5. \A t \in {1, 2, 3, 6} :
        Workflows[t].requires = {CarrierOf[t]} /\ CarrierOf[t] \in AllCarriers
  BY <1>1, <1>2, <1>4 DEF AllCarriers
<1>6. \A t \in {4, 5, 7} : Workflows[t].requires \subseteq Online /\ Workflows[t].requires # {}
  <2>1. /\ Workflows[4].requires = {"vector-index"} /\ Workflows[5].requires = {"postgres"}
        /\ Workflows[7].requires = {"postgres"}
    BY <1>1, <1>4
  <2>. QED  BY <2>1 DEF Online
<1>7. \A t \in {1, 2, 3, 4, 5, 6, 7} :
        /\ Workflows[t].forbids = {} /\ Workflows[t].removes = {}
        /\ Workflows[t].adds \in SUBSET Online /\ Workflows[t].adds # {}
  <2>1. ASSUME NEW from, NEW to \in Online
        PROVE  /\ Copies(from, to).forbids = {} /\ Copies(from, to).removes = {}
               /\ Copies(from, to).adds \in SUBSET Online /\ Copies(from, to).adds # {}
    <3>1. Copies(from, to).adds = {to}
      BY DEF Copies
    <3>. QED  BY <2>1, <3>1 DEF Copies
  <2>2. \A to \in {"postgres", "model", "cache", "vector-index"} : to \in Online
    BY DEF Online
  <2>3. \A t \in {1, 2, 3, 4, 5, 6, 7} : \E from : \E to \in Online : Workflows[t] = Copies(from, to)
    BY <1>1, <2>2
  <2>. QED  BY <2>1, <2>3
<1>8. \A t, u \in {1, 2, 3, 6} : CarrierOf[t] = CarrierOf[u] => t = u
  BY <1>2
<1>9. Facts = Online \union AllCarriers
  BY DEF Facts
<1>. QED  BY <1>3, <1>5, <1>6, <1>7, <1>8, <1>9

\* A case of TemporalTransitions on the registered workflows.
IsCase(c) ==
  /\ c.workflows = Workflows /\ c.registered \in SUBSET TransitionIds
  /\ c.snapshot \in SUBSET AllCarriers

CaseBlocked(c) ==
  \A t \in Reactivations \intersect (c.registered \ c.guarded) : CarrierOf[t] \notin c.snapshot

LEMMA NoData ==
  ASSUME NEW s \in SUBSET AllCarriers
  PROVE  s \intersect Online = {}
BY DEF AllCarriers, Online

LEMMA NothingEnabled ==
  ASSUME NEW c, IsCase(c), CaseBlocked(c), NEW t \in c.registered \ c.guarded
  PROVE  ~ (Workflows[t].requires \subseteq c.snapshot)
<1>1. c.snapshot \intersect Online = {} /\ t \in TransitionIds
  BY NoData DEF IsCase
<1>2. CASE t \in Reactivations
  BY <1>1, <1>2, WorkflowFacts DEF CaseBlocked
<1>3. CASE t \notin Reactivations
  BY <1>1, <1>3, WorkflowFacts
<1>. QED  BY <1>2, <1>3

LEMMA SomethingEnabled ==
  ASSUME NEW c, IsCase(c), ~ CaseBlocked(c)
  PROVE  \E t \in c.registered \ c.guarded :
           /\ t \in TransitionIds
           /\ Workflows[t].requires \subseteq c.snapshot /\ Workflows[t].forbids = {}
           /\ Workflows[t].adds \intersect Online # {}
<1>1. PICK t \in Reactivations \intersect (c.registered \ c.guarded) : CarrierOf[t] \in c.snapshot
  BY DEF CaseBlocked
<1>. QED  BY <1>1, WorkflowFacts

LEMMA VerdictClean ==
  ASSUME NEW c, IsCase(c)
  PROVE  TT!StaysClean(c) <=> CaseBlocked(c)
<1>1. ASSUME TT!StaysClean(c), ~ CaseBlocked(c) PROVE FALSE
  <2>. DEFINE reached == TT!Reachable(c)
  <2>1. /\ c.snapshot \in reached /\ TT!Successors(c, reached) \subseteq reached
        /\ \A s \in reached : ~ TT!HoldsSubjectData(s)
    BY <1>1 DEF TT!StaysClean
  <2>2. PICK t \in c.registered \ c.guarded :
          /\ Workflows[t].requires \subseteq c.snapshot /\ Workflows[t].forbids = {}
          /\ Workflows[t].adds \intersect Online # {}
    BY <1>1, SomethingEnabled
  <2>. HIDE DEF reached
  <2>3. t \in TT!Unguarded(c) /\ TT!Enables(c.workflows[t], c.snapshot)
    BY <2>2 DEF TT!Unguarded, TT!Enables, IsCase
  <2>4. TT!Result(c.workflows[t], c.snapshot) \in TT!Successors(c, reached)
    BY <2>1, <2>3 DEF TT!Successors
  <2>5. TT!HoldsSubjectData(TT!Result(c.workflows[t], c.snapshot))
    BY <2>2 DEF TT!HoldsSubjectData, TT!Result, IsCase
  <2>. QED  BY <2>1, <2>4, <2>5
<1>2. ASSUME CaseBlocked(c) PROVE TT!StaysClean(c)
  <2>. DEFINE D == SUBSET Facts
              step == [states \in SUBSET D |-> TT!Successors(c, states)]
              Is(f) == f = [states \in SUBSET D |->
                              LET grown == states \union TT!Successors(c, states)
                              IN  IF grown = states THEN states ELSE f[grown]]
              closure == CHOOSE f : Is(f)
              start == {c.snapshot}
  <2>1. TT!Unguarded(c) = c.registered \ c.guarded /\ c.workflows = Workflows
        /\ c.registered \subseteq TransitionIds
    BY DEF TT!Unguarded, IsCase
  <2>2. \A t \in TransitionIds, s \in D : TT!Result(Workflows[t], s) \in D
    <3>1. Online \subseteq Facts
      BY DEF Facts
    <3>. QED  BY <3>1, WorkflowFacts DEF TT!Result
  <2>3. \A S \in SUBSET D : TT!Successors(c, S) \subseteq D /\ step[S] = TT!Successors(c, S)
    <3>. HIDE DEF D
    <3>. QED  BY <2>1, <2>2 DEF TT!Successors
  <2>4. \A R, S \in SUBSET D : R \subseteq S => step[R] \subseteq step[S]
    <3>1. \A R, S \in SUBSET D : R \subseteq S => TT!Successors(c, R) \subseteq TT!Successors(c, S)
      BY DEF TT!Successors
    <3>. HIDE DEF step
    <3>. QED  BY <2>3, <3>1
  <2>5. ASSUME NEW f PROVE Is(f) <=> Closes(D, step, f)
    BY DEF Closes
  <2>6. \E f : Closes(D, step, f)
    <3>. HIDE DEF D, step
    <3>. QED  BY <2>3, <2>4, ClosureExists
  <2>7. Is(closure)
    <3>. HIDE DEF D, step, Is
    <3>. QED  BY <2>5, <2>6
  <2>8. TT!Reachable(c) = closure[start]
    BY DEF TT!Reachable
  <2>9. start \in SUBSET D
    BY DEF IsCase, Facts
  <2>10. TT!Successors(c, start) = {}
    <3>1. \A t \in TT!Unguarded(c) : ~ TT!Enables(c.workflows[t], c.snapshot)
      BY <1>2, <2>1, NothingEnabled DEF TT!Enables
    <3>. QED  BY <3>1 DEF TT!Successors
  <2>11. closure[start] = start
    <3>. HIDE DEF D, step, closure, start
    <3>. QED  BY <2>7, <2>9, <2>10
  <2>12. ~ TT!HoldsSubjectData(c.snapshot)
    BY NoData DEF TT!HoldsSubjectData, IsCase
  <2>. HIDE DEF closure
  <2>. QED  BY <2>8, <2>10, <2>11, <2>12 DEF TT!StaysClean
<1>. QED  BY <1>1, <1>2

\* The abstract world has the same notion of a clean case.
LEMMA WorldClean ==
  ASSUME NEW c
  PROVE  World!StaysClean(c) <=> TT!StaysClean(c)
<1>1. \A S : World!Successors(c, S) = TT!Successors(c, S)
  BY DEF World!Successors, TT!Successors, World!Unguarded, TT!Unguarded,
     World!Enables, TT!Enables, World!Result, TT!Result
<1>2. World!Reachable(c) = TT!Reachable(c)
  BY DEF World!Reachable, TT!Reachable, World!Successors, TT!Successors, World!Unguarded,
     TT!Unguarded, World!Enables, TT!Enables, World!Result, TT!Result
<1>. QED  BY <1>1, <1>2 DEF World!StaysClean, TT!StaysClean, World!HoldsSubjectData, TT!HoldsSubjectData

LEMMA GuardFacts ==
  /\ \A chosen \in SUBSET Controls : GuardIds(chosen) \subseteq Reactivations
  /\ Reactivations \subseteq GuardIds({Tombstone})
  /\ {Tombstone} \in SUBSET Controls /\ GuardIds({}) = {}
<1>1. \A c \in Controls : Guarded[c] \subseteq Reactivations
  <2>1. \A c \in {1, 2, 3, 4, 5, 6} : Guarded[c] \subseteq Reactivations
    BY DEF Guarded, Reactivations, BackupRestore, CheckpointRedeploy, LegacyImport, QueueReplay
  <2>2. Controls = {1, 2, 3, 4, 5, 6}
    BY DEF Controls
  <2>. QED  BY <2>1, <2>2
<1>2. Guarded[Tombstone] = Reactivations /\ Tombstone \in Controls
  BY DEF Guarded, Tombstone, Controls
<1>. QED  BY <1>1, <1>2 DEF GuardIds

\* The verdict on a topology, when every transition is attested.
LEMMA ReportIs ==
  ASSUME NEW topology \in Topology, NEW chosen
  PROVE  Report(topology, chosen, 0) =
           IF Blocked(topology, chosen) THEN "RSE_VERIFIED" ELSE "REGENERATION_RISK"
<1>. DEFINE c == [workflows |-> Workflows, registered |-> topology.transitions,
                  guarded |-> GuardIds(chosen) \intersect topology.transitions,
                  snapshot |-> topology.latent,
                  requiredSensors |-> { SensorOf[t] : t \in topology.transitions },
                  observations |-> Coverage(topology.transitions, 0), running |-> topology.transitions]
<1>1. /\ c.workflows = Workflows /\ c.registered = topology.transitions
      /\ c.guarded = GuardIds(chosen) \intersect topology.transitions
      /\ c.snapshot = topology.latent
      /\ c.requiredSensors = { SensorOf[t] : t \in topology.transitions }
      /\ c.observations = Coverage(topology.transitions, 0)
  OBVIOUS
<1>2. Report(topology, chosen, 0) = TT!RSEVerdict(c)
  BY DEF Report
<1>. HIDE DEF c
<1>3. IsCase(c)
  BY <1>1 DEF IsCase, Topology
<1>4. CaseBlocked(c) <=> Blocked(topology, chosen)
  BY <1>1 DEF CaseBlocked, Blocked
<1>5. ~ TT!HoldsSubjectData(c.snapshot)
  BY <1>3, NoData DEF IsCase, TT!HoldsSubjectData
<1>6. TT!CoverageComplete(c)
  <2>1. \A t \in topology.transitions : (t # 0) = TRUE
    BY DEF Topology, TransitionIds
  <2>. DEFINE obs(t) == [sensor |-> SensorOf[t], transition |-> t, verified |-> t # 0]
  <2>2. c.observations = { obs(t) : t \in topology.transitions }
    BY <1>1 DEF Coverage
  <2>3. \A t : obs(t).sensor = SensorOf[t] /\ obs(t).transition = t /\ obs(t).verified = (t # 0)
    OBVIOUS
  <2>. HIDE DEF obs
  <2>4. \A o \in c.observations : o.verified
    BY <2>1, <2>2, <2>3
  <2>5. \A t \in c.registered : \E o \in c.observations : o.sensor = SensorOf[t] /\ o.transition = t
    BY <1>1, <2>2, <2>3
  <2>6. \A o \in c.observations : o.transition \in c.registered
    BY <1>1, <2>2, <2>3
  <2>7. TT!VerifiedObservations(c) = c.observations
    BY <2>4 DEF TT!VerifiedObservations
  <2>8. c.requiredSensors \subseteq TT!ReportingSensors(c)
    BY <1>1, <2>5, <2>7 DEF TT!ReportingSensors
  <2>. QED  BY <2>4, <2>5, <2>6, <2>7, <2>8 DEF TT!CoverageComplete
<1>. QED  BY <1>2, <1>3, <1>4, <1>5, <1>6, VerdictClean DEF TT!RSEVerdict

LEMMA ControlsFinite == \A S \in SUBSET Controls : IsFiniteSet(S)
<1>1. IsFiniteSet(1..6)
  <2>. DEFINE a == 1
              b == 6
  <2>1. a \in Int /\ b \in Int
    OBVIOUS
  <2>2. IsFiniteSet(a..b)
    <3>. HIDE DEF a, b
    <3>. QED  BY <2>1, FS_Interval
  <2>. QED  BY <2>2
<1>. QED  BY <1>1, FS_Subset DEF Controls

\* The plans are among the cheapest and smallest sets of controls that verify.
LEMMA PlanFacts ==
  ASSUME NEW topologies \in SUBSET Topology, NEW D \in SUBSET (SUBSET Controls),
         NEW cost \in [D -> Nat], {Tombstone} \in D
  PROVE  /\ PlanFor(topologies, cost) \in D
         /\ \A t \in topologies : Blocked(t, PlanFor(topologies, cost))
         /\ cost[PlanFor(topologies, cost)] <= cost[{Tombstone}]
<1>. DEFINE feasible == { S \in D : \A t \in topologies : Verifies(t, S) }
            Less(S, R) == \/ cost[S] < cost[R]
                          \/ cost[S] = cost[R] /\ Cardinality(S) < Cardinality(R)
            Minimal(S) == S \in feasible /\ \A R \in feasible : ~ Less(R, S)
            chosen == CHOOSE S \in feasible : \A R \in feasible : ~ Less(R, S)
<1>1. PlanFor(topologies, cost) = chosen
  BY DEF PlanFor
<1>2. \A t \in topologies, S \in D : Verifies(t, S) <=> Blocked(t, S)
  BY ReportIs DEF Verifies
<1>3. {Tombstone} \in feasible
  BY <1>2, GuardFacts DEF Blocked
<1>4. \A S \in feasible : cost[S] \in Nat /\ Cardinality(S) \in Nat
  <2>1. \A S \in SUBSET Controls : IsFiniteSet(S)
    BY ControlsFinite
  <2>. QED  BY <2>1, FS_CardinalityType
<1>. HIDE DEF feasible
<1>5. \E S : Minimal(S)
  <2>. DEFINE costs == { cost[S] : S \in feasible }
  <2>1. PICK least \in costs : \A m \in costs : least <= m
    <3>1. costs \in SUBSET Nat /\ costs # {}
      BY <1>3, <1>4
    <3>. HIDE DEF costs
    <3>. QED  BY <3>1, LeastNat
  <2>. DEFINE cheap == { S \in feasible : cost[S] = least }
              sizes == { Cardinality(S) : S \in cheap }
  <2>2. PICK fewest \in sizes : \A m \in sizes : fewest <= m
    <3>1. sizes \in SUBSET Nat /\ sizes # {}
      BY <1>4, <2>1
    <3>. HIDE DEF sizes
    <3>. QED  BY <3>1, LeastNat
  <2>3. PICK S \in cheap : Cardinality(S) = fewest
    BY <2>2
  <2>4. ASSUME NEW R \in feasible PROVE ~ Less(R, S)
    <3>1. cost[S] = least /\ least <= cost[R] /\ cost[R] \in Nat /\ least \in Nat
      BY <1>4, <2>1, <2>3, <2>4
    <3>2. cost[R] = least => fewest <= Cardinality(R)
      BY <2>2, <2>4
    <3>3. Cardinality(R) \in Nat /\ fewest \in Nat
      BY <1>4, <2>3, <2>4
    <3>. QED  BY <2>3, <3>1, <3>2, <3>3
  <2>5. Minimal(S)
    BY <2>3, <2>4
  <2>. HIDE DEF Minimal
  <2>. QED  BY <2>5
<1>6. Minimal(chosen)
  BY <1>5
<1>7. chosen \in feasible /\ ~ (cost[{Tombstone}] < cost[chosen])
  BY <1>3, <1>6
<1>8. cost[chosen] <= cost[{Tombstone}]
  BY <1>3, <1>4, <1>7
<1>9. chosen \in D /\ \A t \in topologies : Verifies(t, chosen)
  BY <1>7 DEF feasible
<1>. HIDE DEF chosen
<1>. QED  BY <1>1, <1>2, <1>8, <1>9

LEMMA CostFacts ==
  /\ CostOf \in [SUBSET Controls -> Nat]
  /\ SingleCost \in [SUBSET SingleControls -> Nat]
  /\ SingleCost[{Tombstone}] = 7 /\ SingleCost[{DestroyAll}] = 40
  /\ SingleCost[{DestroyAll, Tombstone}] = 47
<1>1. \A c \in Controls : Cost[c] \in Nat
  <2>1. \A c \in {1, 2, 3, 4, 5, 6} : Cost[c] \in Nat
    BY DEF Cost
  <2>2. Controls = {1, 2, 3, 4, 5, 6}
    BY DEF Controls
  <2>. QED  BY <2>1, <2>2
<1>2. SingleControls = {DestroyAll, Tombstone} /\ SingleControls \subseteq Controls
      /\ DestroyAll # Tombstone
  BY DEF SingleControls, DestroyAll, Tombstone, Controls
<1>3. SinglePrice[DestroyAll] = 40 /\ SinglePrice[Tombstone] = 7
  BY <1>2 DEF SinglePrice
<1>4. CostOf = [S \in SUBSET Controls |-> Total(Cost, S)]
  BY DEF CostOf, Total
<1>5. SingleCost = [S \in SUBSET SingleControls |-> Total(SinglePrice, S)]
  BY DEF SingleCost, Total
<1>6. \A S \in SUBSET Controls : Total(Cost, S) \in Nat
  BY <1>1, ControlsFinite, TotalType
<1>7. \A S \in SUBSET SingleControls : Total(SinglePrice, S) \in Nat
  <2>1. \A c \in SingleControls : SinglePrice[c] \in Nat
    BY <1>2, <1>3
  <2>. QED  BY <1>2, <2>1, ControlsFinite, TotalType
<1>8. Total(SinglePrice, {Tombstone}) = 7 /\ Total(SinglePrice, {DestroyAll}) = 40
  <2>1. SinglePrice[Tombstone] \in Nat /\ SinglePrice[DestroyAll] \in Nat
    BY <1>3
  <2>2. Total(SinglePrice, {Tombstone}) = SinglePrice[Tombstone]
    BY <2>1, TotalOfOne
  <2>3. Total(SinglePrice, {DestroyAll}) = SinglePrice[DestroyAll]
    BY <2>1, TotalOfOne
  <2>. QED  BY <1>3, <2>2, <2>3
<1>9. Total(SinglePrice, {DestroyAll} \union {Tombstone}) = 47
  <2>1. IsFiniteSet({DestroyAll}) /\ Tombstone \notin {DestroyAll}
        /\ \A c \in {DestroyAll} \union {Tombstone} : SinglePrice[c] \in Nat
    BY <1>2, <1>3, ControlsFinite
  <2>. QED  BY <1>3, <1>8, <2>1, TotalAdds
<1>10. {Tombstone} \in SUBSET SingleControls /\ {DestroyAll} \in SUBSET SingleControls
       /\ {DestroyAll, Tombstone} \in SUBSET SingleControls
       /\ {DestroyAll, Tombstone} = {DestroyAll} \union {Tombstone}
  BY <1>2
<1>. QED  BY <1>4, <1>5, <1>6, <1>7, <1>8, <1>9, <1>10

\* The plans of the trials guard every reactivation whose carrier is there.
LEMMA LatentPlans ==
  /\ \A latent \in SUBSET AllCarriers :
       RiskPlan[latent] \in SUBSET Controls /\ Blocked(Carriers(latent), RiskPlan[latent])
  /\ NominalPlan \in SUBSET Controls /\ Blocked(Scenario({}), NominalPlan)
  /\ RobustPlan \in SUBSET Controls /\ \A m \in Masks : Blocked(Scenario(m), RobustPlan)
<1>1. \A latent \in SUBSET AllCarriers : Carriers(latent) \in Topology
  BY DEF Carriers, Topology
<1>2. \A m \in Masks : Scenario(m) \in Topology
  <2>1. Always \subseteq TransitionIds /\ Optional \subseteq Reactivations
        /\ BackupRestore \in Reactivations
    BY DEF Always, Optional, Reactivations
  <2>. QED  BY <2>1, WorkflowFacts DEF Masks, Scenario, Topology
<1>3. /\ CostOf \in [SUBSET Controls -> Nat] /\ {Tombstone} \in SUBSET Controls
  BY CostFacts, GuardFacts
<1>4. \A topologies \in SUBSET Topology :
        /\ PlanFor(topologies, CostOf) \in SUBSET Controls
        /\ \A t \in topologies : Blocked(t, PlanFor(topologies, CostOf))
  BY <1>3, PlanFacts
<1>5. {} \in Masks
  BY DEF Masks
<1>. QED  BY <1>1, <1>2, <1>4, <1>5 DEF RiskPlan, NominalPlan, RobustPlan

\* The cheapest plan of the single case is a tombstone.
LEMMA SinglePlanIs == SinglePlan = {Tombstone}
<1>1. SingleCase \in Topology /\ BackupRestore \in SingleCase.transitions
      /\ "carrier-backup" \in SingleCase.latent /\ CarrierOf[BackupRestore] = "carrier-backup"
  BY DEF SingleCase, Topology, Always, AllCarriers, BackupRestore, TransitionIds, Optional,
     CheckpointRedeploy, LegacyImport, QueueReplay, CarrierOf
<1>2. /\ SinglePlan \in SUBSET SingleControls /\ Blocked(SingleCase, SinglePlan)
      /\ SingleCost[SinglePlan] <= SingleCost[{Tombstone}]
  <2>1. {SingleCase} \in SUBSET Topology /\ SUBSET SingleControls \in SUBSET (SUBSET Controls)
        /\ {Tombstone} \in SUBSET SingleControls
    BY <1>1 DEF SingleControls, Controls, DestroyAll, Tombstone
  <2>. QED  BY <2>1, CostFacts, PlanFacts DEF SinglePlan
<1>3. SinglePlan # {}
  BY <1>1, <1>2, GuardFacts DEF Blocked, Reactivations
<1>4. \A S \in SUBSET SingleControls :
        S = {} \/ S = {Tombstone} \/ S = {DestroyAll} \/ S = {DestroyAll, Tombstone}
  BY DEF SingleControls
<1>5. /\ SingleCost[{Tombstone}] = 7 /\ SingleCost[{DestroyAll}] = 40
      /\ SingleCost[{DestroyAll, Tombstone}] = 47
  BY CostFacts
<1>6. SinglePlan # {DestroyAll} /\ SinglePlan # {DestroyAll, Tombstone}
  BY <1>2, <1>5
<1>. QED  BY <1>2, <1>3, <1>4, <1>6

-----------------------------------------------------------------------------
(* The operations of the stages, one by one.                               *)

OpOf(verb, what, s) == [do |-> verb, what |-> what, who |-> s]

LEMMA StableWhen ==
  ASSUME NEW facts \in SUBSET AllCarriers, NEW guarded,
         \A t \in Reactivations : CarrierOf[t] \in facts => t \in guarded
  PROVE  World!Stable(facts, guarded)
<1>. DEFINE c == World!CaseFrom(facts, guarded)
<1>1. /\ c.workflows = Workflows /\ c.registered = TransitionIds
      /\ c.guarded = guarded /\ c.snapshot = facts
  BY DEF World!CaseFrom
<1>. HIDE DEF c
<1>2. IsCase(c) /\ CaseBlocked(c)
  BY <1>1 DEF IsCase, CaseBlocked
<1>3. World!StaysClean(c)
  BY <1>2, VerdictClean, WorldClean
<1>. QED  BY <1>3 DEF World!Stable, c

\* Every operation of A is followed by op; no operation of A is followed by op.
Follows(q, A, op) ==
  \A i \in 1..Len(q) : q[i] \in A => \E j \in 1..Len(q) : i < j /\ q[j] = op
Never(q, A, op) ==
  \A i, j \in 1..Len(q) : i < j /\ q[i] \in A => q[j] # op

LEMMA JoinSeq ==
  ASSUME NEW S, NEW p \in Seq(S), NEW q \in Seq(S)
  PROVE  p \o q \in Seq(S)
OBVIOUS

LEMMA JoinContains ==
  ASSUME NEW p \in Seq(Operation), NEW q \in Seq(Operation), NEW op,
         Contains(p, op) \/ Contains(q, op)
  PROVE  Contains(p \o q, op)
<1>. DEFINE r == p \o q
<1>1. /\ Len(p) \in Nat /\ Len(q) \in Nat /\ Len(r) = Len(p) + Len(q)
      /\ \A i \in 1..Len(p) : r[i] = p[i]
      /\ \A i \in 1..Len(q) : r[Len(p) + i] = q[i]
  BY JoinFacts
<1>. HIDE DEF r
<1>2. CASE Contains(p, op)
  <2>1. PICK j \in 1..Len(p) : p[j] = op
    BY <1>2 DEF Contains
  <2>2. j \in 1..Len(r) /\ r[j] = op
    BY <1>1, <2>1
  <2>. QED  BY <2>2 DEF Contains, r
<1>3. CASE Contains(q, op)
  <2>1. PICK j \in 1..Len(q) : q[j] = op
    BY <1>3 DEF Contains
  <2>2. Len(p) + j \in 1..Len(r) /\ r[Len(p) + j] = op
    BY <1>1, <2>1
  <2>. QED  BY <2>2 DEF Contains, r
<1>. QED  BY <1>2, <1>3

\* A part without operations of A that has op, or one that nothing is added to.
LEMMA JoinFollows ==
  ASSUME NEW p \in Seq(Operation), NEW q \in Seq(Operation), NEW A, NEW op,
         Contains(q, op) \/ Follows(p, A, op), Follows(q, A, op)
  PROVE  Follows(p \o q, A, op)
<1>. DEFINE r == p \o q
<1>1. /\ Len(p) \in Nat /\ Len(q) \in Nat /\ Len(r) = Len(p) + Len(q)
      /\ \A i \in 1..Len(p) : r[i] = p[i]
      /\ \A i \in 1..Len(q) : r[Len(p) + i] = q[i]
      /\ \A i \in 1..Len(r) : \/ i \in 1..Len(p) /\ r[i] = p[i]
                              \/ i - Len(p) \in 1..Len(q) /\ r[i] = q[i - Len(p)]
  BY JoinFacts
<1>. HIDE DEF r
<1>2. ASSUME NEW i \in 1..Len(r), r[i] \in A
      PROVE  \E j \in 1..Len(r) : i < j /\ r[j] = op
  <2>1. CASE i \in 1..Len(p) /\ r[i] = p[i] /\ Contains(q, op)
    <3>1. PICK j \in 1..Len(q) : q[j] = op
      BY <2>1 DEF Contains
    <3>2. Len(p) + j \in 1..Len(r) /\ i < Len(p) + j /\ r[Len(p) + j] = op
      BY <1>1, <2>1, <3>1
    <3>. QED  BY <3>2
  <2>2. CASE i \in 1..Len(p) /\ r[i] = p[i] /\ Follows(p, A, op)
    <3>1. PICK j \in 1..Len(p) : i < j /\ p[j] = op
      BY <1>2, <2>2 DEF Follows
    <3>2. j \in 1..Len(r) /\ r[j] = op
      BY <1>1, <3>1
    <3>. QED  BY <3>1, <3>2
  <2>3. CASE i - Len(p) \in 1..Len(q) /\ r[i] = q[i - Len(p)]
    <3>1. PICK j \in 1..Len(q) : i - Len(p) < j /\ q[j] = op
      BY <1>2, <2>3 DEF Follows
    <3>2. Len(p) + j \in 1..Len(r) /\ i < Len(p) + j /\ r[Len(p) + j] = op
      BY <1>1, <2>3, <3>1
    <3>. QED  BY <3>2
  <2>. QED  BY <1>1, <2>1, <2>2, <2>3
<1>. QED  BY <1>2 DEF Follows, r

LEMMA JoinNever ==
  ASSUME NEW p \in Seq(Operation), NEW q \in Seq(Operation), NEW A, NEW op,
         Never(p, A, op), Never(q, A, op),
         ~ Contains(q, op) \/ \A i \in 1..Len(p) : p[i] \notin A
  PROVE  Never(p \o q, A, op)
<1>. DEFINE r == p \o q
<1>1. /\ Len(p) \in Nat /\ Len(q) \in Nat /\ Len(r) = Len(p) + Len(q)
      /\ \A i \in 1..Len(r) : \/ i \in 1..Len(p) /\ r[i] = p[i]
                              \/ i - Len(p) \in 1..Len(q) /\ r[i] = q[i - Len(p)]
  BY JoinFacts
<1>. HIDE DEF r
<1>2. ASSUME NEW i \in 1..Len(r), NEW j \in 1..Len(r), i < j, r[i] \in A, r[j] = op
      PROVE  FALSE
  <2>1. CASE j \in 1..Len(p) /\ r[j] = p[j]
    <3>1. i \in 1..Len(p)
      BY <1>1, <1>2, <2>1
    <3>2. r[i] = p[i]
      BY <1>1, <3>1
    <3>. QED  BY <1>2, <2>1, <3>1, <3>2 DEF Never
  <2>2. CASE j - Len(p) \in 1..Len(q) /\ r[j] = q[j - Len(p)] /\ i \in 1..Len(p) /\ r[i] = p[i]
    BY <1>2, <2>2 DEF Contains
  <2>3. CASE /\ j - Len(p) \in 1..Len(q) /\ r[j] = q[j - Len(p)]
             /\ i - Len(p) \in 1..Len(q) /\ r[i] = q[i - Len(p)]
    <3>1. i - Len(p) < j - Len(p)
      BY <1>1, <1>2, <2>3
    <3>. QED  BY <1>2, <2>3, <3>1 DEF Never
  <2>. QED  BY <1>1, <2>1, <2>2, <2>3
<1>. QED  BY <1>2 DEF Never, r

\* Nothing follows what is not there.
LEMMA NoneOf ==
  ASSUME NEW S, NEW q \in Seq(S), NEW A, S \intersect A = {}
  PROVE  \A op : Follows(q, A, op) /\ Never(q, A, op) /\ \A i \in 1..Len(q) : q[i] \notin A
<1>1. \A i \in 1..Len(q) : q[i] \in S
  OBVIOUS
<1>. QED  BY <1>1 DEF Follows, Never

LEMMA NotContains ==
  ASSUME NEW S, NEW q \in Seq(S), NEW op, op \notin S
  PROVE  ~ Contains(q, op) /\ \A A : Never(q, A, op)
<1>1. \A i \in 1..Len(q) : q[i] \in S
  OBVIOUS
<1>. QED  BY <1>1 DEF Contains, Never

LEMMA EachSeq ==
  ASSUME NEW verb, NEW N, NEW names \in Seq(N), NEW who, NEW S,
         \A n \in N : OpOf(verb, n, who) \in S
  PROVE  /\ Each(verb, names, who) \in Seq(S)
         /\ \A i \in 1..Len(names) : Contains(Each(verb, names, who), OpOf(verb, names[i], who))
<1>. DEFINE q == Each(verb, names, who)
<1>1. /\ Len(names) \in Nat /\ DOMAIN names = 1..Len(names)
      /\ \A i \in 1..Len(names) : names[i] \in N
  OBVIOUS
<1>2. q = [i \in 1..Len(names) |-> OpOf(verb, names[i], who)]
  BY <1>1 DEF Each, OpOf
<1>. HIDE DEF q
<1>3. q \in Seq(S) /\ Len(q) = Len(names)
  BY <1>1, <1>2
<1>4. \A i \in 1..Len(names) : q[i] = OpOf(verb, names[i], who)
  BY <1>2
<1>5. \A i \in 1..Len(names) : Contains(q, OpOf(verb, names[i], who))
  BY <1>3, <1>4 DEF Contains
<1>. QED  BY <1>3, <1>5 DEF q

LEMMA OnceSeq ==
  ASSUME NEW verb, NEW who, NEW S, OpOf(verb, "all", who) \in S
  PROVE  Once(verb, who) \in Seq(S) /\ Contains(Once(verb, who), OpOf(verb, "all", who))
<1>. DEFINE names == <<"all">>
            N == {"all"}
<1>1. names \in Seq(N) /\ Len(names) = 1 /\ names[1] = "all" /\ \A n \in N : OpOf(verb, n, who) \in S
  OBVIOUS
<1>. HIDE DEF names, N
<1>2. /\ Each(verb, names, who) \in Seq(S)
      /\ \A i \in 1..Len(names) : Contains(Each(verb, names, who), OpOf(verb, names[i], who))
  BY <1>1, EachSeq
<1>3. 1 \in 1..Len(names)
  BY <1>1
<1>. QED  BY <1>1, <1>2, <1>3 DEF Once, names

\* The operations that the promise depends on.
Drops(x) == OpOf("drop", x, One)
DropsKey == OpOf("drop unused key", "all", One)
DestroysKey == OpOf("destroy key", "all", One)
InstallsControls == OpOf("install", "controls", One)
InstallsTombstone == OpOf("install", "tombstone", One)
RebuildsFirst == OpOf("rebuild", "vector-index", One)

RunOps == { op \in Operation : op.do = "run" }
ReplayOps == { op \in Operation : op.do \in {"read controls", "run", "rebuild", "look"} /\ op.who = One }

RebuildOps == { op \in Operation : op.do = "rebuild" }
ModelOps == { op \in Operation : op.do = "rebuild" /\ op.what = "model" }

\* A replay rebuilds the vector index after it has run the workflows, and the
\* model after that.
Replays(q) ==
  /\ q \in Seq(ReplayOps)
  /\ Contains(q, RebuildsFirst) /\ Follows(q, RunOps, RebuildsFirst)
  /\ Never(q, ModelOps, RebuildsFirst)

\* Whatever is put online is dropped.
Clears(q) ==
  \A x \in Online : Contains(q, Drops(x)) /\ Follows(q, {PutOf(x, One)}, Drops(x))

\* A key that nothing needs is dropped.
ForgetsKey(q) == Contains(q, DropsKey) /\ Follows(q, {PutOf("key", One)}, DropsKey)

LEMMA OpFacts ==
  ASSUME NEW verb \in Verbs, NEW what \in NamesOf(verb), NEW who \in SubjectIds
  PROVE  /\ OpOf(verb, what, who) \in Operation
         /\ OpOf(verb, what, who).do = verb /\ OpOf(verb, what, who).what = what
         /\ OpOf(verb, what, who).who = who
BY NamesFacts DEF OpOf, Operation

LEMMA SeqMore ==
  ASSUME NEW S, NEW T, S \subseteq T, NEW q \in Seq(S)
  PROVE  q \in Seq(T)
OBVIOUS

\* Operations of other verbs are not among those of A.
LEMMA UsesNone ==
  ASSUME NEW q, NEW verbs, Uses(q, verbs), NEW A, \A op \in A : op.do \notin verbs
  PROVE  \A op : Follows(q, A, op)
BY DEF Uses, Follows

LEMMA ReplayOpFacts ==
  /\ ReplayOps \subseteq Operation
  /\ \A n \in Reactivations : OpOf("run", n, One) \in ReplayOps \ RebuildOps
  /\ \A n \in Derivatives : OpOf("rebuild", n, One) \in ReplayOps \ RunOps
  /\ OpOf("read controls", "all", One) \in (ReplayOps \ RebuildOps) \ RunOps
  /\ OpOf("look", "all", One) \in (ReplayOps \ RebuildOps) \ RunOps
  /\ RebuildsFirst \in RebuildOps /\ ModelOps \subseteq RebuildOps
<1>1. /\ "run" \in Verbs /\ "rebuild" \in Verbs /\ "look" \in Verbs /\ "read controls" \in Verbs
      /\ "look" \notin {"run", "rebuild", "write"} /\ "read controls" \notin {"run", "rebuild", "write"}
  BY DEF Verbs
<1>2. "all" \in NamesOf("look") /\ "all" \in NamesOf("read controls")
  BY <1>1, NamesFacts DEF Names
<1>3. \A n \in Reactivations : OpOf("run", n, One) \in Operation
  BY <1>1, NamesFacts, SubjectFacts, OpFacts
<1>4. \A n \in Derivatives : OpOf("rebuild", n, One) \in Operation
  BY <1>1, NamesFacts, SubjectFacts, OpFacts
<1>5. OpOf("look", "all", One) \in Operation /\ OpOf("read controls", "all", One) \in Operation
  BY <1>1, <1>2, SubjectFacts, OpFacts
<1>6. \A verb, n : OpOf(verb, n, One).do = verb /\ OpOf(verb, n, One).who = One
  BY DEF OpOf
<1>7. \A n \in Reactivations : OpOf("run", n, One) \in ReplayOps \ RebuildOps
  <2>1. ASSUME NEW op \in Operation, op.do = "run", op.who = One PROVE op \in ReplayOps \ RebuildOps
    BY <2>1 DEF ReplayOps, RebuildOps
  <2>. QED  BY <1>3, <1>6, <2>1
<1>8. ASSUME NEW op \in Operation, op.do \in {"read controls", "rebuild", "look"}, op.who = One
      PROVE  op \in ReplayOps \ RunOps
  BY <1>8 DEF ReplayOps, RunOps
<1>9. /\ \A n \in Derivatives : OpOf("rebuild", n, One) \in ReplayOps \ RunOps
      /\ OpOf("look", "all", One) \in ReplayOps \ RunOps
      /\ OpOf("read controls", "all", One) \in ReplayOps \ RunOps
  <2>. DEFINE S == ReplayOps \ RunOps
              verbs == {"read controls", "rebuild", "look"}
  <2>1. "rebuild" \in verbs /\ "look" \in verbs /\ "read controls" \in verbs
    OBVIOUS
  <2>2. \A op \in Operation : op.do \in verbs /\ op.who = One => op \in S
    BY <1>8
  <2>. HIDE DEF S, verbs
  <2>. QED  BY <1>4, <1>5, <1>6, <2>1, <2>2 DEF S
<1>10. /\ OpOf("read controls", "all", One) \notin RebuildOps
       /\ OpOf("look", "all", One) \notin RebuildOps
  <2>1. \A op \in RebuildOps : op.do = "rebuild"
    BY DEF RebuildOps
  <2>2. OpOf("read controls", "all", One).do = "read controls"
    BY DEF OpOf
  <2>3. OpOf("look", "all", One).do = "look"
    BY DEF OpOf
  <2>4. OpOf("read controls", "all", One) \notin RebuildOps
    BY <2>1, <2>2
  <2>5. OpOf("look", "all", One) \notin RebuildOps
    BY <2>1, <2>3
  <2>. QED  BY <2>4, <2>5
<1>11. ReplayOps \subseteq Operation /\ ModelOps \subseteq RebuildOps
  BY DEF ReplayOps, ModelOps, RebuildOps
<1>12. RebuildsFirst \in RebuildOps
  <2>1. "vector-index" \in Derivatives
    BY DEF Derivatives
  <2>. QED  BY <1>4, <1>6, <2>1 DEF RebuildOps, RebuildsFirst
<1>. QED  BY <1>7, <1>9, <1>10, <1>11, <1>12

LEMMA JoinReplays ==
  ASSUME NEW p \in Seq(ReplayOps), NEW q \in Seq(ReplayOps),
         \/ p \in Seq(ReplayOps \ RebuildOps) /\ Replays(q)
         \/ Replays(p) /\ q \in Seq((ReplayOps \ RebuildOps) \ RunOps)
  PROVE  Replays(p \o q)
<1>1. p \in Seq(Operation) /\ q \in Seq(Operation)
  BY ReplayOpFacts, SeqMore
<1>2. p \o q \in Seq(ReplayOps)
  BY JoinSeq
<1>3. Contains(p \o q, RebuildsFirst)
  BY <1>1, JoinContains DEF Replays
<1>4. CASE p \in Seq(ReplayOps \ RebuildOps) /\ Replays(q)
  <2>1. Never(p, ModelOps, RebuildsFirst) /\ \A i \in 1..Len(p) : p[i] \notin ModelOps
    <3>1. (ReplayOps \ RebuildOps) \intersect ModelOps = {}
      BY ReplayOpFacts
    <3>. QED  BY <1>4, <3>1, NoneOf
  <2>2. Follows(p \o q, RunOps, RebuildsFirst)
    BY <1>1, <1>4, JoinFollows DEF Replays
  <2>3. Never(p \o q, ModelOps, RebuildsFirst)
    BY <1>1, <1>4, <2>1, JoinNever DEF Replays
  <2>. QED  BY <1>2, <1>3, <2>2, <2>3 DEF Replays
<1>5. CASE Replays(p) /\ q \in Seq((ReplayOps \ RebuildOps) \ RunOps)
  <2>. DEFINE S == (ReplayOps \ RebuildOps) \ RunOps
  <2>1. S \intersect RunOps = {} /\ RebuildsFirst \notin S
    BY ReplayOpFacts
  <2>2. q \in Seq(S)
    BY <1>5
  <2>. HIDE DEF S
  <2>3. Follows(q, RunOps, RebuildsFirst)
    BY <2>1, <2>2, NoneOf
  <2>4. ~ Contains(q, RebuildsFirst) /\ Never(q, ModelOps, RebuildsFirst)
    BY <2>1, <2>2, NotContains
  <2>5. Follows(p \o q, RunOps, RebuildsFirst)
    BY <1>1, <1>5, <2>3, JoinFollows DEF Replays
  <2>6. Never(p \o q, ModelOps, RebuildsFirst)
    BY <1>1, <1>5, <2>4, JoinNever DEF Replays
  <2>. QED  BY <1>2, <1>3, <2>5, <2>6 DEF Replays
<1>. QED  BY <1>4, <1>5

LEMMA RebuildFacts == Replays(Rebuilds(One))
<1>. DEFINE names == <<"vector-index", "cache", "model">>
            q == Each("rebuild", names, One)
            S == ReplayOps \ RunOps
<1>1. names \in Seq(Derivatives) /\ 1 \in 1..Len(names) /\ names[1] = "vector-index"
  BY DEF Derivatives
<1>2. \A n \in Derivatives : OpOf("rebuild", n, One) \in S
  BY ReplayOpFacts
<1>. HIDE DEF names, S
<1>3. q \in Seq(S) /\ Contains(q, RebuildsFirst)
  BY <1>1, <1>2, EachSeq DEF RebuildsFirst
<1>4. S \subseteq ReplayOps /\ S \intersect RunOps = {}
  BY DEF S
<1>5. Never(q, ModelOps, RebuildsFirst)
  <2>1. \A i \in DOMAIN q : i \in {1, 2, 3} /\ q[i] = OpOf("rebuild", names[i], One)
    BY DEF Each, OpOf, names
  <2>2. DOMAIN q = 1..Len(q)
    BY <1>3
  <2>3. names[2] # "model" /\ names[1] # "model" /\ names[2] # "vector-index" /\ names[3] # "vector-index"
    BY DEF names
  <2>. HIDE DEF q
  <2>4. \A i \in 1..Len(q) : q[i] \in ModelOps => i = 3
    <3>1. \A i \in 1..Len(q) : q[i] \in ModelOps => names[i] = "model"
      BY <2>1, <2>2 DEF ModelOps, OpOf
    <3>. QED  BY <2>1, <2>2, <2>3, <3>1
  <2>5. \A i \in 1..Len(q) : q[i] = RebuildsFirst => i = 1
    <3>1. \A i \in 1..Len(q) : q[i] = RebuildsFirst => names[i] = "vector-index"
      BY <2>1, <2>2 DEF RebuildsFirst, OpOf
    <3>. QED  BY <2>1, <2>2, <2>3, <3>1
  <2>. QED  BY <2>4, <2>5 DEF Never
<1>. HIDE DEF q
<1>6. q \in Seq(ReplayOps) /\ Follows(q, RunOps, RebuildsFirst)
  BY <1>3, <1>4, SeqMore, NoneOf
<1>7. Rebuilds(One) = q
  BY DEF Rebuilds, q, names
<1>. QED  BY <1>3, <1>5, <1>6, <1>7 DEF Replays

\* The replays of the trials.
LEMMA ReplayFacts ==
  /\ Replays(Replay(One))
  /\ Replays(Each("run", <<BackupRestore>>, One) \o Rebuilds(One) \o Once("look", One))
<1>. DEFINE a == Once("read controls", One)
            b == Each("run", <<BackupRestore, LegacyImport, QueueReplay, CheckpointRedeploy>>, One)
            c == Rebuilds(One)
            d == Once("look", One)
            e == Each("run", <<BackupRestore>>, One)
            S == (ReplayOps \ RebuildOps) \ RunOps
            R == ReplayOps \ RebuildOps
<1>1. /\ <<BackupRestore, LegacyImport, QueueReplay, CheckpointRedeploy>> \in Seq(Reactivations)
      /\ <<BackupRestore>> \in Seq(Reactivations)
  BY DEF Reactivations
<1>2. b \in Seq(R) /\ e \in Seq(R)
  BY <1>1, ReplayOpFacts, EachSeq
<1>3. a \in Seq(S) /\ d \in Seq(S)
  BY ReplayOpFacts, OnceSeq
<1>4. S \subseteq ReplayOps /\ R \subseteq ReplayOps /\ S \subseteq R
  OBVIOUS
<1>5. Replays(c) /\ c \in Seq(ReplayOps)
  BY RebuildFacts DEF Replays
<1>. HIDE DEF a, b, c, d, e
<1>6. a \o b \in Seq(R) /\ e \in Seq(R)
  <2>. HIDE DEF R, S
  <2>. QED  BY <1>2, <1>3, <1>4, JoinSeq, SeqMore
<1>7. a \o b \in Seq(ReplayOps) /\ e \in Seq(ReplayOps) /\ d \in Seq(ReplayOps)
  <2>. HIDE DEF R, S
  <2>. QED  BY <1>3, <1>4, <1>6, SeqMore
<1>8. Replays((a \o b) \o c) /\ Replays(e \o c)
  BY <1>5, <1>6, <1>7, JoinReplays
<1>9. (a \o b) \o c \in Seq(ReplayOps) /\ e \o c \in Seq(ReplayOps)
  BY <1>8 DEF Replays
<1>10. Replays(((a \o b) \o c) \o d) /\ Replays((e \o c) \o d)
  BY <1>3, <1>7, <1>8, <1>9, JoinReplays
<1>. QED  BY <1>10 DEF a, b, c, d, e, Replay

LEMMA DropFacts ==
  /\ DropOnline(One) \in Seq(Operation) /\ Uses(DropOnline(One), {"drop"})
  /\ \A x \in Online : Contains(DropOnline(One), Drops(x))
<1>. DEFINE names == <<"postgres", "vector-index", "cache", "model">>
            q == Each("drop", names, One)
<1>1. names \in Seq(Online) /\ Len(names) = 4 /\ \A x \in Online : \E i \in 1..4 : names[i] = x
  <2>1. /\ names[1] = "postgres" /\ names[2] = "vector-index" /\ names[3] = "cache"
        /\ names[4] = "model" /\ Len(names) = 4
    OBVIOUS
  <2>2. names \in Seq(Online)
    BY DEF Online
  <2>. HIDE DEF names
  <2>. QED  BY <2>1, <2>2 DEF Online
<1>2. \A n \in Online : OpOf("drop", n, One) \in Operation
  <2>1. "drop" \in Verbs /\ Online \subseteq NamesOf("drop")
    BY NamesFacts DEF Verbs, Names
  <2>. QED  BY <2>1, OpFacts, SubjectFacts
<1>. HIDE DEF names
<1>3. \A i \in 1..Len(names) : Contains(q, OpOf("drop", names[i], One))
  BY <1>1, <1>2, EachSeq
<1>4. DropOnline(One) = q
  BY DEF DropOnline, names
<1>. HIDE DEF q
<1>. QED  BY <1>1, <1>3, <1>4, Parts, SubjectFacts DEF Drops

\* A stage that ends with the drops clears; one without puts does too.
LEMMA ClearsWhen ==
  ASSUME NEW p \in Seq(Operation)
  PROVE  Clears(DropOnline(One)) /\ Clears(p \o DropOnline(One))
<1>. DEFINE q == DropOnline(One)
<1>1. q \in Seq(Operation) /\ \A x \in Online : Contains(q, Drops(x))
  BY DropFacts
<1>2. \A x \in Online : Follows(q, {PutOf(x, One)}, Drops(x))
  <2>1. \A x : \A op \in {PutOf(x, One)} : op.do \notin {"drop"}
    BY DEF PutOf
  <2>. QED  BY <2>1, DropFacts, UsesNone
<1>. HIDE DEF q
<1>3. \A x \in Online : Contains(p \o q, Drops(x))
  BY <1>1, JoinContains
<1>4. \A x \in Online : Follows(p \o q, {PutOf(x, One)}, Drops(x))
  BY <1>1, <1>2, JoinFollows
<1>5. Clears(q) /\ Clears(p \o q)
  BY <1>1, <1>2, <1>3, <1>4 DEF Clears
<1>. QED  BY <1>5 DEF q

LEMMA ConstructFacts ==
  /\ Construct.does \in Seq(Operation) /\ Uses(Construct.does, Writing)
  /\ Clears(Construct.does) /\ ForgetsKey(Construct.does)
<1>. DEFINE a == Enroll(One)
            b == Each("write", <<"carrier-export", "carrier-queue", "carrier-checkpoint">>, One)
            c == Once("drop unused key", One)
            d == DropOnline(One)
            A == {PutOf("key", One)}
<1>1. a \in Seq(Operation) /\ Uses(a, Writing)
  BY EnrollFacts, SubjectFacts
<1>2. b \in Seq(Operation) /\ Uses(b, {"write"})
  <2>1. <<"carrier-export", "carrier-queue", "carrier-checkpoint">> \in Seq(NamesOf("write"))
    BY NamesFacts DEF LatentFiles, AllCarriers
  <2>2. "write" \in Verbs
    BY DEF Verbs
  <2>. QED  BY <2>1, <2>2, EachUses, SubjectFacts
<1>3. c \in Seq(Operation) /\ Uses(c, {"drop unused key"}) /\ Contains(c, DropsKey)
  <2>1. /\ "drop unused key" \in Verbs \ {"run", "rebuild", "write"}
        /\ "all" \in NamesOf("drop unused key")
    <3>1. "drop unused key" \in Verbs \ {"run", "rebuild", "write"}
      BY DEF Verbs
    <3>. QED  BY <3>1, NamesFacts DEF Names
  <2>2. OpOf("drop unused key", "all", One) \in Operation
    BY <2>1, OpFacts, SubjectFacts
  <2>3. Contains(c, DropsKey)
    BY <2>2, OnceSeq DEF DropsKey
  <2>. QED  BY <2>1, <2>3, OnceUses, SubjectFacts
<1>4. d \in Seq(Operation) /\ Uses(d, {"drop"})
  BY DropFacts
<1>5. /\ Uses(b, Writing) /\ Uses(c, Writing) /\ Uses(d, Writing)
  <2>1. {"write"} \subseteq Writing /\ {"drop unused key"} \subseteq Writing /\ {"drop"} \subseteq Writing
    BY DEF Writing
  <2>. HIDE DEF b, c, d
  <2>2. Uses(b, Writing)
    BY <1>2, <2>1, UsesMore
  <2>3. Uses(c, Writing)
    BY <1>3, <2>1, UsesMore
  <2>4. Uses(d, Writing)
    BY <1>4, <2>1, UsesMore
  <2>. QED  BY <2>2, <2>3, <2>4
<1>6. /\ Follows(c, A, DropsKey) /\ Follows(d, A, DropsKey)
  <2>1. \A op \in A : op.do = "put"
    BY DEF PutOf
  <2>. HIDE DEF A, c, d
  <2>2. \A op \in A : op.do \notin {"drop unused key"} /\ op.do \notin {"drop"}
    BY <2>1
  <2>. QED  BY <1>3, <1>4, <2>2, UsesNone
<1>7. Construct.does = a \o (b \o c) \o d
  BY DEF Construct, Stage, WriteCarriers
<1>. HIDE DEF a, b, c, d, A
<1>8. b \o c \in Seq(Operation) /\ Uses(b \o c, Writing) /\ Contains(b \o c, DropsKey)
  BY <1>2, <1>3, <1>5, JoinUses, JoinContains
<1>9. /\ a \o (b \o c) \in Seq(Operation) /\ Uses(a \o (b \o c), Writing)
      /\ Contains(a \o (b \o c), DropsKey)
  BY <1>1, <1>8, JoinUses, JoinContains
<1>10. /\ (a \o (b \o c)) \o d \in Seq(Operation) /\ Uses((a \o (b \o c)) \o d, Writing)
       /\ Contains((a \o (b \o c)) \o d, DropsKey)
  BY <1>4, <1>5, <1>9, JoinUses, JoinContains
<1>11. \/ Follows(b, A, DropsKey)
  <2>1. \A op \in A : op.do \notin {"write"}
    BY DEF PutOf, A
  <2>. QED  BY <1>2, <2>1, UsesNone
<1>12. Follows(b \o c, A, DropsKey)
  BY <1>2, <1>3, <1>6, JoinFollows
<1>13. Follows(a \o (b \o c), A, DropsKey)
  BY <1>1, <1>8, <1>12, JoinFollows
<1>14. Follows((a \o (b \o c)) \o d, A, DropsKey)
  BY <1>4, <1>6, <1>9, <1>13, JoinFollows
<1>15. Clears((a \o (b \o c)) \o d)
  BY <1>9, ClearsWhen DEF d
<1>. QED  BY <1>7, <1>10, <1>14, <1>15 DEF ForgetsKey, A

DeletionVerbs == {"drop", "destroy key", "audit", "issue", "verify"}
\* Operations of the pilot that leave the first subject alone.
SparingOps ==
  { op \in Operation : op.do = "conclude" \/ (op.do \in DeletionVerbs /\ op.who # One) }

\* The subjects are different.
LEMMA SubjectsDiffer == \A i, j \in 1..Len(Subjects) : Subjects[i] = Subjects[j] => i = j
<1>. DEFINE n == Len(Subjects)
            D == 1..n
<1>1. n \in Nat /\ DOMAIN Subjects = D /\ Subjects = [i \in D |-> Subjects[i]]
  BY SubjectsAssumption
<1>2. SubjectIds = { Subjects[i] : i \in D }
  BY <1>1 DEF SubjectIds
<1>3. Cardinality(SubjectIds) = n
  BY <1>1, <1>2, SubjectsAssumption
<1>4. Subjects \in Surjection(D, SubjectIds)
  <2>. HIDE DEF D
  <2>1. Subjects \in [D -> SubjectIds]
    BY <1>1, <1>2
  <2>. QED  BY <1>2, <2>1 DEF Surjection
<1>5. IsFiniteSet(D) /\ Cardinality(D) = n
  <2>. DEFINE a == 1
  <2>1. a \in Int /\ n \in Int
    BY <1>1
  <2>2. IsFiniteSet(a..n) /\ Cardinality(a..n) = IF a > n THEN 0 ELSE n - a + 1
    <3>. HIDE DEF a, n
    <3>. QED  BY <2>1, FS_Interval
  <2>3. (IF a > n THEN 0 ELSE n - a + 1) = n
    <3>. HIDE DEF n
    <3>. QED  BY <1>1
  <2>. QED  BY <2>2, <2>3
<1>6. Subjects \in Injection(D, SubjectIds)
  <2>. HIDE DEF D
  <2>. QED  BY <1>3, <1>4, <1>5, FS_SurjSameCardinalityImpliesInj
<1>7. \A i, j \in D : Subjects[i] = Subjects[j] => i = j
  <2>. HIDE DEF D
  <2>. QED  BY <1>6 DEF Injection, IsInjective
<1>. QED  BY <1>7

DeletionOps(s) == { op \in Operation : op.do \in DeletionVerbs /\ op.who = s }

LEMMA DeletionOpFacts ==
  ASSUME NEW s \in SubjectIds
  PROVE  /\ DeletionOps(s) \subseteq Operation
         /\ \A x \in Online : OpOf("drop", x, s) \in DeletionOps(s)
         /\ \A verb \in DeletionVerbs : OpOf(verb, "all", s) \in DeletionOps(s)
<1>1. \A verb, n : OpOf(verb, n, s).do = verb /\ OpOf(verb, n, s).who = s
  BY DEF OpOf
<1>2. "drop" \in DeletionVerbs /\ DeletionVerbs \subseteq Verbs \ {"run", "rebuild", "write"}
  BY DEF DeletionVerbs, Verbs
<1>3. Online \subseteq NamesOf("drop") /\ \A verb \in DeletionVerbs : "all" \in NamesOf(verb)
  BY <1>2, NamesFacts DEF Names
<1>4. \A x \in Online : OpOf("drop", x, s) \in Operation
  BY <1>2, <1>3, OpFacts
<1>5. \A verb \in DeletionVerbs : OpOf(verb, "all", s) \in Operation
  BY <1>2, <1>3, OpFacts
<1>6. ASSUME NEW x \in Online PROVE OpOf("drop", x, s) \in DeletionOps(s)
  BY <1>1, <1>2, <1>4 DEF DeletionOps
<1>7. ASSUME NEW verb \in DeletionVerbs PROVE OpOf(verb, "all", s) \in DeletionOps(s)
  BY <1>1, <1>5 DEF DeletionOps
<1>8. DeletionOps(s) \subseteq Operation
  BY DEF DeletionOps
<1>. QED  BY <1>6, <1>7, <1>8

\* A deletion drops every store of its subject and destroys the key.
LEMMA DeletionFacts ==
  ASSUME NEW s \in SubjectIds
  PROVE  /\ Deletion(s) \in Seq(DeletionOps(s))
         /\ \A x \in Online : Contains(Deletion(s), OpOf("drop", x, s))
         /\ Contains(Deletion(s), OpOf("destroy key", "all", s))
<1>. DEFINE S == DeletionOps(s)
            first == <<"postgres">>
            second == <<"vector-index", "cache">>
            third == <<"model">>
            a == Each("drop", first, s)
            b == Once("audit", s)
            c == Each("drop", second, s)
            d == Once("destroy key", s)
            e == Each("drop", third, s)
            f == Once("issue", s)
            g == Once("verify", s)
<1>1. /\ first \in Seq(Online) /\ Len(first) = 1 /\ first[1] = "postgres"
      /\ second \in Seq(Online) /\ Len(second) = 2 /\ second[1] = "vector-index" /\ second[2] = "cache"
      /\ third \in Seq(Online) /\ Len(third) = 1 /\ third[1] = "model"
  BY DEF Online
<1>2. S \subseteq Operation /\ \A n \in Online : OpOf("drop", n, s) \in S
  BY DeletionOpFacts
<1>. HIDE DEF S, first, second, third
<1>3. /\ a \in Seq(S) /\ c \in Seq(S) /\ e \in Seq(S)
      /\ \A i \in 1..Len(first) : Contains(a, OpOf("drop", first[i], s))
      /\ \A i \in 1..Len(second) : Contains(c, OpOf("drop", second[i], s))
      /\ \A i \in 1..Len(third) : Contains(e, OpOf("drop", third[i], s))
  BY <1>1, <1>2, EachSeq
<1>4. /\ Contains(a, OpOf("drop", "postgres", s)) /\ Contains(c, OpOf("drop", "vector-index", s))
      /\ Contains(c, OpOf("drop", "cache", s)) /\ Contains(e, OpOf("drop", "model", s))
  <2>1. 1 \in 1..Len(first) /\ 1 \in 1..Len(second) /\ 2 \in 1..Len(second) /\ 1 \in 1..Len(third)
    BY <1>1
  <2>. QED  BY <1>1, <1>3, <2>1
<1>5. /\ b \in Seq(S) /\ d \in Seq(S) /\ f \in Seq(S) /\ g \in Seq(S)
      /\ Contains(d, OpOf("destroy key", "all", s))
  <2>1. /\ OpOf("audit", "all", s) \in S /\ OpOf("destroy key", "all", s) \in S
        /\ OpOf("issue", "all", s) \in S /\ OpOf("verify", "all", s) \in S
    <3>1. /\ "audit" \in DeletionVerbs /\ "destroy key" \in DeletionVerbs
          /\ "issue" \in DeletionVerbs /\ "verify" \in DeletionVerbs
      BY DEF DeletionVerbs
    <3>. QED  BY <3>1, DeletionOpFacts DEF S
  <2>. QED  BY <2>1, OnceSeq
<1>6. Deletion(s) = a \o b \o (c \o d \o e) \o b \o f \o g
  BY DEF Deletion, Audit, Remediate, first, second, third
<1>. HIDE DEF a, b, c, d, e, f, g
<1>. DEFINE p1 == a \o b
            r == (c \o d) \o e
            p2 == p1 \o r
            p3 == p2 \o b
            p4 == p3 \o f
            p5 == p4 \o g
<1>7. /\ c \o d \in Seq(S) /\ r \in Seq(S) /\ p1 \in Seq(S) /\ p2 \in Seq(S) /\ p3 \in Seq(S)
      /\ p4 \in Seq(S) /\ p5 \in Seq(S)
  BY <1>3, <1>5, JoinSeq
<1>8. \A q \in Seq(S) : q \in Seq(Operation)
  BY <1>2, SeqMore
<1>9. ASSUME NEW op, Contains(a, op) \/ Contains(r, op) PROVE Contains(p5, op)
  <2>1. Contains(a, op) => Contains(p1, op)
    BY <1>3, <1>5, <1>8, JoinContains
  <2>. HIDE DEF p1, r
  <2>2. Contains(p2, op)
    BY <1>7, <1>8, <1>9, <2>1, JoinContains
  <2>. HIDE DEF p2
  <2>3. Contains(p3, op)
    BY <1>5, <1>7, <1>8, <2>2, JoinContains
  <2>. HIDE DEF p3
  <2>4. Contains(p4, op)
    BY <1>5, <1>7, <1>8, <2>3, JoinContains
  <2>. HIDE DEF p4
  <2>. QED  BY <1>5, <1>7, <1>8, <2>4, JoinContains
<1>10. ASSUME NEW op, Contains(c, op) \/ Contains(d, op) \/ Contains(e, op) PROVE Contains(r, op)
  <2>1. Contains(c, op) \/ Contains(d, op) => Contains(c \o d, op)
    BY <1>3, <1>5, <1>8, JoinContains
  <2>. QED  BY <1>3, <1>7, <1>8, <1>10, <2>1, JoinContains
<1>11. Deletion(s) = p5
  BY <1>6
<1>12. \A x \in Online : x = "postgres" \/ x = "vector-index" \/ x = "cache" \/ x = "model"
  BY DEF Online
<1>. HIDE DEF p5, r
<1>. QED  BY <1>4, <1>5, <1>7, <1>9, <1>10, <1>11, <1>12 DEF S

LEMMA DeletionClears ==
  Clears(Deletion(One)) /\ Contains(Deletion(One), DestroysKey) /\ Uses(Deletion(One), DeletionVerbs)
<1>. DEFINE q == Deletion(One)
<1>1. /\ q \in Seq(DeletionOps(One)) /\ \A x \in Online : Contains(q, Drops(x))
      /\ Contains(q, DestroysKey)
  BY DeletionFacts, SubjectFacts DEF Drops, DestroysKey
<1>. HIDE DEF q
<1>2. Uses(q, DeletionVerbs)
  <2>1. \A i \in 1..Len(q) : q[i] \in DeletionOps(One)
    BY <1>1
  <2>. QED  BY <2>1 DEF Uses, DeletionOps
<1>3. \A x \in Online : Follows(q, {PutOf(x, One)}, Drops(x))
  <2>1. \A x : \A op \in {PutOf(x, One)} : op.do \notin DeletionVerbs
    <3>1. "put" \notin DeletionVerbs /\ \A x : PutOf(x, One).do = "put"
      BY DEF PutOf, DeletionVerbs
    <3>. QED  BY <3>1
  <2>. QED  BY <1>2, <2>1, UsesNone
<1>. QED  BY <1>1, <1>2, <1>3 DEF Clears, q

LEMMA InstallFacts ==
  /\ Uses(Install(One), {"install"})
  /\ Contains(Install(One), InstallsControls) /\ Contains(Install(One), InstallsTombstone)
<1>. DEFINE names == <<"controls", "tombstone", "key", "carrier-export", "carrier-queue",
                       "carrier-checkpoint">>
            q == Each("install", names, One)
<1>1. names \in Seq(Names) /\ Len(names) = 6 /\ names[1] = "controls" /\ names[2] = "tombstone"
  BY DEF Names, AllCarriers
<1>2. \A n \in Names : OpOf("install", n, One) \in Operation
  <2>1. "install" \in Verbs
    BY DEF Verbs
  <2>. QED  BY <2>1, NamesFacts, OpFacts, SubjectFacts
<1>. HIDE DEF names
<1>3. \A i \in 1..Len(names) : Contains(q, OpOf("install", names[i], One))
  BY <1>1, <1>2, EachSeq
<1>4. 1 \in 1..Len(names) /\ 2 \in 1..Len(names)
  BY <1>1
<1>5. Install(One) = q
  BY DEF Install, names
<1>. HIDE DEF q
<1>6. Contains(q, InstallsControls) /\ Contains(q, InstallsTombstone)
  BY <1>1, <1>3, <1>4 DEF InstallsControls, InstallsTombstone
<1>. QED  BY <1>5, <1>6, Parts, SubjectFacts

\* The trial of temporal_lab.py installs a tombstone only.
SingleInstall == Each("install", <<"tombstone">>, One)

LEMMA SingleInstallFacts ==
  /\ Uses(SingleInstall, {"install"}) /\ Contains(SingleInstall, InstallsTombstone)
  /\ SingleInstall \in Seq({InstallsTombstone})
<1>. DEFINE names == <<"tombstone">>
            N == {"tombstone"}
            S == {InstallsTombstone}
<1>1. names \in Seq(N) /\ Len(names) = 1 /\ names[1] = "tombstone"
  OBVIOUS
<1>2. \A n \in N : OpOf("install", n, One) \in S
  BY DEF InstallsTombstone
<1>. HIDE DEF names, S, N
<1>3. /\ Each("install", names, One) \in Seq(S)
      /\ \A i \in 1..Len(names) : Contains(Each("install", names, One), OpOf("install", names[i], One))
  BY <1>1, <1>2, EachSeq
<1>4. 1 \in 1..Len(names)
  BY <1>1
<1>5. SingleInstall \in Seq(S) /\ Contains(SingleInstall, InstallsTombstone)
  BY <1>1, <1>3, <1>4 DEF SingleInstall, names, InstallsTombstone
<1>6. Uses(SingleInstall, {"install"})
  <2>1. \A i \in 1..Len(SingleInstall) : SingleInstall[i] \in S
    BY <1>5
  <2>2. InstallsTombstone.do = "install"
    BY DEF InstallsTombstone, OpOf
  <2>. QED  BY <2>1, <2>2 DEF Uses, S
<1>. QED  BY <1>5, <1>6 DEF S

-----------------------------------------------------------------------------
(* How the stages of a trial lead to its promise.                          *)

SetUp == Verbs \ {"run", "rebuild", "issue", "verify", "conclude"}

\* The stage that empties the online stores for the promise.
ClearStage(t) ==
  CASE t.kind = "risk" -> 3
    [] t.kind = "shift" -> 6
    [] t.kind = "single" -> 3
    [] t.kind = "pilot" -> 2
    [] OTHER -> 1

\* The plan stops every reactivation whose carrier the trial may leave.
Covers(t, plan) ==
  \/ Tombstone \in plan
  \/ /\ t.kind # "single"
     /\ \A u \in Reactivations : CarrierOf[u] \in LatentOf(t) => u \in GuardIds(plan)

\* A stage prepares, or replays the workflows, or spares the first subject.
StageIs(t, x) ==
  /\ x.plan \in SUBSET Controls
  /\ \/ x.mode = "preparing" /\ Uses(x.does, SetUp)
     \/ x.mode = "preparing" /\ t.kind = "pilot" /\ Uses(x.does, DeletionVerbs)
     \/ x.mode \in {"running", "promised"} /\ t.kind # "pilot" /\ Replays(x.does)
     \/ x.mode = "promised" /\ t.kind = "pilot" /\ x.does \in Seq(SparingOps)

\* A promise follows the clearing of the stores, and the installation of a plan
\* if the trial has one.
Orderly(t, p) ==
  /\ p[1].mode = "preparing"
  /\ \A i \in 1..Len(p) :
       /\ StageIs(t, p[i])
       /\ p[i].mode = "promised" =>
            \/ t.kind = "pilot" /\ i > 2
            \/ t.kind \notin {"pilot", "storage"} /\ i = ClearStage(t) + 2 /\ i = Len(p)
       /\ t.kind = "pilot" => p[i].mode = IF i > 2 THEN "promised" ELSE "preparing"

Empties(t, p) ==
  t.kind # "storage" =>
    /\ ClearStage(t) \in 1..Len(p)
    /\ p[ClearStage(t)].mode = "preparing" /\ Clears(p[ClearStage(t)].does)

Controlled(t, p) ==
  t.kind \notin {"pilot", "storage"} =>
    LET x == p[ClearStage(t) + 1]
    IN  /\ ClearStage(t) + 1 \in 1..Len(p)
        /\ x.mode = "preparing" /\ Uses(x.does, {"install"}) /\ Covers(t, x.plan)
        /\ Contains(x.does, InstallsTombstone)
        /\ t.kind # "single" => Contains(x.does, InstallsControls)

Forgets(t, p) ==
  /\ "carrier-backup" \in LatentOf(t) \/ ForgetsKey(p[1].does)
  /\ t.kind = "pilot" => Uses(p[2].does, DeletionVerbs) /\ Contains(p[2].does, DestroysKey)

\* The trial of temporal_lab.py knows no controls.
InstallsNoControls(q) == \A j \in 1..Len(q) : q[j].do = "install" => q[j].what = "tombstone"
NoControls(t, p) == t.kind = "single" => \A i \in 1..Len(p) : InstallsNoControls(p[i].does)

Planned(t, p) ==
  Orderly(t, p) /\ Empties(t, p) /\ Controlled(t, p) /\ Forgets(t, p) /\ NoControls(t, p)

LEMMA SetUpFacts ==
  /\ {"drop"} \subseteq SetUp /\ {"install"} \subseteq SetUp /\ Writing \subseteq SetUp
  /\ Enrolling \subseteq SetUp /\ {"look"} \subseteq SetUp
BY DEF SetUp, Verbs, Writing, Enrolling

LEMMA StageRoles ==
  /\ /\ Construct.mode = "preparing" /\ Construct.plan = {} /\ Uses(Construct.does, SetUp)
     /\ Clears(Construct.does) /\ ForgetsKey(Construct.does)
  /\ /\ Reset.mode = "preparing" /\ Reset.plan = {} /\ Uses(Reset.does, SetUp)
     /\ Clears(Reset.does) /\ Uses(Reset.does, {"drop"})
  /\ \A mode : ReplayAs(mode).mode = mode /\ ReplayAs(mode).plan = {} /\ Replays(ReplayAs(mode).does)
  /\ \A plan : /\ InstallPlan(plan).mode = "preparing" /\ InstallPlan(plan).plan = plan
               /\ Uses(InstallPlan(plan).does, SetUp) /\ Uses(InstallPlan(plan).does, {"install"})
               /\ Contains(InstallPlan(plan).does, InstallsTombstone)
               /\ Contains(InstallPlan(plan).does, InstallsControls)
<1>1. /\ Construct.mode = "preparing" /\ Construct.plan = {}
      /\ Reset.mode = "preparing" /\ Reset.plan = {} /\ Reset.does = DropOnline(One)
      /\ \A mode : /\ ReplayAs(mode).mode = mode /\ ReplayAs(mode).plan = {}
                   /\ ReplayAs(mode).does = Replay(One)
      /\ \A plan : /\ InstallPlan(plan).mode = "preparing" /\ InstallPlan(plan).plan = plan
                   /\ InstallPlan(plan).does = Install(One)
  BY DEF Construct, Reset, ReplayAs, InstallPlan, Stage
<1>2. Uses(Construct.does, SetUp) /\ Clears(Construct.does) /\ ForgetsKey(Construct.does)
  BY ConstructFacts, SetUpFacts, UsesMore
<1>3. Uses(DropOnline(One), {"drop"}) /\ Uses(DropOnline(One), SetUp) /\ Clears(DropOnline(One))
  <2>1. <<>> \in Seq(Operation)
    OBVIOUS
  <2>. QED  BY <2>1, DropFacts, SetUpFacts, UsesMore, ClearsWhen
<1>4. /\ Uses(Install(One), {"install"}) /\ Uses(Install(One), SetUp)
      /\ Contains(Install(One), InstallsTombstone) /\ Contains(Install(One), InstallsControls)
  BY InstallFacts, SetUpFacts, UsesMore
<1>5. Replays(Replay(One))
  BY ReplayFacts
<1>. QED  BY <1>1, <1>2, <1>3, <1>4, <1>5

LEMMA NoPlan == {} \in SUBSET Controls /\ {Tombstone} \in SUBSET Controls
BY GuardFacts

LEMMA RiskPlanned ==
  ASSUME NEW t \in Trials, t.kind = "risk"
  PROVE  Planned(t, Program(t))
<1>. DEFINE a == Construct
            b == ReplayAs("running")
            c == Reset
            d == InstallPlan(RiskPlan[t.latent])
            e == ReplayAs("promised")
            p == << a, b, c, d, e >>
<1>1. Program(t) = p /\ LatentOf(t) = t.latent /\ t.latent \in SUBSET AllCarriers /\ ClearStage(t) = 3
  BY TrialsAssumption DEF Program, RiskTrial, LatentOf, Trial, ClearStage
<1>2. /\ a.mode = "preparing" /\ a.plan = {} /\ Uses(a.does, SetUp) /\ ForgetsKey(a.does)
      /\ b.mode = "running" /\ b.plan = {} /\ Replays(b.does)
      /\ c.mode = "preparing" /\ c.plan = {} /\ Uses(c.does, SetUp) /\ Clears(c.does)
      /\ d.mode = "preparing" /\ d.plan = RiskPlan[t.latent] /\ Uses(d.does, SetUp)
      /\ Uses(d.does, {"install"})
      /\ Contains(d.does, InstallsTombstone) /\ Contains(d.does, InstallsControls)
      /\ e.mode = "promised" /\ e.plan = {} /\ Replays(e.does)
  BY StageRoles
<1>3. RiskPlan[t.latent] \in SUBSET Controls /\ Covers(t, RiskPlan[t.latent])
  <2>1. RiskPlan[t.latent] \in SUBSET Controls /\ Blocked(Carriers(t.latent), RiskPlan[t.latent])
    BY <1>1, LatentPlans
  <2>2. Carriers(t.latent).transitions = TransitionIds /\ Carriers(t.latent).latent = t.latent
    BY DEF Carriers
  <2>. QED  BY <1>1, <2>1, <2>2, WorkflowFacts DEF Blocked, Covers
<1>. HIDE DEF a, b, c, d, e
<1>4. /\ Len(p) = 5 /\ p[1] = a /\ p[2] = b /\ p[3] = c /\ p[4] = d /\ p[5] = e
      /\ \A i \in 1..5 : i = 1 \/ i = 2 \/ i = 3 \/ i = 4 \/ i = 5
  OBVIOUS
<1>. HIDE DEF p
<1>5. /\ StageIs(t, a) /\ StageIs(t, b) /\ StageIs(t, c) /\ StageIs(t, d) /\ StageIs(t, e)
  BY <1>2, <1>3, NoPlan DEF StageIs
<1>6. Orderly(t, p)
  BY <1>1, <1>2, <1>4, <1>5 DEF Orderly
<1>7. Empties(t, p)
  BY <1>1, <1>2, <1>4 DEF Empties
<1>8. Controlled(t, p)
  BY <1>1, <1>2, <1>3, <1>4 DEF Controlled
<1>9. Forgets(t, p) /\ NoControls(t, p)
  BY <1>2, <1>4 DEF Forgets, NoControls
<1>. QED  BY <1>1, <1>6, <1>7, <1>8, <1>9 DEF Planned

LEMMA ShiftPlanned ==
  ASSUME NEW t \in Trials, t.kind = "shift"
  PROVE  Planned(t, Program(t))
<1>. DEFINE a == Construct
            b == ReplayAs("running")
            c == Reset
            d == InstallPlan(NominalPlan)
            e == InstallPlan(RobustPlan)
            f == ReplayAs("promised")
            p == << a, b, c, d, b, c, e, f >>
<1>1. /\ Program(t) = p /\ LatentOf(t) = Scenario(t.mask).latent /\ t.mask \in Masks
      /\ ClearStage(t) = 6
  BY TrialsAssumption DEF Program, RobustPhysicalTrial, LatentOf, Trial, ClearStage, Masks
<1>2. /\ a.mode = "preparing" /\ a.plan = {} /\ Uses(a.does, SetUp) /\ ForgetsKey(a.does)
      /\ b.mode = "running" /\ b.plan = {} /\ Replays(b.does)
      /\ c.mode = "preparing" /\ c.plan = {} /\ Uses(c.does, SetUp) /\ Clears(c.does)
      /\ d.mode = "preparing" /\ d.plan = NominalPlan /\ Uses(d.does, SetUp)
      /\ e.mode = "preparing" /\ e.plan = RobustPlan /\ Uses(e.does, SetUp)
      /\ Uses(e.does, {"install"})
      /\ Contains(e.does, InstallsTombstone) /\ Contains(e.does, InstallsControls)
      /\ f.mode = "promised" /\ f.plan = {} /\ Replays(f.does)
  BY StageRoles
<1>3. NominalPlan \in SUBSET Controls /\ RobustPlan \in SUBSET Controls /\ Covers(t, RobustPlan)
  <2>1. /\ NominalPlan \in SUBSET Controls /\ RobustPlan \in SUBSET Controls
        /\ Blocked(Scenario(t.mask), RobustPlan)
    BY <1>1, LatentPlans
  <2>2. /\ Scenario(t.mask).transitions = Always \union t.mask
        /\ Scenario(t.mask).latent = { CarrierOf[u] : u \in t.mask \union {BackupRestore} }
    BY DEF Scenario
  <2>3. t.mask \subseteq Reactivations /\ BackupRestore \in Reactivations /\ BackupRestore \in Always
    BY <1>1 DEF Masks, Optional, Reactivations, Always, TransitionIds, BackupRestore,
       CheckpointRedeploy, LegacyImport, QueueReplay
  <2>4. ASSUME NEW u \in Reactivations, CarrierOf[u] \in LatentOf(t) PROVE u \in GuardIds(RobustPlan)
    <3>1. PICK w \in t.mask \union {BackupRestore} : CarrierOf[u] = CarrierOf[w]
      BY <1>1, <2>2, <2>4
    <3>2. u = w
      BY <2>3, <3>1, WorkflowFacts
    <3>3. u \in Always \union t.mask
      BY <2>3, <3>1, <3>2
    <3>. QED  BY <1>1, <2>1, <2>2, <2>4, <3>3 DEF Blocked
  <2>. QED  BY <2>1, <2>4 DEF Covers
<1>. HIDE DEF a, b, c, d, e, f
<1>4. /\ Len(p) = 8 /\ p[1] = a /\ p[2] = b /\ p[3] = c /\ p[4] = d /\ p[5] = b /\ p[6] = c
      /\ p[7] = e /\ p[8] = f
      /\ \A i \in 1..8 : i = 1 \/ i = 2 \/ i = 3 \/ i = 4 \/ i = 5 \/ i = 6 \/ i = 7 \/ i = 8
  OBVIOUS
<1>. HIDE DEF p
<1>5. /\ StageIs(t, a) /\ StageIs(t, b) /\ StageIs(t, c) /\ StageIs(t, d) /\ StageIs(t, e)
      /\ StageIs(t, f)
  BY <1>2, <1>3, NoPlan DEF StageIs
<1>6. Orderly(t, p)
  BY <1>1, <1>2, <1>4, <1>5 DEF Orderly
<1>7. Empties(t, p)
  BY <1>1, <1>2, <1>4 DEF Empties
<1>8. Controlled(t, p)
  BY <1>1, <1>2, <1>3, <1>4 DEF Controlled
<1>9. Forgets(t, p) /\ NoControls(t, p)
  BY <1>2, <1>4 DEF Forgets, NoControls
<1>. QED  BY <1>1, <1>6, <1>7, <1>8, <1>9 DEF Planned

LEMMA SafePlanned ==
  ASSUME NEW t \in Trials, t.kind \in {"safe", "coverage"}
  PROVE  Planned(t, Program(t))
<1>. DEFINE a == Construct
            b == InstallPlan({Tombstone})
            c == ReplayAs("promised")
            p == << a, b, c >>
            q == << a, b >>
<1>1. /\ t.kind = "safe" => Program(t) = p
      /\ t.kind = "coverage" => Program(t) = q
      /\ t.kind \notin {"single", "pilot", "storage"} /\ ClearStage(t) = 1
  BY DEF Program, SafeTrial, CoverageFaultTrial, ClearStage
<1>2. /\ a.mode = "preparing" /\ a.plan = {} /\ Uses(a.does, SetUp) /\ ForgetsKey(a.does)
      /\ Clears(a.does)
      /\ b.mode = "preparing" /\ b.plan = {Tombstone} /\ Uses(b.does, SetUp)
      /\ Uses(b.does, {"install"})
      /\ Contains(b.does, InstallsTombstone) /\ Contains(b.does, InstallsControls)
      /\ c.mode = "promised" /\ c.plan = {} /\ Replays(c.does)
  BY StageRoles
<1>3. Covers(t, {Tombstone})
  BY DEF Covers
<1>. HIDE DEF a, b, c
<1>4. /\ Len(p) = 3 /\ p[1] = a /\ p[2] = b /\ p[3] = c
      /\ Len(q) = 2 /\ q[1] = a /\ q[2] = b
      /\ \A i \in 1..3 : i = 1 \/ i = 2 \/ i = 3
      /\ \A i \in 1..2 : i = 1 \/ i = 2
  OBVIOUS
<1>. HIDE DEF p, q
<1>5. StageIs(t, a) /\ StageIs(t, b) /\ StageIs(t, c)
  BY <1>1, <1>2, NoPlan DEF StageIs
<1>6. Orderly(t, p) /\ Orderly(t, q)
  BY <1>1, <1>2, <1>4, <1>5 DEF Orderly
<1>7. Empties(t, p) /\ Empties(t, q)
  BY <1>1, <1>2, <1>4 DEF Empties
<1>8. Controlled(t, p) /\ Controlled(t, q)
  BY <1>1, <1>2, <1>3, <1>4 DEF Controlled
<1>9. Forgets(t, p) /\ NoControls(t, p) /\ Forgets(t, q) /\ NoControls(t, q)
  BY <1>1, <1>2, <1>4 DEF Forgets, NoControls
<1>10. Planned(t, p) /\ Planned(t, q)
  BY <1>6, <1>7, <1>8, <1>9 DEF Planned
<1>. QED  BY <1>1, <1>10

LEMMA NoInstall ==
  ASSUME NEW q, NEW verbs, Uses(q, verbs), "install" \notin verbs
  PROVE  InstallsNoControls(q)
BY DEF Uses, InstallsNoControls

LEMMA SinglePlanned ==
  ASSUME NEW t \in Trials, t.kind = "single"
  PROVE  Planned(t, Program(t))
<1>. DEFINE q == Each("run", <<BackupRestore>>, One) \o Rebuilds(One) \o Once("look", One)
            w == Enroll(One) \o DropOnline(One) \o Once("look", One)
            a == Stage("preparing", {}, w)
            b == Stage("running", {}, q)
            c == Reset
            d == Stage("preparing", SinglePlan, SingleInstall)
            e == Stage("promised", {}, q)
            p == << a, b, c, d, e >>
<1>1. /\ Program(t) = p /\ LatentOf(t) = {"carrier-backup"} /\ ClearStage(t) = 3
  BY DEF Program, TemporalLabTrial, LatentOf, ClearStage, SingleInstall
<1>2. Uses(w, SetUp) /\ InstallsNoControls(w)
  <2>. DEFINE x == Enroll(One)
              y == DropOnline(One)
              z == Once("look", One)
              verbs == Writing \union {"look"}
  <2>1. Writing \subseteq verbs /\ {"drop"} \subseteq verbs /\ {"look"} \subseteq verbs
        /\ verbs \subseteq SetUp /\ "install" \notin verbs
        /\ "look" \in Verbs \ {"run", "rebuild", "write"} /\ "look" \in verbs
    BY DEF Writing, SetUp, Verbs
  <2>2. x \in Seq(Operation) /\ Uses(x, Writing)
    BY EnrollFacts, SubjectFacts
  <2>3. y \in Seq(Operation) /\ Uses(y, {"drop"})
    BY DropFacts
  <2>4. z \in Seq(Operation) /\ Uses(z, verbs)
    BY <2>1, OnceUses, SubjectFacts
  <2>5. Uses(x, verbs) /\ Uses(y, verbs)
    BY <2>1, <2>2, <2>3, UsesMore
  <2>. HIDE DEF x, y, z, verbs
  <2>6. x \o y \in Seq(Operation) /\ Uses(x \o y, verbs)
    BY <2>2, <2>3, <2>5, JoinUses
  <2>7. Uses((x \o y) \o z, verbs)
    BY <2>4, <2>6, JoinUses
  <2>8. Uses((x \o y) \o z, SetUp) /\ InstallsNoControls((x \o y) \o z)
    BY <2>1, <2>7, UsesMore, NoInstall
  <2>. QED  BY <2>8 DEF x, y, z
<1>3. Replays(q) /\ InstallsNoControls(q)
  <2>1. Replays(q)
    BY ReplayFacts
  <2>. HIDE DEF q
  <2>2. \A i \in 1..Len(q) : q[i] \in ReplayOps
    BY <2>1 DEF Replays
  <2>. QED  BY <2>1, <2>2 DEF InstallsNoControls, ReplayOps
<1>4. /\ Uses(SingleInstall, {"install"}) /\ Contains(SingleInstall, InstallsTombstone)
      /\ Uses(SingleInstall, SetUp) /\ InstallsNoControls(SingleInstall)
  <2>1. \A i \in 1..Len(SingleInstall) : SingleInstall[i] = InstallsTombstone
    BY SingleInstallFacts
  <2>2. InstallsTombstone.what = "tombstone"
    BY DEF InstallsTombstone, OpOf
  <2>. QED  BY <2>1, <2>2, SingleInstallFacts, SetUpFacts, UsesMore DEF InstallsNoControls
<1>. HIDE DEF w, q
<1>5. /\ a.mode = "preparing" /\ a.plan = {} /\ Uses(a.does, SetUp)
      /\ b.mode = "running" /\ b.plan = {} /\ Replays(b.does)
      /\ d.mode = "preparing" /\ d.plan = {Tombstone} /\ Uses(d.does, SetUp)
      /\ Uses(d.does, {"install"}) /\ Contains(d.does, InstallsTombstone)
      /\ e.mode = "promised" /\ e.plan = {} /\ Replays(e.does)
      /\ InstallsNoControls(a.does) /\ InstallsNoControls(b.does) /\ InstallsNoControls(d.does)
      /\ InstallsNoControls(e.does)
  BY <1>2, <1>3, <1>4, SinglePlanIs DEF Stage
<1>6. /\ c.mode = "preparing" /\ c.plan = {} /\ Uses(c.does, SetUp) /\ Clears(c.does)
      /\ InstallsNoControls(c.does)
  <2>1. "install" \notin {"drop"}
    OBVIOUS
  <2>. QED  BY <2>1, StageRoles, NoInstall
<1>7. Covers(t, {Tombstone})
  BY DEF Covers
<1>. HIDE DEF a, b, c, d, e
<1>8. /\ Len(p) = 5 /\ p[1] = a /\ p[2] = b /\ p[3] = c /\ p[4] = d /\ p[5] = e
      /\ \A i \in 1..5 : i = 1 \/ i = 2 \/ i = 3 \/ i = 4 \/ i = 5
  OBVIOUS
<1>. HIDE DEF p
<1>9. /\ StageIs(t, a) /\ StageIs(t, b) /\ StageIs(t, c) /\ StageIs(t, d) /\ StageIs(t, e)
  BY <1>5, <1>6, NoPlan DEF StageIs
<1>10. Orderly(t, p)
  BY <1>1, <1>5, <1>6, <1>8, <1>9 DEF Orderly
<1>11. Empties(t, p)
  BY <1>1, <1>6, <1>8 DEF Empties
<1>12. Controlled(t, p)
  BY <1>1, <1>5, <1>7, <1>8 DEF Controlled
<1>13. Forgets(t, p)
  BY <1>1 DEF Forgets
<1>14. NoControls(t, p)
  BY <1>5, <1>6, <1>8 DEF NoControls
<1>. QED  BY <1>1, <1>10, <1>11, <1>12, <1>13, <1>14 DEF Planned

LEMMA StorageUses ==
  Uses(CreateOutput \o Enroll(One) \o Each("drop", <<"postgres">>, One)
         \o Audit(One) \o Remediate(One) \o Audit(One), SetUp)
<1>. DEFINE o == CreateOutput
            a == Enroll(One)
            b == Each("drop", <<"postgres">>, One)
            c == Audit(One)
            d == Remediate(One)
<1>1. /\ {"refuse existing", "create"} \subseteq SetUp /\ {"audit"} \subseteq SetUp
      /\ {"drop", "destroy key"} \subseteq SetUp /\ "drop" \in SetUp /\ "drop" \in Verbs
      /\ Writing \subseteq SetUp /\ <<"postgres">> \in Seq(NamesOf("drop"))
  <2>1. "postgres" \in NamesOf("drop")
    BY NamesFacts DEF Names, Online
  <2>. QED  BY <2>1 DEF SetUp, Verbs, Writing
<1>2. o \in Seq(Operation) /\ Uses(o, SetUp)
  BY <1>1, CreateFacts, UsesMore
<1>3. a \in Seq(Operation) /\ Uses(a, SetUp)
  BY <1>1, SubjectFacts, EnrollFacts, UsesMore
<1>4. b \in Seq(Operation) /\ Uses(b, SetUp)
  BY <1>1, SubjectFacts, EachUses
<1>5. c \in Seq(Operation) /\ Uses(c, SetUp)
  <2>1. c \in Seq(Operation) /\ Uses(c, {"audit"})
    BY SubjectFacts, Parts
  <2>. QED  BY <1>1, <2>1, UsesMore
<1>6. d \in Seq(Operation) /\ Uses(d, SetUp)
  <2>1. d \in Seq(Operation) /\ Uses(d, {"drop", "destroy key"})
    BY SubjectFacts, Parts
  <2>. QED  BY <1>1, <2>1, UsesMore
<1>. HIDE DEF o, a, b, c, d
<1>7. o \o a \in Seq(Operation) /\ Uses(o \o a, SetUp)
  BY <1>2, <1>3, JoinUses
<1>8. (o \o a) \o b \in Seq(Operation) /\ Uses((o \o a) \o b, SetUp)
  BY <1>4, <1>7, JoinUses
<1>9. (o \o a \o b) \o c \in Seq(Operation) /\ Uses((o \o a \o b) \o c, SetUp)
  BY <1>5, <1>8, JoinUses
<1>10. (o \o a \o b \o c) \o d \in Seq(Operation) /\ Uses((o \o a \o b \o c) \o d, SetUp)
  BY <1>6, <1>9, JoinUses
<1>11. Uses((o \o a \o b \o c \o d) \o c, SetUp)
  BY <1>5, <1>10, JoinUses
<1>. QED  BY <1>11 DEF o, a, b, c, d

LEMMA StoragePlanned ==
  ASSUME NEW t \in Trials, t.kind = "storage"
  PROVE  Planned(t, Program(t))
<1>. DEFINE q == CreateOutput \o Enroll(One) \o Each("drop", <<"postgres">>, One)
                   \o Audit(One) \o Remediate(One) \o Audit(One)
            a == Stage("preparing", {}, q)
            p == << a >>
<1>1. Program(t) = p /\ LatentOf(t) = {"carrier-backup"}
  BY DEF Program, RegisteredStorageTrial, LatentOf
<1>2. a.mode = "preparing" /\ a.plan = {} /\ Uses(a.does, SetUp)
  <2>1. a.does = q /\ a.mode = "preparing" /\ a.plan = {}
    BY DEF Stage
  <2>2. Uses(q, SetUp)
    BY StorageUses
  <2>. HIDE DEF a, q
  <2>. QED  BY <2>1, <2>2
<1>. HIDE DEF a
<1>3. /\ Len(p) = 1 /\ p[1] = a /\ \A i \in 1..1 : i = 1
  OBVIOUS
<1>. HIDE DEF p
<1>4. StageIs(t, a)
  BY <1>2, NoPlan DEF StageIs
<1>5. Orderly(t, p)
  BY <1>2, <1>3, <1>4 DEF Orderly
<1>. QED  BY <1>1, <1>5 DEF Planned, Empties, Controlled, Forgets, NoControls

LEMMA PilotPlanned ==
  ASSUME NEW t \in Trials, t.kind = "pilot"
  PROVE  Planned(t, Program(t))
<1>. DEFINE p == PilotTrial
<1>1. Program(t) = p /\ LatentOf(t) = {"carrier-backup"} /\ ClearStage(t) = 2
  BY DEF Program, LatentOf, ClearStage
<1>2. /\ Deletions \in Nat /\ 1 <= Deletions /\ Len(p) = Deletions + 2
      /\ \A i \in 1..Deletions : Subjects[i] \in SubjectIds
      /\ \A i \in 2..Deletions : Subjects[i] # One
  BY SubjectFacts, PilotFacts, SubjectsDiffer DEF One
<1>3. p[1].mode = "preparing" /\ StageIs(t, p[1])
  <2>1. p[1].mode = "preparing" /\ p[1].plan = {} /\ p[1].does = EnrollAll
    BY PilotFacts DEF Stage
  <2>2. Uses(EnrollAll, SetUp)
    BY EnrollAllFacts, SetUpFacts, UsesMore
  <2>. QED  BY <2>1, <2>2, NoPlan DEF StageIs
<1>4. /\ p[2].mode = "preparing" /\ StageIs(t, p[2]) /\ Clears(p[2].does)
      /\ Uses(p[2].does, DeletionVerbs) /\ Contains(p[2].does, DestroysKey)
  <2>1. p[2] = DeletionStage(1)
    BY <1>2, PilotFacts
  <2>2. p[2].mode = "preparing" /\ p[2].plan = {} /\ p[2].does = Deletion(One)
    BY <2>1 DEF DeletionStage, Stage, One
  <2>3. Uses(Deletion(One), DeletionVerbs)
    BY DeletionClears
  <2>. QED  BY <2>2, <2>3, DeletionClears, NoPlan DEF StageIs
<1>5. ASSUME NEW i \in 3..Len(p) PROVE p[i].mode = "promised" /\ StageIs(t, p[i])
  <2>1. i = Deletions + 2 \/ (i - 1 \in 2..Deletions /\ i = (i - 1) + 1)
    BY <1>2
  <2>2. CASE i = Deletions + 2
    <3>1. p[i].mode = "promised" /\ p[i].plan = {} /\ p[i].does = ConcludeStage.does
      BY <2>2, PilotFacts DEF ConcludeStage, Stage
    <3>2. ConcludeStage.does \in Seq(SparingOps)
      <4>1. OpOf("conclude", "all", One) \in SparingOps
        <5>1. "conclude" \in Verbs /\ "all" \in NamesOf("conclude")
          <6>1. "conclude" \in Verbs \ {"run", "rebuild", "write"}
            BY DEF Verbs
          <6>. QED  BY <6>1, NamesFacts DEF Names
        <5>2. OpOf("conclude", "all", One) \in Operation /\ OpOf("conclude", "all", One).do = "conclude"
          BY <5>1, OpFacts, SubjectFacts DEF OpOf
        <5>. QED  BY <5>2 DEF SparingOps
      <4>2. ConcludeStage.does = Once("conclude", One)
        BY DEF ConcludeStage, Stage
      <4>. QED  BY <4>1, <4>2, OnceSeq
    <3>. QED  BY <3>1, <3>2, NoPlan DEF StageIs
  <2>3. CASE i - 1 \in 2..Deletions
    <3>. DEFINE s == Subjects[i - 1]
    <3>1. i - 1 \in 1..Deletions /\ i - 1 # 1
      BY <1>2, <2>3
    <3>2. p[i] = DeletionStage(i - 1)
      <4>1. (i - 1) + 1 = i
        BY <1>2
      <4>. QED  BY <3>1, <4>1, PilotFacts
    <3>3. p[i].mode = "promised" /\ p[i].plan = {} /\ p[i].does = Deletion(s)
      BY <3>1, <3>2 DEF DeletionStage, Stage
    <3>4. s \in SubjectIds /\ s # One
      BY <1>2, <2>3, <3>1
    <3>. HIDE DEF s
    <3>5. DeletionOps(s) \subseteq SparingOps
      BY <3>4 DEF DeletionOps, SparingOps
    <3>6. Deletion(s) \in Seq(SparingOps)
      BY <3>4, <3>5, DeletionFacts, SeqMore
    <3>. QED  BY <3>3, <3>6, NoPlan DEF StageIs
  <2>. QED  BY <2>1, <2>2, <2>3
<1>. HIDE DEF p
<1>6. \A i \in 1..Len(p) : i = 1 \/ i = 2 \/ i \in 3..Len(p)
  BY <1>2
<1>7. Orderly(t, p)
  BY <1>2, <1>3, <1>4, <1>5, <1>6 DEF Orderly
<1>8. Empties(t, p)
  BY <1>1, <1>2, <1>4 DEF Empties
<1>9. Controlled(t, p) /\ Forgets(t, p) /\ NoControls(t, p)
  BY <1>1, <1>4 DEF Controlled, Forgets, NoControls
<1>. QED  BY <1>1, <1>7, <1>8, <1>9 DEF Planned

LEMMA ProgramsArePlanned == \A t \in Trials : Planned(t, Programs[t])
<1>. TAKE t \in Trials
<1>1. /\ Programs[t] = Program(t)
      /\ t.kind \in {"risk", "safe", "coverage", "shift", "single", "storage", "pilot"}
  BY TrialsAssumption DEF Programs, Trial
<1>. QED  BY <1>1, RiskPlanned, ShiftPlanned, SafePlanned, SinglePlanned, StoragePlanned, PilotPlanned

-----------------------------------------------------------------------------
(* What the stores hold on the way to a promise.                           *)

Comes(op) == Contains(todo, op)
StagePlan == Stages[stage].plan

StoresTyped ==
  /\ online \in [SubjectIds -> SUBSET Online]
  /\ files \in SUBSET (LatentOf(trial) \intersect LatentFiles)
  /\ controls \in SUBSET Controls
  /\ trial.kind = "single" => controls = {}

\* A key is left only where the trial leaves the backup.
KeyGoes ==
  "carrier-backup" \in LatentOf(trial) \/ key[One] = 0 \/ (stage = 1 /\ Comes(DropsKey))

Clearing ==
  trial.kind # "storage" /\ stage = ClearStage(trial) => \A x \in online[One] : Comes(Drops(x))

Destroying == trial.kind = "pilot" /\ stage = 2 => key[One] = 0 \/ Comes(DestroysKey)

Installing ==
  trial.kind \notin {"pilot", "storage"} /\ stage = ClearStage(trial) + 1 =>
    /\ online[One] = {}
    /\ trial.kind # "single" => Comes(InstallsControls) \/ controls = StagePlan
    /\ Comes(InstallsTombstone) \/ (Tombstone \in StagePlan => One \in tombstones)

\* When the model is rebuilt from the vector index, that one is there.
Rebuilding ==
  Stages[stage].mode # "preparing" /\ trial.kind # "pilot" =>
    Comes(RebuildsFirst) \/ (RebuildsNow(One) => "vector-index" \in online[One])

HoldInv ==
  StoresTyped /\ KeyGoes /\ Clearing /\ Destroying /\ Installing /\ Rebuilding

OperationStep ==
  \/ PutOnline \/ PutCipher \/ PutKey \/ WriteCarrier \/ DropUnusedKey \/ Drop
  \/ DestroyBackup \/ InstallControls \/ InstallTombstone \/ DestroyCarrier
  \/ ReadControls \/ RunWorkflow \/ Rebuild \/ Look
  \/ AuditNow \/ RefuseExisting \/ Create \/ Issue \/ Verify \/ Conclude

LEMMA OperationDoes ==
  ASSUME OperationStep
  PROVE  Does(Op.do)
<1>1. ASSUME NEW do, Does(do) PROVE Does(Op.do)
  <2>1. Op.do = do
    BY <1>1 DEF Does, At, Op
  <2>. QED  BY <1>1, <2>1
<1>2. CASE \/ PutOnline \/ PutCipher \/ PutKey \/ WriteCarrier \/ DropUnusedKey \/ Drop
           \/ DestroyBackup \/ InstallControls \/ InstallTombstone \/ DestroyCarrier
  BY <1>1, <1>2 DEF PutOnline, PutCipher, PutKey, WriteCarrier, DropUnusedKey, Drop, DestroyBackup,
     InstallControls, InstallTombstone, DestroyCarrier, Writes
<1>3. CASE \/ ReadControls \/ RunWorkflow \/ Rebuild \/ Look \/ AuditNow \/ RefuseExisting
           \/ Create \/ Issue \/ Verify \/ Conclude
  BY <1>1, <1>3 DEF ReadControls, RunWorkflow, Rebuild, Look, AuditNow, RefuseExisting, Create,
     Issue, Verify, Conclude, Writes
<1>. QED  BY <1>2, <1>3 DEF OperationStep

\* The verb of each action, and the stores it leaves alone.
LEMMA OperationIs ==
  ASSUME OperationStep
  PROVE  \/ Op.do = "put" /\ (PutOnline \/ PutCipher \/ PutKey)
         \/ Op.do = "write" /\ WriteCarrier
         \/ Op.do = "drop unused key" /\ DropUnusedKey
         \/ Op.do = "drop" /\ Drop
         \/ Op.do = "destroy key" /\ DestroyBackup
         \/ Op.do = "install" /\ (InstallControls \/ InstallTombstone \/ DestroyCarrier)
         \/ Op.do = "run" /\ RunWorkflow
         \/ Op.do = "rebuild" /\ Rebuild
         \/ /\ Op.do \notin {"put", "write", "drop unused key", "drop", "destroy key", "install",
                             "run", "rebuild"}
            /\ UNCHANGED <<online, cipher, key, tombstones, files, controls, recreated>>
<1>1. \A do : Does(do) => Op.do = do
  BY DEF Does, At, Op
<1>2. CASE PutOnline \/ PutCipher \/ PutKey
  BY <1>1, <1>2 DEF PutOnline, PutCipher, PutKey, Writes
<1>3. CASE WriteCarrier \/ DropUnusedKey \/ Drop \/ DestroyBackup
  BY <1>1, <1>3 DEF WriteCarrier, DropUnusedKey, Drop, DestroyBackup, Writes
<1>4. CASE InstallControls \/ InstallTombstone \/ DestroyCarrier
  BY <1>1, <1>4 DEF InstallControls, InstallTombstone, DestroyCarrier, Writes
<1>5. CASE RunWorkflow \/ Rebuild
  BY <1>1, <1>5 DEF RunWorkflow, Rebuild, Writes
<1>6. CASE ReadControls \/ Look
  BY <1>1, <1>6 DEF ReadControls, Look, disk, memory
<1>7. CASE AuditNow \/ RefuseExisting \/ Create
  BY <1>1, <1>7 DEF AuditNow, RefuseExisting, Create, disk, memory
<1>8. CASE Issue \/ Verify \/ Conclude
  BY <1>1, <1>8 DEF Issue, Verify, Conclude, disk, memory
<1>. QED  BY <1>2, <1>3, <1>4, <1>5, <1>6, <1>7, <1>8 DEF OperationStep

\* What is done, and where it leads.
LEMMA OperationFacts ==
  ASSUME BaseInv, OperationStep
  PROVE  /\ Op \in Operation /\ status = "running" /\ status' = status /\ trial' = trial
         /\ stage' = stage /\ Stages' = Stages /\ BaseInv'
         /\ \A op : Comes(op) => Op = op \/ Comes(op)'
         /\ Contains(Stages[stage].does, Op) /\ 1 \in 1..Len(todo) /\ Op = todo[1]
<1>1. Does(Op.do)
  BY OperationDoes
<1>2. /\ Op \in Operation /\ stage' = stage /\ Stages' = Stages /\ BaseInv'
      /\ \A i \in 1..Len(todo) : todo[i] = Op \/ Contains(todo', todo[i])
      /\ Op = todo[1] /\ 1 \in 1..Len(todo)
  BY <1>1, DoneFacts
<1>3. \A op : Comes(op) => Op = op \/ Comes(op)'
  BY <1>2 DEF Comes, Contains
<1>4. status = "running" /\ status' = status /\ trial' = trial
  BY <1>1 DEF Does, At
<1>5. Contains(Stages[stage].does, Op)
  <2>1. LeftOf(Stages[stage].does, todo) /\ Stages[stage].does \in Seq(Operation)
    BY StageFacts DEF BaseInv
  <2>. QED  BY <1>2, <2>1, LeftFacts
<1>. QED  BY <1>2, <1>3, <1>4, <1>5

LEMMA OnlineEffects ==
  ASSUME BaseInv, StoresTyped, OperationStep
  PROVE  /\ online' \in [SubjectIds -> SUBSET Online]
         /\ \A x \in online'[One] : x \in online[One] \/ Op = PutOf(x, One) \/ Op.do \in {"run", "rebuild"}
         /\ \A x : Op = Drops(x) => x \notin online'[One]
         /\ Op.do \notin {"put", "drop", "run", "rebuild"} => online' = online
         /\ Op.who # One => online'[One] = online[One]
         /\ Op.do \in {"run", "rebuild"} => online[One] \subseteq online'[One]
<1>1. /\ Op \in Operation /\ Op.who \in SubjectIds /\ One \in SubjectIds
      /\ Op.do = "run" => Op.what \in Reactivations
      /\ Op.do = "rebuild" => Op.what \in Online
  <2>1. Op \in Operation
    BY OperationFacts
  <2>2. Derivatives \subseteq Online
    BY DEF Derivatives, Online
  <2>. QED  BY <2>1, <2>2, NamesFacts, SubjectFacts DEF Operation
<1>2. online \in [SubjectIds -> SUBSET Online]
  BY DEF StoresTyped
<1>3. \A x : Op = Drops(x) => Op.do = "drop" /\ Op.what = x /\ Op.who = One
  BY DEF Drops, OpOf
<1>4. Op.do = "put" => Op = PutOf(Op.what, Op.who)
  BY <1>1 DEF PutOf, Operation
<1>5. CASE Op.do = "put" /\ (PutOnline \/ PutCipher \/ PutKey)
  <2>1. \/ online' = online
        \/ Op.what \in Online /\ online' = [online EXCEPT ![Op.who] = @ \union {Op.what}]
    BY <1>5 DEF PutOnline, PutCipher, PutKey
  <2>2. CASE online' = online
    BY <1>2, <1>3, <1>5, <2>2
  <2>3. CASE Op.what \in Online /\ online' = [online EXCEPT ![Op.who] = @ \union {Op.what}]
    <3>1. online' \in [SubjectIds -> SUBSET Online]
      BY <1>1, <1>2, <2>3
    <3>2. online'[One] = IF Op.who = One THEN online[One] \union {Op.what} ELSE online[One]
      BY <1>1, <1>2, <2>3
    <3>. QED  BY <1>3, <1>4, <1>5, <3>1, <3>2
  <2>. QED  BY <2>1, <2>2, <2>3
<1>6. CASE Op.do = "drop" /\ Drop
  <2>1. online' = [online EXCEPT ![Op.who] = @ \ {Op.what}]
    BY <1>6 DEF Drop
  <2>2. online' \in [SubjectIds -> SUBSET Online]
    BY <1>1, <1>2, <2>1
  <2>3. online'[One] = IF Op.who = One THEN online[One] \ {Op.what} ELSE online[One]
    BY <1>1, <1>2, <2>1
  <2>. QED  BY <1>3, <1>6, <2>2, <2>3
<1>7. CASE (Op.do = "run" /\ RunWorkflow) \/ (Op.do = "rebuild" /\ Rebuild)
  <2>1. PICK x \in Online : online' = online \/ online' = [online EXCEPT ![Op.who] = @ \union {x}]
    <3>1. CASE Op.do = "run" /\ RunWorkflow
      <4>1. TargetOf(Op.what) \in Online
        <5>1. Op.what \in TransitionIds
          BY <1>1, <3>1, WorkflowFacts
        <5>2. Workflows[Op.what].adds \in SUBSET Online /\ Workflows[Op.what].adds # {}
          BY <5>1, WorkflowFacts
        <5>. QED  BY <5>2 DEF TargetOf
      <4>2. \/ online' = online
            \/ online' = [online EXCEPT ![Op.who] = @ \union {TargetOf(Op.what)}]
        BY <3>1 DEF RunWorkflow
      <4>. QED  BY <4>1, <4>2
    <3>2. CASE Op.do = "rebuild" /\ Rebuild
      <4>1. online' = online \/ online' = [online EXCEPT ![Op.who] = @ \union {Op.what}]
        BY <3>2 DEF Rebuild
      <4>. QED  BY <1>1, <3>2, <4>1
    <3>. QED  BY <1>7, <3>1, <3>2
  <2>2. online' \in [SubjectIds -> SUBSET Online]
    BY <1>1, <1>2, <2>1
  <2>3. /\ online[One] \subseteq online'[One]
        /\ Op.who # One => online'[One] = online[One]
    BY <1>1, <1>2, <2>1
  <2>. QED  BY <1>3, <1>7, <2>2, <2>3
<1>8. CASE online' = online /\ Op.do \notin {"put", "drop", "run", "rebuild"}
  BY <1>2, <1>3, <1>8
<1>9. ASSUME WriteCarrier \/ DropUnusedKey \/ DestroyBackup \/ InstallControls \/ InstallTombstone \/ DestroyCarrier
      PROVE  online' = online
  BY <1>9 DEF WriteCarrier, DropUnusedKey, DestroyBackup, InstallControls, InstallTombstone, DestroyCarrier
<1>. QED  BY <1>5, <1>6, <1>7, <1>8, <1>9, OperationIs

LEMMA KeyEffects ==
  ASSUME BaseInv, GenInv, OperationStep
  PROVE  /\ key'[One] = key[One] \/ key'[One] = 0 \/ Op = PutOf("key", One)
         /\ Op = DropsKey => key'[One] = 0 \/ "carrier-backup" \in LatentOf(trial)
         /\ Op = DestroysKey => key'[One] = 0
         /\ Op.do \notin {"put", "drop unused key", "destroy key", "install"} => key' = key
         /\ Op.do # "put" => cipher' = cipher
         /\ Op.who # One => key'[One] = key[One]
<1>1. Op \in Operation /\ Op.who \in SubjectIds /\ One \in SubjectIds
  BY OperationFacts, SubjectFacts DEF Operation
<1>2. key \in [SubjectIds -> Int] /\ cipher \in [SubjectIds -> Int]
  BY DEF GenInv
<1>3. /\ Op = DropsKey => Op.do = "drop unused key" /\ Op.who = One
      /\ Op = DestroysKey => Op.do = "destroy key" /\ Op.who = One
  <2>1. DropsKey.do = "drop unused key" /\ DropsKey.who = One
    BY DEF DropsKey, OpOf
  <2>2. DestroysKey.do = "destroy key" /\ DestroysKey.who = One
    BY DEF DestroysKey, OpOf
  <2>. QED  BY <2>1, <2>2
<1>4. Op.do = "put" => Op = PutOf(Op.what, Op.who)
  BY <1>1 DEF PutOf, Operation
<1>5. CASE Op.do = "put" /\ (PutOnline \/ PutCipher \/ PutKey)
  <2>1. \/ key' = key
        \/ Op.what = "key" /\ key' = [key EXCEPT ![Op.who] = cipher[Op.who]]
    BY <1>5 DEF PutOnline, PutCipher, PutKey
  <2>2. Op.who # One => key'[One] = key[One]
    BY <1>1, <1>2, <2>1
  <2>. QED  BY <1>3, <1>4, <1>5, <2>1, <2>2
<1>6. CASE Op.do = "drop unused key" /\ DropUnusedKey
  <2>1. /\ key' = IF "carrier-backup" \in LatentOf(trial) THEN key ELSE [key EXCEPT ![Op.who] = 0]
        /\ cipher' = cipher
    BY <1>6 DEF DropUnusedKey
  <2>. QED  BY <1>1, <1>2, <1>3, <1>6, <2>1
<1>7. CASE Op.do = "destroy key" /\ DestroyBackup
  <2>1. key' = [key EXCEPT ![Op.who] = 0] /\ cipher' = cipher
    BY <1>7 DEF DestroyBackup
  <2>. QED  BY <1>1, <1>2, <1>3, <1>7, <2>1
<1>8. CASE Op.do = "install" /\ (InstallControls \/ InstallTombstone \/ DestroyCarrier)
  <2>1. (key' = key \/ key' = [key EXCEPT ![Op.who] = 0]) /\ cipher' = cipher
    BY <1>8 DEF InstallControls, InstallTombstone, DestroyCarrier
  <2>. QED  BY <1>1, <1>2, <1>3, <1>8, <2>1
<1>9. CASE key' = key /\ cipher' = cipher /\ Op.do \notin {"drop unused key", "destroy key"}
  BY <1>3, <1>9
<1>10. ASSUME WriteCarrier \/ Drop \/ RunWorkflow \/ Rebuild PROVE key' = key /\ cipher' = cipher
  BY <1>10 DEF WriteCarrier, Drop, RunWorkflow, Rebuild
<1>. QED  BY <1>5, <1>6, <1>7, <1>8, <1>9, <1>10, OperationIs

LEMMA StoreEffects ==
  ASSUME BaseInv, StoresTyped, OperationStep
  PROVE  /\ files' \in SUBSET (LatentOf(trial) \intersect LatentFiles)
         /\ Op.do \notin {"write", "install"} => files' = files
         /\ controls' = controls \/ (Op.do = "install" /\ Op.what = "controls" /\ controls' = StagePlan)
         /\ Op = InstallsControls => controls' = StagePlan
         /\ tombstones \subseteq tombstones'
         /\ Op.do # "install" => tombstones' = tombstones
         /\ Op = InstallsTombstone => (Tombstone \in StagePlan => One \in tombstones')
         /\ Op.do # "run" => recreated' = recreated
<1>1. Op \in Operation /\ (Op.do = "write" => Op.what \in LatentFiles)
  <2>1. Op \in Operation
    BY OperationFacts
  <2>. QED  BY <2>1, NamesFacts DEF Operation
<1>2. files \in SUBSET (LatentOf(trial) \intersect LatentFiles)
  BY DEF StoresTyped
<1>3. /\ Op = InstallsControls => Op.do = "install" /\ Op.what = "controls"
      /\ Op = InstallsTombstone => Op.do = "install" /\ Op.what = "tombstone" /\ Op.who = One
  BY DEF InstallsControls, InstallsTombstone, OpOf
<1>4. CASE Op.do = "put" /\ (PutOnline \/ PutCipher \/ PutKey)
  <2>1. UNCHANGED <<files, controls, tombstones, recreated>>
    BY <1>4 DEF PutOnline, PutCipher, PutKey, Writes, memory
  <2>. QED  BY <1>2, <1>3, <1>4, <2>1
<1>5. CASE Op.do = "write" /\ WriteCarrier
  <2>1. /\ UNCHANGED <<controls, tombstones, recreated>>
        /\ files' = files \union ({Op.what} \intersect LatentOf(trial))
    BY <1>5 DEF WriteCarrier, Writes, memory
  <2>. QED  BY <1>1, <1>2, <1>3, <1>5, <2>1
<1>6. CASE \/ Op.do = "drop unused key" /\ DropUnusedKey
           \/ Op.do = "drop" /\ Drop
           \/ Op.do = "destroy key" /\ DestroyBackup
  <2>1. UNCHANGED <<files, controls, tombstones, recreated>>
    BY <1>6 DEF DropUnusedKey, Drop, DestroyBackup, Writes, memory
  <2>. QED  BY <1>2, <1>3, <1>6, <2>1
<1>7. CASE Op.do = "install" /\ InstallControls
  <2>1. UNCHANGED <<files, tombstones, recreated>> /\ controls' = StagePlan /\ Op.what = "controls"
    BY <1>7 DEF InstallControls, memory, StagePlan
  <2>. QED  BY <1>2, <1>3, <1>7, <2>1
<1>8. CASE Op.do = "install" /\ InstallTombstone
  <2>1. /\ UNCHANGED <<files, controls, recreated>> /\ Op.what = "tombstone"
        /\ tombstones' = tombstones \union (IF Tombstone \in StagePlan THEN {Op.who} ELSE {})
    BY <1>8 DEF InstallTombstone, Writes, memory, StagePlan
  <2>. QED  BY <1>2, <1>3, <1>8, <2>1
<1>9. CASE Op.do = "install" /\ DestroyCarrier
  <2>1. /\ UNCHANGED <<controls, tombstones, recreated>> /\ Op.what \in LatentFiles \union {"key"}
        /\ files' = files \/ files' = files \ {Op.what}
    BY <1>9 DEF DestroyCarrier, Writes, memory
  <2>2. Op.what # "controls" /\ Op.what # "tombstone"
    BY <2>1 DEF LatentFiles, AllCarriers
  <2>. QED  BY <1>2, <1>3, <1>9, <2>1, <2>2
<1>10. CASE Op.do = "run" /\ RunWorkflow
  <2>1. UNCHANGED <<files, controls, tombstones>>
    BY <1>10 DEF RunWorkflow
  <2>. QED  BY <1>2, <1>3, <1>10, <2>1
<1>11. CASE Op.do = "rebuild" /\ Rebuild
  <2>1. UNCHANGED <<files, controls, tombstones, recreated>>
    BY <1>11 DEF Rebuild, Writes, memory
  <2>. QED  BY <1>2, <1>3, <1>11, <2>1
<1>12. CASE /\ Op.do \notin {"put", "write", "drop unused key", "drop", "destroy key", "install",
                             "run", "rebuild"}
            /\ UNCHANGED <<online, cipher, key, tombstones, files, controls, recreated>>
  <2>1. /\ files' = files /\ controls' = controls /\ tombstones' = tombstones
        /\ recreated' = recreated /\ Op.do # "install"
    BY <1>12
  <2>. QED  BY <1>2, <1>3, <2>1
<1>. QED  BY <1>4, <1>5, <1>6, <1>7, <1>8, <1>9, <1>10, <1>11, <1>12, OperationIs

-----------------------------------------------------------------------------
\* What the stage in hand is for.
LEMMA StageRole ==
  ASSUME BaseInv
  PROVE  /\ Planned(trial, Stages) /\ StageIs(trial, Stages[stage]) /\ stage \in 1..Len(Stages)
         /\ Len(Stages) \in Nat /\ stage \in Nat /\ ClearStage(trial) \in Nat
<1>1. Planned(trial, Stages)
  BY ProgramsArePlanned DEF BaseInv, Stages
<1>2. stage \in 1..Len(Stages) /\ Len(Stages) \in Nat /\ stage \in Nat
  BY StageFacts DEF BaseInv
<1>3. ClearStage(trial) \in Nat
  BY DEF ClearStage
<1>. HIDE DEF Stages
<1>. QED  BY <1>1, <1>2, <1>3 DEF Planned, Orderly

\* In the stage in hand, what is ahead of an operation is still to come.
LEMMA StillToCome ==
  ASSUME BaseInv, OperationStep, NEW A, NEW op, Follows(Stages[stage].does, A, op), Op \in A
  PROVE  Comes(op)'
<1>1. /\ LeftOf(Stages[stage].does, todo) /\ Stages[stage].does \in Seq(Operation)
      /\ Does(Op.do) /\ 1 \in 1..Len(todo) /\ Op = todo[1]
  BY StageFacts, OperationDoes, OperationFacts DEF BaseInv
<1>. DEFINE full == Stages[stage].does
            k == Len(full) - Len(todo)
<1>0. LeftOf(full, todo) /\ full \in Seq(Operation) /\ todo \in Seq(Operation)
  BY <1>1 DEF LeftOf
<1>. HIDE DEF full
<1>2. /\ Len(full) \in Nat /\ Len(todo) \in Nat /\ k \in Nat /\ Len(full) = k + Len(todo)
      /\ \A i \in 1..Len(todo) : todo[i] = full[k + i] /\ k + i \in 1..Len(full)
  BY <1>0 DEF LeftOf
<1>. HIDE DEF k
<1>3. full[k + 1] = Op /\ k + 1 \in 1..Len(full)
  BY <1>1, <1>2
<1>4. PICK j \in 1..Len(full) : k + 1 < j /\ full[j] = op
  <2>1. Follows(full, A, op)
    BY DEF full
  <2>. QED  BY <1>3, <2>1 DEF Follows
<1>5. j - k \in 2..Len(todo) /\ k + (j - k) = j
  BY <1>2, <1>4
<1>6. todo[j - k] = op
  BY <1>2, <1>4, <1>5
<1>7. \A i \in 2..Len(todo) : Contains(todo', todo[i])
  BY <1>1, DoneFacts
<1>. QED  BY <1>5, <1>6, <1>7 DEF Comes

LEMMA OperationHolds ==
  ASSUME BaseInv, GenInv, HoldInv, OperationStep
  PROVE  HoldInv'
<1>. DEFINE full == Stages[stage].does
<1>1. /\ StoresTyped /\ KeyGoes /\ Clearing /\ Destroying /\ Installing /\ Rebuilding
  BY DEF HoldInv
<1>2. /\ Op \in Operation /\ trial' = trial /\ stage' = stage /\ Stages' = Stages
      /\ StagePlan' = StagePlan /\ \A op : Comes(op) => Op = op \/ Comes(op)'
      /\ Contains(full, Op)
  BY OperationFacts DEF StagePlan
<1>3. /\ Planned(trial, Stages) /\ StageIs(trial, Stages[stage])
      /\ stage \in 1..Len(Stages) /\ stage \in Nat /\ ClearStage(trial) \in Nat
  BY StageRole
<1>4. PICK i \in 1..Len(full) : full[i] = Op
  BY <1>2 DEF Contains
<1>5. Stages[stage].mode = "preparing" => Op.do \notin {"run", "rebuild"}
  <2>. SUFFICES ASSUME Stages[stage].mode = "preparing" PROVE Op.do \notin {"run", "rebuild"}
    OBVIOUS
  <2>1. Uses(full, SetUp) \/ Uses(full, DeletionVerbs)
    BY <1>3 DEF StageIs
  <2>. HIDE DEF full
  <2>. QED  BY <1>4, <2>1 DEF Uses, SetUp, DeletionVerbs
<1>. HIDE DEF full
<1>6. StoresTyped'
  <2>1. controls' \in SUBSET Controls
    <3>1. StagePlan \in SUBSET Controls
      BY <1>3 DEF StageIs, StagePlan
    <3>. QED  BY <1>1, <3>1, StoreEffects DEF StoresTyped
  <2>2. trial.kind = "single" => controls' = {}
    <3>. SUFFICES ASSUME trial.kind = "single" PROVE controls' = {}
      OBVIOUS
    <3>1. InstallsNoControls(full)
      BY <1>3 DEF Planned, NoControls, full
    <3>2. Op.do = "install" => Op.what = "tombstone"
      BY <1>4, <3>1 DEF InstallsNoControls
    <3>. QED  BY <1>1, <3>2, StoreEffects DEF StoresTyped
  <2>3. online' \in [SubjectIds -> SUBSET Online]
    BY <1>1, OnlineEffects
  <2>4. files' \in SUBSET (LatentOf(trial) \intersect LatentFiles)
    BY <1>1, StoreEffects
  <2>. QED  BY <1>2, <2>1, <2>2, <2>3, <2>4 DEF StoresTyped
<1>7. KeyGoes'
  <2>. SUFFICES ASSUME "carrier-backup" \notin LatentOf(trial), key'[One] # 0
                PROVE  stage = 1 /\ Comes(DropsKey)'
    BY <1>2 DEF KeyGoes
  <2>1. CASE key'[One] = key[One]
    <3>1. stage = 1 /\ Comes(DropsKey)
      BY <1>1, <2>1 DEF KeyGoes
    <3>2. Op # DropsKey
      BY KeyEffects
    <3>. QED  BY <1>2, <3>1, <3>2
  <2>2. CASE Op = PutOf("key", One)
    <3>1. stage = 1
      <4>1. stage # 1 => Uses(full, NoPut)
        BY <1>3, StageFacts DEF full
      <4>2. Op.do = "put"
        BY <2>2 DEF PutOf
      <4>. QED  BY <1>4, <4>1, <4>2, VerbFacts DEF Uses
    <3>2. Follows(full, {PutOf("key", One)}, DropsKey)
      BY <1>3, <3>1 DEF Planned, Forgets, ForgetsKey, full
    <3>3. Comes(DropsKey)'
      BY <2>2, <3>2, StillToCome DEF full
    <3>. QED  BY <3>1, <3>3
  <2>. QED  BY <2>1, <2>2, KeyEffects
<1>8. Clearing'
  <2>. SUFFICES ASSUME trial.kind # "storage", stage = ClearStage(trial), NEW x \in online'[One]
                PROVE  Comes(Drops(x))'
    BY <1>2 DEF Clearing
  <2>1. Stages[stage].mode = "preparing" /\ Clears(full)
    BY <1>3 DEF Planned, Empties, full
  <2>2. x \in online[One] \/ Op = PutOf(x, One)
    BY <1>1, <1>5, <2>1, OnlineEffects
  <2>3. Op # Drops(x) /\ x \in Online
    <3>1. One \in SubjectIds
      BY SubjectFacts
    <3>. QED  BY <1>1, <3>1, OnlineEffects
  <2>4. CASE x \in online[One]
    <3>1. Comes(Drops(x))
      BY <1>1, <2>4 DEF Clearing
    <3>. QED  BY <1>2, <2>3, <3>1
  <2>5. CASE Op = PutOf(x, One)
    <3>1. Follows(full, {PutOf(x, One)}, Drops(x))
      BY <2>1, <2>3 DEF Clears
    <3>. QED  BY <2>5, <3>1, StillToCome DEF full
  <2>. QED  BY <2>2, <2>4, <2>5
<1>9. Destroying'
  <2>. SUFFICES ASSUME trial.kind = "pilot", stage = 2, key'[One] # 0
                PROVE  Comes(DestroysKey)'
    BY <1>2 DEF Destroying
  <2>1. Op # PutOf("key", One)
    <3>1. Uses(full, DeletionVerbs)
      BY <1>3 DEF Planned, Forgets, full
    <3>2. "put" \notin DeletionVerbs /\ PutOf("key", One).do = "put"
      BY DEF DeletionVerbs, PutOf
    <3>. QED  BY <1>4, <3>1, <3>2 DEF Uses
  <2>2. key[One] # 0 /\ Op # DestroysKey
    BY <2>1, KeyEffects
  <2>. QED  BY <1>1, <1>2, <2>2 DEF Destroying
<1>10. Installing'
  <2>. SUFFICES ASSUME trial.kind \notin {"pilot", "storage"}, stage = ClearStage(trial) + 1
                PROVE  /\ online'[One] = {}
                       /\ trial.kind # "single" => Comes(InstallsControls)' \/ controls' = StagePlan
                       /\ Comes(InstallsTombstone)' \/ (Tombstone \in StagePlan => One \in tombstones')
    BY <1>2 DEF Installing
  <2>1. /\ online[One] = {}
        /\ trial.kind # "single" => Comes(InstallsControls) \/ controls = StagePlan
        /\ Comes(InstallsTombstone) \/ (Tombstone \in StagePlan => One \in tombstones)
    BY <1>1 DEF Installing
  <2>2. Op.do = "install"
    <3>1. Uses(full, {"install"})
      BY <1>3 DEF Planned, Controlled, full
    <3>. QED  BY <1>4, <3>1 DEF Uses
  <2>3. online'[One] = {}
    BY <1>1, <2>1, <2>2, OnlineEffects
  <2>4. trial.kind # "single" => Comes(InstallsControls)' \/ controls' = StagePlan
    BY <1>1, <1>2, <2>1, StoreEffects
  <2>5. Comes(InstallsTombstone)' \/ (Tombstone \in StagePlan => One \in tombstones')
    BY <1>1, <1>2, <2>1, StoreEffects
  <2>. QED  BY <2>3, <2>4, <2>5
<1>11. Rebuilding'
  <2>. SUFFICES ASSUME Stages[stage].mode # "preparing", trial.kind # "pilot",
                       ~ Comes(RebuildsFirst)', RebuildsNow(One)'
                PROVE  "vector-index" \in online'[One]
    BY <1>2 DEF Rebuilding
  <2>1. Replays(full)
    BY <1>3 DEF StageIs, full
  <2>2. Op \in ReplayOps /\ Op \notin RunOps
    <3>1. Op \in ReplayOps
      BY <1>4, <2>1 DEF Replays
    <3>2. Op \notin RunOps
      BY <2>1, StillToCome DEF Replays, full
    <3>. QED  BY <3>1, <3>2
  <2>3. Op.do \in {"read controls", "rebuild", "look"} /\ Op.who = One
    BY <2>2 DEF ReplayOps, RunOps
  <2>4. recreated' = recreated
    BY <1>1, <2>3, StoreEffects
  <2>5. CASE Op.do # "rebuild"
    <3>1. online' = online
      BY <1>1, <2>3, <2>5, OnlineEffects
    <3>2. RebuildsNow(One)
      BY <1>2, <2>4, <3>1 DEF RebuildsNow
    <3>3. Op # RebuildsFirst
      BY <2>5 DEF RebuildsFirst, OpOf
    <3>. QED  BY <1>1, <1>2, <3>1, <3>2, <3>3 DEF Rebuilding
  <2>6. CASE Op.do = "rebuild"
    <3>1. Rebuild /\ Op.what \in Derivatives
      <4>1. Op.what \in Derivatives
        BY <1>2, <2>6, NamesFacts DEF Operation
      <4>. QED  BY <2>6, <4>1, OperationIs
    <3>2. online' = IF RebuildsNow(One) THEN [online EXCEPT ![One] = @ \union {Op.what}] ELSE online
      BY <2>3, <3>1 DEF Rebuild
    <3>3. /\ online \in [SubjectIds -> SUBSET Online] /\ One \in SubjectIds
      BY <1>1, SubjectFacts DEF StoresTyped
    <3>4. online'[One] = IF RebuildsNow(One) THEN online[One] \union {Op.what} ELSE online[One]
      BY <3>2, <3>3
    <3>5. "postgres" \in online[One]
      <4>1. "postgres" \in online'[One] /\ Op.what # "postgres"
        BY <3>1 DEF RebuildsNow, Derivatives
      <4>. QED  BY <3>4, <4>1
    <3>6. RebuildsNow(One)
      BY <1>2, <2>4, <3>5 DEF RebuildsNow
    <3>7. CASE Op = RebuildsFirst
      <4>1. Op.what = "vector-index"
        BY <3>7 DEF RebuildsFirst, OpOf
      <4>. QED  BY <3>4, <3>6, <4>1
    <3>8. CASE Op # RebuildsFirst
      <4>1. "vector-index" \in online[One]
        BY <1>1, <1>2, <3>6, <3>8 DEF Rebuilding
      <4>. QED  BY <3>4, <4>1
    <3>. QED  BY <3>7, <3>8
  <2>. QED  BY <2>5, <2>6
<1>. QED  BY <1>6, <1>7, <1>8, <1>9, <1>10, <1>11 DEF HoldInv

LEMMA ClearAtLeast == 1 <= ClearStage(trial) /\ (trial.kind = "pilot" => ClearStage(trial) = 2)
BY DEF ClearStage

LEMMA InitHolds == Init => HoldInv
<1>. SUFFICES ASSUME Init PROVE HoldInv
  OBVIOUS
<1>1. BaseInv
  BY InitBase
<1>2. /\ stage = 1 /\ online = [s \in SubjectIds |-> {}] /\ key = [s \in SubjectIds |-> 0]
      /\ files = {} /\ controls = {} /\ One \in SubjectIds
  BY SubjectFacts DEF Init
<1>3. online[One] = {} /\ key[One] = 0
  BY <1>2
<1>4. StoresTyped
  <2>1. online \in [SubjectIds -> SUBSET Online]
    BY <1>2
  <2>. QED  BY <1>2, <2>1 DEF StoresTyped
<1>5. KeyGoes /\ Clearing /\ Destroying
  BY <1>2, <1>3 DEF KeyGoes, Clearing, Destroying
<1>6. Installing
  BY <1>1, <1>2, StageRole, ClearAtLeast DEF Installing
<1>7. Rebuilding
  <2>1. Stages[stage].mode = "preparing"
    BY <1>1, <1>2, StageRole DEF Planned, Orderly
  <2>. QED  BY <2>1 DEF Rebuilding
<1>. QED  BY <1>4, <1>5, <1>6, <1>7 DEF HoldInv

LEMMA NextStageHolds ==
  ASSUME BaseInv, HoldInv, NextStage
  PROVE  HoldInv'
<1>1. /\ StoresTyped /\ KeyGoes /\ Clearing /\ Destroying /\ Installing /\ Rebuilding
  BY DEF HoldInv
<1>2. /\ trial' = trial /\ todo = <<>> /\ UNCHANGED <<disk, memory>>
      /\ \/ stage < Len(Stages) /\ stage' = stage + 1 /\ todo' = Stages[stage + 1].does
         \/ stage' = stage /\ todo' = todo
  BY DEF NextStage
<1>3. Stages' = Stages /\ BaseInv' /\ ~ \E op : Comes(op)
  <2>1. ~ \E op : Comes(op)
    BY <1>2 DEF Comes, Contains
  <2>. QED  BY <2>1, NextStageFacts
<1>4. /\ online' = online /\ key' = key /\ files' = files /\ controls' = controls
      /\ tombstones' = tombstones /\ recreated' = recreated
  BY <1>2 DEF disk, memory
<1>5. CASE stage' = stage /\ todo' = todo
  <2>1. \A op : Comes(op)' <=> Comes(op)
    BY <1>5 DEF Comes
  <2>2. StagePlan' = StagePlan
    BY <1>3, <1>5 DEF StagePlan
  <2>. HIDE DEF Stages
  <2>. QED  BY <1>1, <1>2, <1>3, <1>4, <1>5, <2>1, <2>2 DEF HoldInv, StoresTyped, KeyGoes, Clearing, Destroying,
            Installing, Rebuilding, RebuildsNow
<1>6. CASE stage < Len(Stages) /\ stage' = stage + 1 /\ todo' = Stages[stage + 1].does
  <2>1. /\ Planned(trial, Stages) /\ stage \in Nat /\ stage' \in 1..Len(Stages)
        /\ StageIs(trial, Stages[stage']) /\ ClearStage(trial) \in Nat
        /\ todo' = Stages[stage'].does /\ stage + 1 = stage'
    <3>1. Planned(trial, Stages) /\ stage \in 1..Len(Stages) /\ Len(Stages) \in Nat
          /\ stage \in Nat /\ ClearStage(trial) \in Nat
      BY StageRole
    <3>2. stage' \in 1..Len(Stages)
      BY <1>6, <3>1
    <3>. QED  BY <1>6, <3>1, <3>2 DEF Planned, Orderly
  <2>. DEFINE x == Stages[stage']
  <2>2. \A op : Comes(op)' <=> Contains(x.does, op)
    BY <2>1 DEF Comes
  <2>. HIDE DEF x
  <2>3. Stages[stage]' = x /\ StagePlan' = x.plan
    BY <1>3 DEF StagePlan, x
  <2>4. StoresTyped'
    BY <1>1, <1>2, <1>4 DEF StoresTyped
  <2>5. KeyGoes'
    BY <1>1, <1>2, <1>3, <1>4 DEF KeyGoes
  <2>6. Clearing'
    <3>. SUFFICES ASSUME trial.kind # "storage", stage' = ClearStage(trial), NEW y \in online[One]
                  PROVE  Comes(Drops(y))'
      BY <1>2, <1>4 DEF Clearing
    <3>1. Clears(x.does)
      BY <2>1 DEF Planned, Empties, x
    <3>2. y \in Online
      BY <1>1, SubjectFacts DEF StoresTyped
    <3>. QED  BY <2>2, <3>1, <3>2 DEF Clears
  <2>7. Destroying'
    <3>. SUFFICES ASSUME trial.kind = "pilot", stage' = 2 PROVE Comes(DestroysKey)'
      BY <1>2 DEF Destroying
    <3>1. Contains(x.does, DestroysKey)
      BY <2>1 DEF Planned, Forgets, x
    <3>. QED  BY <2>2, <3>1
  <2>8. Installing'
    <3>. SUFFICES ASSUME trial.kind \notin {"pilot", "storage"}, stage' = ClearStage(trial) + 1
                  PROVE  /\ online[One] = {}
                         /\ trial.kind # "single" => Comes(InstallsControls)'
                         /\ Comes(InstallsTombstone)'
      BY <1>2, <1>4 DEF Installing
    <3>1. stage = ClearStage(trial)
      BY <2>1
    <3>2. online[One] = {}
      BY <1>1, <1>3, <3>1 DEF Clearing
    <3>3. /\ Contains(x.does, InstallsTombstone)
          /\ trial.kind # "single" => Contains(x.does, InstallsControls)
      BY <2>1 DEF Planned, Controlled, x
    <3>. QED  BY <2>2, <3>2, <3>3
  <2>9. Rebuilding'
    <3>. SUFFICES ASSUME x.mode # "preparing", trial.kind # "pilot" PROVE Comes(RebuildsFirst)'
      BY <1>2, <2>3 DEF Rebuilding
    <3>1. Replays(x.does)
      BY <2>1 DEF StageIs, x
    <3>. QED  BY <2>2, <3>1 DEF Replays
  <2>. QED  BY <2>4, <2>5, <2>6, <2>7, <2>8, <2>9 DEF HoldInv
<1>. QED  BY <1>2, <1>5, <1>6

LEMMA RerunHolds ==
  ASSUME BaseInv, HoldInv, Rerun, UNCHANGED <<online, files, controls>>
  PROVE  HoldInv'
<1>1. /\ BaseInv' /\ todo' = First /\ stage' = 1 /\ Stages' = Stages /\ First = Stages[1].does
      /\ trial' = trial
  BY RerunFacts, StageFacts DEF Rerun
<1>2. Planned(trial, Stages)
  BY StageRole
<1>3. \A op : Comes(op)' <=> Contains(First, op)
  BY <1>1 DEF Comes
<1>4. StoresTyped'
  BY <1>1 DEF HoldInv, StoresTyped
<1>. HIDE DEF Stages, First
<1>5. KeyGoes'
  <2>1. "carrier-backup" \in LatentOf(trial) \/ Contains(First, DropsKey)
    BY <1>1, <1>2 DEF Planned, Forgets, ForgetsKey
  <2>. QED  BY <1>1, <1>3, <2>1 DEF KeyGoes
<1>6. Clearing'
  <2>. SUFFICES ASSUME trial.kind # "storage", ClearStage(trial) = 1, NEW y \in online[One]
                PROVE  Comes(Drops(y))'
    BY <1>1 DEF Clearing
  <2>1. Clears(First)
    BY <1>1, <1>2 DEF Planned, Empties
  <2>2. y \in Online
    BY SubjectFacts DEF HoldInv, StoresTyped
  <2>. QED  BY <1>3, <2>1, <2>2 DEF Clears
<1>7. Destroying'
  BY <1>1 DEF Destroying
<1>8. Installing'
  BY <1>1, StageRole, ClearAtLeast DEF Installing
<1>9. Rebuilding'
  <2>1. Stages[1].mode = "preparing"
    BY <1>2 DEF Planned, Orderly
  <2>. QED  BY <1>1, <2>1 DEF Rebuilding
<1>. QED  BY <1>4, <1>5, <1>6, <1>7, <1>8, <1>9 DEF HoldInv

LEMMA StepHolds == BaseInv /\ GenInv /\ HoldInv /\ [Next]_vars => HoldInv'
<1>. SUFFICES ASSUME BaseInv, GenInv, HoldInv, [Next]_vars PROVE HoldInv'
  OBVIOUS
<1>1. CASE OperationStep
  BY <1>1, OperationHolds
<1>2. CASE NextStage
  BY <1>2, NextStageHolds
<1>3. CASE Crash \/ KillInWrite
  BY <1>3, RerunHolds DEF Crash, KillInWrite, disk
<1>4. CASE Fail \/ Ended \/ UNCHANGED vars
  <2>1. UNCHANGED <<trial, stage, todo, disk, memory>>
    BY <1>4 DEF Fail, Ended, vars
  <2>2. /\ trial' = trial /\ stage' = stage /\ todo' = todo /\ online' = online /\ key' = key
        /\ files' = files /\ controls' = controls /\ tombstones' = tombstones
        /\ recreated' = recreated
    BY <2>1 DEF disk, memory
  <2>3. Stages' = Stages /\ StagePlan' = StagePlan /\ \A op : Comes(op)' <=> Comes(op)
    BY <2>2 DEF Stages, StagePlan, Comes
  <2>. HIDE DEF Stages
  <2>. QED  BY <2>2, <2>3 DEF HoldInv, StoresTyped, KeyGoes, Clearing, Destroying, Installing, Rebuilding,
            RebuildsNow
<1>. QED  BY <1>1, <1>2, <1>3, <1>4 DEF Next, TrialStep, OperationStep

-----------------------------------------------------------------------------
(* The steps of the stores are steps of the world.                         *)

Mode == IF status = "failed" THEN "preparing" ELSE Stages[stage].mode

\* The abstract steps, for the facts and the guards that the stores stand for.
LEMMA WorldPrepares ==
  ASSUME Mode = "preparing", Mode' = "preparing", FactsHeld' \in SUBSET Facts,
         GuardsHeld' \in SUBSET TransitionIds
  PROVE  World!Next
BY DEF Mode, World!Prepare, World!Next

LEMMA WorldBegins ==
  ASSUME Mode = "preparing", Mode' \in {"running", "promised"},
         Mode' = "promised" => World!Stable(FactsHeld, GuardsHeld),
         FactsHeld' = FactsHeld, GuardsHeld' = GuardsHeld
  PROVE  World!Next
BY DEF Mode, World!Begin, World!Next

LEMMA WorldStops ==
  ASSUME Mode \in {"running", "promised"}, Mode' = "preparing",
         FactsHeld' = FactsHeld, GuardsHeld' = GuardsHeld
  PROVE  World!Next
BY DEF Mode, World!Stop, World!Next

LEMMA WorldStands ==
  ASSUME Mode' = Mode, FactsHeld' = FactsHeld, GuardsHeld' = GuardsHeld
  PROVE  UNCHANGED World!worldVars
BY DEF Mode, World!worldVars

\* A registered copy whose source is there and that nothing guards.
LEMMA WorldRuns ==
  ASSUME Mode \in {"running", "promised"}, Mode' = Mode, GuardsHeld' = GuardsHeld,
         NEW t \in TransitionIds \ GuardsHeld, NEW x, Workflows[t].adds = {x},
         Workflows[t].requires \subseteq FactsHeld, FactsHeld' = FactsHeld \union {x}
  PROVE  World!Next \/ UNCHANGED World!worldVars
<1>1. Workflows[t].forbids = {} /\ Workflows[t].removes = {}
  BY WorkflowFacts
<1>2. World!Enables(Workflows[t], FactsHeld) /\ World!Result(Workflows[t], FactsHeld) = FactsHeld'
  BY <1>1 DEF World!Enables, World!Result
<1>3. CASE FactsHeld' = FactsHeld
  BY <1>3, WorldStands
<1>4. CASE FactsHeld' # FactsHeld
  <2>1. World!Run(t)
    BY <1>2, <1>4 DEF World!Run, World!Moves, Mode
  <2>. QED  BY <2>1 DEF World!Next
<1>. QED  BY <1>3, <1>4

LEMMA HeldTyped ==
  ASSUME NEW o \in SUBSET Online, NEW f \in SUBSET LatentFiles, NEW c \in SUBSET Controls
  PROVE  /\ o \union f \union {"carrier-backup"} \in SUBSET Facts
         /\ GuardIds(c) \subseteq Reactivations /\ Reactivations \subseteq TransitionIds
         /\ GuardIds({}) = {}
<1>1. GuardIds(c) \subseteq Reactivations
  BY GuardFacts
<1>2. GuardIds({}) = {}
  BY DEF GuardIds
<1>3. "carrier-backup" \in AllCarriers /\ LatentFiles \subseteq AllCarriers
  BY DEF AllCarriers, LatentFiles
<1>. QED  BY <1>1, <1>2, <1>3, WorkflowFacts DEF Facts

\* What is copied from where.
LEMMA CopyFacts ==
  /\ \A t \in TransitionIds : Workflows[t].adds = {TargetOf(t)}
  /\ /\ Workflows[VectorRebuild].requires = {"postgres"}
     /\ Workflows[VectorRebuild].adds = {"vector-index"}
  /\ Workflows[NightlyEtl].requires = {"postgres"} /\ Workflows[NightlyEtl].adds = {"cache"}
  /\ Workflows[ModelRetrain].requires = {"vector-index"} /\ Workflows[ModelRetrain].adds = {"model"}
  /\ \A t \in {VectorRebuild, NightlyEtl, ModelRetrain} : t \in TransitionIds \ Reactivations
  /\ CarrierOf[BackupRestore] = "carrier-backup"
<1>. USE DEF BackupRestore, CheckpointRedeploy, LegacyImport, ModelRetrain, NightlyEtl, QueueReplay,
         VectorRebuild
<1>1. /\ Workflows[1] = Copies("carrier-backup", "postgres")
      /\ Workflows[2] = Copies("carrier-checkpoint", "model")
      /\ Workflows[3] = Copies("carrier-export", "postgres")
      /\ Workflows[4] = Copies("vector-index", "model")
      /\ Workflows[5] = Copies("postgres", "cache")
      /\ Workflows[6] = Copies("carrier-queue", "cache")
      /\ Workflows[7] = Copies("postgres", "vector-index")
  BY DEF Workflows
<1>2. \A from, to : Copies(from, to).requires = {from} /\ Copies(from, to).adds = {to}
  BY DEF Copies
<1>3. \A t \in TransitionIds : t \in {1, 2, 3, 4, 5, 6, 7}
  BY DEF TransitionIds
<1>4. \A t \in {1, 2, 3, 4, 5, 6, 7} : \E from, to : Workflows[t] = Copies(from, to)
  BY <1>1
<1>5. ASSUME NEW t \in TransitionIds PROVE Workflows[t].adds = {TargetOf(t)}
  <2>0. PICK from, to : Workflows[t] = Copies(from, to)
    BY <1>3, <1>4
  <2>1. Workflows[t].adds = {to}
    BY <1>2, <2>0
  <2>2. TargetOf(t) = to
    BY <2>1 DEF TargetOf
  <2>. QED  BY <2>1, <2>2
<1>6. CarrierOf[1] = "carrier-backup"
  BY DEF CarrierOf
<1>7. {4, 5, 7} \subseteq TransitionIds \ Reactivations
  BY DEF TransitionIds, Reactivations
<1>8. Workflows[7].requires = {"postgres"} /\ Workflows[7].adds = {"vector-index"}
  BY <1>1, <1>2
<1>9. Workflows[5].requires = {"postgres"} /\ Workflows[5].adds = {"cache"}
  BY <1>1, <1>2
<1>10. Workflows[4].requires = {"vector-index"} /\ Workflows[4].adds = {"model"}
  BY <1>1, <1>2
<1>. QED  BY <1>5, <1>6, <1>7, <1>8, <1>9, <1>10

\* While nothing that they are read from changes, the facts and the guards stand.
LEMMA HeldSame ==
  /\ (online'[One] = online[One] /\ files' = files /\ key'[One] = key[One] /\ cipher'[One] = cipher[One])
       => FactsHeld' = FactsHeld
  /\ (controls' = controls /\ (One \in tombstones' <=> One \in tombstones)) => GuardsHeld' = GuardsHeld
<1>1. One = Subjects[1] /\ Subjects' = Subjects
  BY DEF One
<1>2. Opens(One)' <=> key'[One] > 0 /\ key'[One] = cipher'[One]
  BY DEF Opens, One
<1>3. FactsHeld = online[One] \union files \union (IF Opens(One) THEN {"carrier-backup"} ELSE {})
  BY DEF FactsHeld, One
<1>4. FactsHeld' = online'[One] \union files' \union (IF Opens(One)' THEN {"carrier-backup"} ELSE {})
  BY DEF FactsHeld, Opens, One
<1>5. GuardsHeld = GuardIds(controls) \union (IF One \in tombstones THEN Reactivations ELSE {})
  BY DEF GuardsHeld, One
<1>6. GuardsHeld' = GuardIds(controls') \union (IF One \in tombstones' THEN Reactivations ELSE {})
  BY DEF GuardsHeld, GuardIds, One
<1>. QED  BY <1>2, <1>3, <1>4, <1>5, <1>6 DEF Opens

\* A trial that is being prepared may write anything.
LEMMA PrepareStep ==
  ASSUME HoldInv', Mode = "preparing", Mode' = "preparing"
  PROVE  World!Next
<1>1. online'[One] \in SUBSET Online /\ files' \in SUBSET LatentFiles /\ controls' \in SUBSET Controls
  BY SubjectFacts DEF HoldInv, StoresTyped
<1>2. /\ online'[One] \union files' \union {"carrier-backup"} \in SUBSET Facts
      /\ GuardIds(controls') \subseteq Reactivations /\ Reactivations \subseteq TransitionIds
  BY <1>1, HeldTyped
<1>3. FactsHeld' \in SUBSET Facts
  BY <1>2 DEF FactsHeld, One
<1>4. GuardsHeld' \in SUBSET TransitionIds
  <2>1. GuardsHeld' = GuardIds(controls') \union (IF One \in tombstones' THEN Reactivations ELSE {})
    BY DEF GuardsHeld, GuardIds, One
  <2>. QED  BY <1>2, <2>1
<1>. QED  BY <1>3, <1>4, WorldPrepares

\* In a replay the model is rebuilt after the vector index.
LEMMA ModelComesLast ==
  ASSUME BaseInv, OperationStep, NEW A, NEW op, Never(Stages[stage].does, A, op), Op \in A, Op # op
  PROVE  ~ Comes(op)
<1>1. /\ LeftOf(Stages[stage].does, todo) /\ Stages[stage].does \in Seq(Operation)
      /\ 1 \in 1..Len(todo) /\ Op = todo[1]
  BY StageFacts, OperationFacts DEF BaseInv
<1>. DEFINE full == Stages[stage].does
            k == Len(full) - Len(todo)
<1>2. LeftOf(full, todo) /\ full \in Seq(Operation) /\ todo \in Seq(Operation) /\ Never(full, A, op)
  BY <1>1 DEF LeftOf
<1>. HIDE DEF full
<1>3. /\ Len(full) \in Nat /\ Len(todo) \in Nat /\ k \in Nat /\ Len(full) = k + Len(todo)
      /\ \A i \in 1..Len(todo) : todo[i] = full[k + i] /\ k + i \in 1..Len(full)
  BY <1>2 DEF LeftOf
<1>. HIDE DEF k
<1>4. full[k + 1] \in A /\ k + 1 \in 1..Len(full)
  BY <1>1, <1>3
<1>5. ASSUME NEW j \in 1..Len(todo), todo[j] = op PROVE FALSE
  <2>1. j # 1
    BY <1>1, <1>5
  <2>2. k + 1 < k + j /\ k + j \in 1..Len(full) /\ full[k + j] = op
    BY <1>3, <1>5, <2>1
  <2>. QED  BY <1>2, <1>4, <2>2 DEF Never
<1>. QED  BY <1>5 DEF Comes, Contains

\* A step of a replay is a registered transition that nothing guards, or changes
\* nothing.
LEMMA ReplayStep ==
  ASSUME BaseInv, GenInv, HoldInv, OperationStep,
         Stages[stage].mode \in {"running", "promised"}, trial.kind # "pilot"
  PROVE  World!Next \/ UNCHANGED World!worldVars
<1>. DEFINE full == Stages[stage].does
<1>1. StoresTyped /\ Rebuilding /\ One \in SubjectIds
  BY SubjectFacts DEF HoldInv
<1>2. /\ Op \in Operation /\ status = "running" /\ status' = status /\ stage' = stage
      /\ Stages' = Stages /\ Contains(full, Op)
  BY OperationFacts
<1>3. Replays(full)
  BY StageRole DEF StageIs
<1>. HIDE DEF full
<1>4. Op \in ReplayOps
  BY <1>2, <1>3 DEF Contains, Replays
<1>5. Op.do \in {"read controls", "run", "rebuild", "look"} /\ Op.who = One
  BY <1>4 DEF ReplayOps
<1>6. Mode \in {"running", "promised"} /\ Mode' = Mode
  BY <1>2 DEF Mode
<1>7. /\ files' = files /\ controls' = controls /\ tombstones' = tombstones
      /\ key' = key /\ cipher' = cipher
  BY <1>1, <1>5, StoreEffects, KeyEffects
<1>8. GuardsHeld' = GuardsHeld
  BY <1>7, HeldSame
<1>9. online' = online => FactsHeld' = FactsHeld
  BY <1>7, HeldSame
<1>10. CASE online' = online
  BY <1>6, <1>8, <1>9, <1>10, WorldStands
<1>11. ASSUME NEW x, online' = [online EXCEPT ![One] = @ \union {x}]
       PROVE  FactsHeld' = FactsHeld \union {x}
  <2>1. online'[One] = online[One] \union {x}
    BY <1>1, <1>11 DEF StoresTyped
  <2>2. FactsHeld = online[One] \union files \union (IF Opens(One) THEN {"carrier-backup"} ELSE {})
    BY DEF FactsHeld, One
  <2>3. FactsHeld' = online'[One] \union files' \union (IF Opens(One)' THEN {"carrier-backup"} ELSE {})
    BY DEF FactsHeld, Opens, One
  <2>4. Opens(One)' <=> Opens(One)
    BY <1>7 DEF Opens, One
  <2>. QED  BY <1>7, <2>1, <2>2, <2>3, <2>4
<1>12. /\ GuardsHeld = GuardIds(controls) \union (IF One \in tombstones THEN Reactivations ELSE {})
       /\ GuardIds(controls) \subseteq Reactivations /\ GuardIds({}) = {}
  BY <1>1, GuardFacts DEF GuardsHeld, GuardIds, One, StoresTyped
<1>13. files \subseteq FactsHeld /\ online[One] \subseteq FactsHeld
       /\ (Opens(One) => "carrier-backup" \in FactsHeld)
  BY DEF FactsHeld, One
<1>14. CASE Op.do = "run" /\ online' # online
  <2>. DEFINE t == Op.what
  <2>1. RunWorkflow /\ t \in Reactivations
    BY <1>2, <1>14, OperationIs, NamesFacts DEF Operation
  <2>2. /\ Attempts(t, One) /\ One \notin tombstones
        /\ online' = [online EXCEPT ![One] = @ \union {TargetOf(t)}]
    BY <1>5, <1>14, <2>1 DEF RunWorkflow
  <2>. HIDE DEF t
  <2>3. t \in TransitionIds /\ t \notin GuardsHeld
    <3>1. t \notin GuardIds(controls)
      BY <1>1, <1>12, <2>2 DEF Attempts, Allowed, StoresTyped
    <3>. QED  BY <1>12, <2>1, <2>2, <3>1, WorkflowFacts
  <2>4. Workflows[t].adds = {TargetOf(t)} /\ Workflows[t].requires = {CarrierOf[t]}
    BY <2>1, <2>3, CopyFacts, WorkflowFacts
  <2>5. CarrierOf[t] \in FactsHeld
    BY <1>13, <2>2, CopyFacts DEF Attempts
  <2>6. FactsHeld' = FactsHeld \union {TargetOf(t)}
    BY <1>11, <2>2
  <2>. QED  BY <1>6, <1>8, <2>3, <2>4, <2>5, <2>6, WorldRuns
<1>15. CASE Op.do = "rebuild" /\ online' # online
  <2>1. Rebuild /\ Op.what \in Derivatives
    BY <1>2, <1>15, OperationIs, NamesFacts DEF Operation
  <2>2. RebuildsNow(One) /\ online' = [online EXCEPT ![One] = @ \union {Op.what}]
    BY <1>5, <1>15, <2>1 DEF Rebuild
  <2>3. FactsHeld' = FactsHeld \union {Op.what} /\ "postgres" \in FactsHeld
    BY <1>11, <1>13, <2>2 DEF RebuildsNow
  <2>4. \A t \in TransitionIds \ Reactivations : t \in TransitionIds \ GuardsHeld
    <3>1. GuardsHeld \subseteq Reactivations
      BY <1>12
    <3>. QED  BY <3>1
  <2>5. CASE Op.what = "vector-index"
    <3>1. VectorRebuild \in TransitionIds \ GuardsHeld
      BY <2>4, CopyFacts
    <3>2. /\ Workflows[VectorRebuild].adds = {Op.what}
          /\ Workflows[VectorRebuild].requires \subseteq FactsHeld
      BY <2>3, <2>5, CopyFacts
    <3>. QED  BY <1>6, <1>8, <2>3, <3>1, <3>2, WorldRuns
  <2>6. CASE Op.what = "cache"
    <3>1. NightlyEtl \in TransitionIds \ GuardsHeld
      BY <2>4, CopyFacts
    <3>2. /\ Workflows[NightlyEtl].adds = {Op.what}
          /\ Workflows[NightlyEtl].requires \subseteq FactsHeld
      BY <2>3, <2>6, CopyFacts
    <3>. QED  BY <1>6, <1>8, <2>3, <3>1, <3>2, WorldRuns
  <2>7. CASE Op.what = "model"
    <3>1. ModelRetrain \in TransitionIds \ GuardsHeld
      BY <2>4, CopyFacts
    <3>2. "vector-index" \in FactsHeld
      <4>1. Op \in ModelOps
        BY <1>2, <1>15, <2>7 DEF ModelOps
      <4>2. Op # RebuildsFirst
        <5>1. RebuildsFirst.what = "vector-index"
          BY DEF RebuildsFirst, OpOf
        <5>. QED  BY <2>7, <5>1
      <4>3. ~ Comes(RebuildsFirst)
        <5>1. Never(Stages[stage].does, ModelOps, RebuildsFirst)
          BY <1>3 DEF Replays, full
        <5>. QED  BY <4>1, <4>2, <5>1, ModelComesLast
      <4>4. Stages[stage].mode # "preparing"
        OBVIOUS
      <4>. QED  BY <1>1, <1>13, <2>2, <4>3, <4>4 DEF Rebuilding
    <3>3. /\ Workflows[ModelRetrain].adds = {Op.what}
          /\ Workflows[ModelRetrain].requires \subseteq FactsHeld
      BY <2>7, <3>2, CopyFacts
    <3>. QED  BY <1>6, <1>8, <2>3, <3>1, <3>3, WorldRuns
  <2>. QED  BY <2>1, <2>5, <2>6, <2>7 DEF Derivatives
<1>16. CASE Op.do \in {"read controls", "look"}
  <2>1. online' = online
    BY <1>1, <1>16, OnlineEffects
  <2>. QED  BY <1>10, <2>1
<1>. QED  BY <1>5, <1>10, <1>14, <1>15, <1>16

\* A step of the pilot after the first deletion spares the first subject.
LEMMA SparingStep ==
  ASSUME BaseInv, GenInv, HoldInv, OperationStep,
         Stages[stage].mode = "promised", trial.kind = "pilot"
  PROVE  UNCHANGED World!worldVars
<1>. DEFINE full == Stages[stage].does
<1>1. StoresTyped
  BY DEF HoldInv
<1>2. /\ Op \in Operation /\ status = "running" /\ status' = status /\ stage' = stage
      /\ Stages' = Stages /\ Contains(full, Op)
  BY OperationFacts
<1>3. full \in Seq(SparingOps)
  BY StageRole DEF StageIs
<1>. HIDE DEF full
<1>4. Op \in SparingOps
  BY <1>2, <1>3 DEF Contains
<1>5. Op.do = "conclude" \/ (Op.do \in DeletionVerbs /\ Op.who # One)
  BY <1>4 DEF SparingOps
<1>6. Op.do \notin {"put", "write", "install", "run", "rebuild"}
  BY <1>5 DEF DeletionVerbs
<1>7. files' = files /\ cipher' = cipher /\ tombstones' = tombstones /\ controls' = controls
  BY <1>1, <1>6, StoreEffects, KeyEffects
<1>8. online'[One] = online[One]
  BY <1>1, <1>5, <1>6, OnlineEffects
<1>9. key'[One] = key[One]
  BY <1>5, <1>6, KeyEffects
<1>10. FactsHeld' = FactsHeld /\ GuardsHeld' = GuardsHeld
  BY <1>7, <1>8, <1>9, HeldSame
<1>11. Mode' = Mode
  BY <1>2 DEF Mode
<1>. QED  BY <1>10, <1>11, WorldStands

LEMMA OperationMaps ==
  ASSUME BaseInv, GenInv, HoldInv, OperationStep
  PROVE  World!Next \/ UNCHANGED World!worldVars
<1>1. StageIs(trial, Stages[stage])
  BY StageRole
<1>2. CASE Stages[stage].mode = "preparing"
  <2>1. status = "running" /\ status' = status /\ stage' = stage /\ Stages' = Stages
    BY OperationFacts
  <2>2. Mode = "preparing" /\ Mode' = "preparing"
    BY <1>2, <2>1 DEF Mode
  <2>. QED  BY <2>2, OperationHolds, PrepareStep
<1>3. CASE Stages[stage].mode \in {"running", "promised"} /\ trial.kind # "pilot"
  BY <1>3, ReplayStep
<1>4. CASE Stages[stage].mode = "promised" /\ trial.kind = "pilot"
  BY <1>4, SparingStep
<1>. QED  BY <1>1, <1>2, <1>3, <1>4 DEF StageIs

\* The stage before a promise ends with facts that nothing unguarded starts from.
LEMMA PromiseIsStable ==
  ASSUME BaseInv, HoldInv, todo = <<>>, stage < Len(Stages),
         Stages[stage].mode = "preparing", Stages[stage + 1].mode = "promised"
  PROVE  World!Stable(FactsHeld, GuardsHeld)
<1>1. /\ StoresTyped /\ KeyGoes /\ Clearing /\ Destroying /\ Installing
  BY DEF HoldInv
<1>2. \A op : ~ Comes(op)
  BY DEF Comes, Contains
<1>3. /\ Planned(trial, Stages) /\ stage \in 1..Len(Stages) /\ Len(Stages) \in Nat /\ stage \in Nat
      /\ ClearStage(trial) \in Nat
  BY StageRole
<1>4. \/ trial.kind = "pilot" /\ stage = 2
      \/ trial.kind \notin {"pilot", "storage"} /\ stage = ClearStage(trial) + 1
  <2>1. stage + 1 \in 1..Len(Stages) /\ Orderly(trial, Stages)
    BY <1>3 DEF Planned
  <2>2. \/ trial.kind = "pilot" /\ stage + 1 > 2
        \/ trial.kind \notin {"pilot", "storage"} /\ stage + 1 = ClearStage(trial) + 2
    BY <2>1 DEF Orderly
  <2>3. trial.kind = "pilot" => ~ stage > 2
    BY <1>3, <2>1 DEF Orderly
  <2>. QED  BY <1>3, <2>2, <2>3
<1>5. FactsHeld = online[One] \union files \union (IF Opens(One) THEN {"carrier-backup"} ELSE {})
  BY DEF FactsHeld, One
<1>6. CASE trial.kind = "pilot" /\ stage = 2
  <2>1. online[One] = {}
    BY <1>1, <1>2, <1>6, ClearAtLeast DEF Clearing
  <2>2. ~ Opens(One)
    BY <1>1, <1>2, <1>6 DEF Destroying, Opens
  <2>3. files = {}
    <3>1. LatentOf(trial) \intersect LatentFiles = {}
      BY <1>6 DEF LatentOf, LatentFiles
    <3>. QED  BY <1>1, <3>1 DEF StoresTyped
  <2>4. FactsHeld = {}
    BY <1>5, <2>1, <2>2, <2>3
  <2>. QED  BY <2>4, StableWhen
<1>7. CASE trial.kind \notin {"pilot", "storage"} /\ stage = ClearStage(trial) + 1
  <2>1. /\ online[One] = {}
        /\ trial.kind # "single" => controls = StagePlan
        /\ Tombstone \in StagePlan => One \in tombstones
    BY <1>1, <1>2, <1>7 DEF Installing
  <2>2. Covers(trial, StagePlan)
    BY <1>3, <1>7 DEF Planned, Controlled, StagePlan
  <2>3. files \subseteq LatentOf(trial) /\ files \subseteq AllCarriers
    BY <1>1 DEF StoresTyped, LatentFiles
  <2>4. Opens(One) => "carrier-backup" \in LatentOf(trial)
    <3>1. Opens(One) => key[One] # 0
      BY DEF Opens
    <3>. QED  BY <1>1, <1>2, <3>1 DEF KeyGoes
  <2>5. FactsHeld \in SUBSET AllCarriers /\ FactsHeld \subseteq LatentOf(trial)
    <3>1. "carrier-backup" \in AllCarriers
      BY DEF AllCarriers
    <3>. QED  BY <1>5, <2>1, <2>3, <2>4, <3>1
  <2>6. GuardsHeld = GuardIds(controls) \union (IF One \in tombstones THEN Reactivations ELSE {})
    BY DEF GuardsHeld, One
  <2>7. ASSUME NEW t \in Reactivations, CarrierOf[t] \in FactsHeld PROVE t \in GuardsHeld
    <3>1. CASE Tombstone \in StagePlan
      BY <2>1, <2>6, <3>1
    <3>2. CASE Tombstone \notin StagePlan
      <4>1. trial.kind # "single" /\ t \in GuardIds(StagePlan)
        BY <2>2, <2>5, <2>7, <3>2 DEF Covers
      <4>. QED  BY <2>1, <2>6, <4>1
    <3>. QED  BY <3>1, <3>2
  <2>. QED  BY <2>5, <2>7, StableWhen
<1>. QED  BY <1>4, <1>6, <1>7

LEMMA NextStageMaps ==
  ASSUME BaseInv, HoldInv, NextStage
  PROVE  World!Next \/ UNCHANGED World!worldVars
<1>1. /\ status = "running" /\ todo = <<>> /\ UNCHANGED <<disk, memory>>
      /\ \/ stage < Len(Stages) /\ stage' = stage + 1 /\ status' = status
         \/ stage' = stage /\ status' = "done"
  BY DEF NextStage
<1>2. Stages' = Stages
  BY NextStageFacts
<1>3. FactsHeld' = FactsHeld /\ GuardsHeld' = GuardsHeld
  <2>1. /\ online' = online /\ key' = key /\ cipher' = cipher /\ files' = files
        /\ controls' = controls /\ tombstones' = tombstones
    BY <1>1 DEF disk
  <2>. QED  BY <2>1, HeldSame
<1>4. CASE stage' = stage /\ status' = "done"
  <2>1. Mode' = Mode
    BY <1>1, <1>2, <1>4 DEF Mode
  <2>. QED  BY <1>3, <2>1, WorldStands
<1>5. CASE stage < Len(Stages) /\ stage' = stage + 1 /\ status' = status
  <2>1. Mode = Stages[stage].mode /\ Mode' = Stages[stage + 1].mode
    BY <1>1, <1>2, <1>5 DEF Mode
  <2>2. /\ Planned(trial, Stages) /\ stage \in 1..Len(Stages) /\ stage + 1 \in 1..Len(Stages)
        /\ stage \in Nat /\ Len(Stages) \in Nat /\ ClearStage(trial) \in Nat
    BY <1>5, StageRole
  <2>3. /\ Mode \in {"preparing", "running", "promised"}
        /\ Mode' \in {"preparing", "running", "promised"}
    <3>1. StageIs(trial, Stages[stage]) /\ StageIs(trial, Stages[stage + 1])
      BY <2>2 DEF Planned, Orderly
    <3>. QED  BY <2>1, <3>1 DEF StageIs
  <2>4. CASE Mode' = Mode
    BY <1>3, <2>4, WorldStands
  <2>5. CASE Mode # "preparing" /\ Mode' = "preparing"
    BY <1>3, <2>3, <2>5, WorldStops
  <2>6. CASE Mode = "preparing" /\ Mode' # "preparing"
    <3>1. Mode' = "promised" => World!Stable(FactsHeld, GuardsHeld)
      BY <1>1, <1>5, <2>1, <2>6, PromiseIsStable
    <3>. QED  BY <1>3, <2>3, <2>6, <3>1, WorldBegins
  <2>7. Mode = "promised" => Mode' = "promised"
    <3>. SUFFICES ASSUME Mode = "promised" PROVE Mode' = "promised"
      OBVIOUS
    <3>1. trial.kind = "pilot" /\ stage > 2
      BY <1>5, <2>1, <2>2 DEF Planned, Orderly
    <3>2. stage + 1 > 2
      BY <2>2, <3>1
    <3>. QED  BY <2>1, <2>2, <3>1, <3>2 DEF Planned, Orderly
  <2>8. Mode' = "promised" => Mode # "running"
    <3>. SUFFICES ASSUME Mode' = "promised", Mode = "running" PROVE FALSE
      OBVIOUS
    <3>1. trial.kind # "pilot"
      BY <2>1, <2>2 DEF Planned, Orderly
    <3>2. trial.kind \notin {"pilot", "storage"} /\ stage + 1 = ClearStage(trial) + 2
      BY <2>1, <2>2, <3>1 DEF Planned, Orderly
    <3>3. stage = ClearStage(trial) + 1
      BY <2>2, <3>2
    <3>. QED  BY <2>1, <2>2, <3>2, <3>3 DEF Planned, Controlled
  <2>. QED  BY <2>3, <2>4, <2>5, <2>6, <2>7, <2>8
<1>. QED  BY <1>1, <1>4, <1>5

\* The trial starts over, on a disk that is as it was or on one of which a file
\* is torn.
LEMMA RerunMaps ==
  ASSUME BaseInv, HoldInv, HoldInv', Rerun,
         \/ Stages[stage].mode = "preparing" \/ status = "failed"
         \/ FactsHeld' = FactsHeld /\ GuardsHeld' = GuardsHeld
  PROVE  World!Next \/ UNCHANGED World!worldVars
<1>1. stage' = 1 /\ status' = "running" /\ Stages' = Stages
  BY RerunFacts DEF Rerun
<1>2. Planned(trial, Stages) /\ StageIs(trial, Stages[stage])
  BY StageRole
<1>3. Mode' = "preparing"
  BY <1>1, <1>2 DEF Mode, Planned, Orderly
<1>4. CASE Mode = "preparing"
  BY <1>3, <1>4, PrepareStep
<1>5. CASE Mode # "preparing"
  <2>1. Mode \in {"running", "promised"} /\ FactsHeld' = FactsHeld /\ GuardsHeld' = GuardsHeld
    BY <1>2, <1>5 DEF Mode, StageIs
  <2>. QED  BY <1>3, <2>1, WorldStops
<1>. QED  BY <1>4, <1>5

LEMMA KillMaps ==
  ASSUME BaseInv, HoldInv, HoldInv', KillInWrite
  PROVE  World!Next \/ UNCHANGED World!worldVars
<1>1. /\ Rerun /\ status = "running" /\ todo # <<>>
      /\ online' = online /\ files' = files /\ controls' = controls /\ tombstones' = tombstones
      /\ (cipher' = cipher /\ key' = key) \/ Op.do = "put"
  BY DEF KillInWrite
<1>2. CASE cipher' = cipher /\ key' = key
  <2>1. FactsHeld' = FactsHeld /\ GuardsHeld' = GuardsHeld
    BY <1>1, <1>2, HeldSame
  <2>. QED  BY <1>1, <2>1, RerunMaps
<1>3. CASE Op.do = "put"
  <2>1. /\ LeftOf(Stages[stage].does, todo) /\ Stages[stage].does \in Seq(Operation)
        /\ stage # 1 => Uses(Stages[stage].does, NoPut)
        /\ stage \in Nat
    BY StageFacts DEF BaseInv
  <2>2. 1 \in 1..Len(todo) /\ Op = todo[1]
    BY <1>1, <2>1 DEF LeftOf, Op
  <2>3. stage = 1
    <3>1. stage # 1 => Uses(todo, NoPut)
      BY <2>1, LeftFacts
    <3>. QED  BY <1>3, <2>2, <3>1, VerbFacts DEF Uses
  <2>4. Stages[stage].mode = "preparing"
    BY <2>3, StageRole DEF Planned, Orderly
  <2>. QED  BY <1>1, <2>4, RerunMaps
<1>. QED  BY <1>1, <1>2, <1>3

LEMMA FailMaps ==
  ASSUME BaseInv, Fail
  PROVE  World!Next \/ UNCHANGED World!worldVars
<1>1. status = "running" /\ status' = "failed" /\ UNCHANGED disk
  BY DEF Fail
<1>2. FactsHeld' = FactsHeld /\ GuardsHeld' = GuardsHeld
  <2>1. /\ online' = online /\ key' = key /\ cipher' = cipher /\ files' = files
        /\ controls' = controls /\ tombstones' = tombstones
    BY <1>1 DEF disk
  <2>. QED  BY <2>1, HeldSame
<1>3. Mode' = "preparing" /\ Mode = Stages[stage].mode
  BY <1>1 DEF Mode
<1>4. Mode \in {"preparing", "running", "promised"}
  BY <1>3, StageRole DEF StageIs
<1>. QED  BY <1>2, <1>3, <1>4, WorldStops, WorldStands

LEMMA StepMaps ==
  BaseInv /\ GenInv /\ HoldInv /\ [Next]_vars => [World!Next]_World!worldVars
<1>. SUFFICES ASSUME BaseInv, GenInv, HoldInv, [Next]_vars
              PROVE  World!Next \/ UNCHANGED World!worldVars
  OBVIOUS
<1>1. HoldInv'
  BY StepHolds
<1>2. CASE OperationStep
  BY <1>2, OperationMaps
<1>3. CASE NextStage
  BY <1>3, NextStageMaps
<1>4. CASE Crash
  <2>1. Rerun /\ UNCHANGED disk
    BY <1>4 DEF Crash
  <2>2. /\ online' = online /\ key' = key /\ cipher' = cipher /\ files' = files
        /\ controls' = controls /\ tombstones' = tombstones
    BY <2>1 DEF disk
  <2>3. FactsHeld' = FactsHeld /\ GuardsHeld' = GuardsHeld
    BY <2>2, HeldSame
  <2>. QED  BY <1>1, <2>1, <2>3, RerunMaps
<1>5. CASE KillInWrite
  BY <1>1, <1>5, KillMaps
<1>6. CASE Fail
  BY <1>6, FailMaps
<1>7. CASE Ended \/ UNCHANGED vars
  <2>1. UNCHANGED vars
    BY <1>7 DEF Ended
  <2>2. /\ online' = online /\ key' = key /\ cipher' = cipher /\ files' = files
        /\ controls' = controls /\ tombstones' = tombstones
        /\ trial' = trial /\ stage' = stage /\ status' = status
    BY <2>1 DEF vars, disk
  <2>3. Mode' = Mode
    BY <2>2 DEF Mode, Stages
  <2>. QED  BY <2>2, <2>3, HeldSame, WorldStands
<1>. QED  BY <1>2, <1>3, <1>4, <1>5, <1>6, <1>7 DEF Next, TrialStep, OperationStep

LEMMA InitMaps == Init => World!Init
<1>. SUFFICES ASSUME Init PROVE World!Init
  OBVIOUS
<1>1. /\ stage = 1 /\ status = "running" /\ online = [s \in SubjectIds |-> {}]
      /\ key = [s \in SubjectIds |-> 0] /\ files = {} /\ controls = {} /\ tombstones = {}
      /\ One \in SubjectIds
  BY SubjectFacts DEF Init
<1>2. FactsHeld = {}
  <2>1. online[One] = {} /\ key[One] = 0
    BY <1>1
  <2>. QED  BY <1>1, <2>1 DEF FactsHeld, Opens, One
<1>3. GuardsHeld = {}
  BY <1>1 DEF GuardsHeld, GuardIds
<1>4. Mode = "preparing"
  <2>1. BaseInv
    BY InitBase
  <2>. QED  BY <1>1, <2>1, StageRole DEF Mode, Planned, Orderly
<1>. QED  BY <1>2, <1>3, <1>4 DEF World!Init, Mode

\* For any subjects, trials and number of kills, between two writes or inside one:
\* in the replays of the trials every write of RegisteredStoreLab is a registered
\* transition that no installed control guards, and the facts that a promise is
\* made for are stable (temporal_multipath.py, temporal_robust_lab.py,
\* temporal_lab.py, run_egov_pilot_simulator.py).
THEOREM StoresImplementWorld == Spec => ImplementsWorld
<1>1. Init => BaseInv /\ GenInv /\ HoldInv
  BY InitBase, InitGenerations, InitHolds
<1>2. BaseInv /\ GenInv /\ HoldInv /\ [Next]_vars => (BaseInv /\ GenInv /\ HoldInv)'
  BY StepBase, StepGenerations, StepHolds
<1>. QED  BY <1>1, <1>2, StepMaps, InitMaps, PTL DEF Spec, ImplementsWorld, World!WorldSpec

-----------------------------------------------------------------------------
(* The promise of the world is kept.                                       *)

\* A set of clean states that the unguarded transitions do not leave.
Refuge(states) ==
  /\ \A s \in states : ~ World!HoldsSubjectData(s)
  /\ \A s \in states : \A t \in TransitionIds \ GuardsHeld :
       World!Enables(Workflows[t], s) => World!Result(Workflows[t], s) \in states

PromiseInv == Mode = "promised" => \E states : FactsHeld \in states /\ Refuge(states)

\* The promise is given only where there is a refuge.
LEMMA StableHasRefuge ==
  ASSUME World!Stable(FactsHeld, GuardsHeld)
  PROVE  \E states : FactsHeld \in states /\ Refuge(states)
<1>. DEFINE c == World!CaseFrom(FactsHeld, GuardsHeld)
            reached == World!Reachable(c)
<1>1. /\ c.snapshot = FactsHeld /\ c.workflows = Workflows
      /\ World!Unguarded(c) = TransitionIds \ GuardsHeld
  BY DEF World!CaseFrom, World!Unguarded
<1>2. /\ FactsHeld \in reached /\ World!Successors(c, reached) \subseteq reached
      /\ \A s \in reached : ~ World!HoldsSubjectData(s)
  BY <1>1 DEF World!Stable, World!StaysClean
<1>. HIDE DEF reached, c
<1>3. ASSUME NEW s \in reached, NEW t \in TransitionIds \ GuardsHeld,
             World!Enables(Workflows[t], s)
      PROVE  World!Result(Workflows[t], s) \in reached
  <2>1. World!Result(Workflows[t], s) \in World!Successors(c, reached)
    BY <1>1, <1>3 DEF World!Successors
  <2>. QED  BY <1>2, <2>1
<1>. QED  BY <1>2, <1>3 DEF Refuge

LEMMA StepPromise == PromiseInv /\ [World!Next]_World!worldVars => PromiseInv'
<1>. SUFFICES ASSUME PromiseInv, World!Next \/ UNCHANGED World!worldVars PROVE PromiseInv'
  OBVIOUS
<1>1. CASE UNCHANGED World!worldVars
  <2>1. Mode' = Mode /\ FactsHeld' = FactsHeld /\ GuardsHeld' = GuardsHeld
    BY <1>1 DEF World!worldVars, Mode
  <2>. QED  BY <2>1 DEF PromiseInv, Refuge
<1>2. CASE World!Prepare \/ World!Stop
  <2>1. Mode' = "preparing"
    BY <1>2 DEF World!Prepare, World!Stop, Mode
  <2>. QED  BY <2>1 DEF PromiseInv
<1>3. CASE World!Begin
  <2>1. /\ Mode' = "promised" => World!Stable(FactsHeld, GuardsHeld)
        /\ FactsHeld' = FactsHeld /\ GuardsHeld' = GuardsHeld
    BY <1>3 DEF World!Begin, Mode
  <2>. QED  BY <2>1, StableHasRefuge DEF PromiseInv, Refuge
<1>4. ASSUME NEW t \in TransitionIds, World!Run(t) PROVE PromiseInv'
  <2>1. /\ Mode' = Mode /\ GuardsHeld' = GuardsHeld /\ t \in TransitionIds \ GuardsHeld
        /\ World!Enables(Workflows[t], FactsHeld) /\ FactsHeld' = World!Result(Workflows[t], FactsHeld)
    BY <1>4 DEF World!Run, World!Moves, Mode
  <2>2. ASSUME Mode = "promised" PROVE \E states : FactsHeld' \in states /\ Refuge(states)'
    <3>1. PICK states : FactsHeld \in states /\ Refuge(states)
      BY <2>2 DEF PromiseInv
    <3>2. FactsHeld' \in states
      BY <2>1, <3>1 DEF Refuge
    <3>3. Refuge(states)'
      BY <2>1, <3>1 DEF Refuge
    <3>. QED  BY <3>2, <3>3
  <2>. QED  BY <2>1, <2>2 DEF PromiseInv
<1>. QED  BY <1>1, <1>2, <1>3, <1>4 DEF World!Next

\* In the abstract world no subject data comes back while a promise stands (what
\* evaluate_rse means by RSE_VERIFIED).
THEOREM PromiseIsKept == World!WorldSpec => []World!PromiseKept
<1>1. World!Init => PromiseInv
  BY DEF World!Init, PromiseInv, Mode
<1>2. PromiseInv => World!PromiseKept
  BY DEF PromiseInv, World!PromiseKept, Refuge, Mode
<1>. QED  BY <1>1, <1>2, StepPromise, PTL DEF World!WorldSpec

\* While a promise stands, no online store holds the first subject.
PromiseMeansEmpty == Mode = "promised" => online[One] = {}

\* For any subjects, trials and number of kills: in the replays that the verdict
\* promises to regenerate nothing, and after its deletion in the pilot, no online
\* store of RegisteredStoreLab ever holds the subject.
THEOREM PromisedStoresStayEmpty == Spec => []PromiseMeansEmpty
<1>1. Init => BaseInv /\ GenInv /\ HoldInv
  BY InitBase, InitGenerations, InitHolds
<1>2. BaseInv /\ GenInv /\ HoldInv /\ [Next]_vars => (BaseInv /\ GenInv /\ HoldInv)'
  BY StepBase, StepGenerations, StepHolds
<1>3. HoldInv /\ World!PromiseKept => PromiseMeansEmpty
  <2>. SUFFICES ASSUME HoldInv, World!PromiseKept, Mode = "promised" PROVE online[One] = {}
    BY DEF PromiseMeansEmpty
  <2>1. FactsHeld \intersect Online = {}
    BY DEF World!PromiseKept, World!HoldsSubjectData, Mode
  <2>2. online[One] \subseteq FactsHeld
    BY DEF FactsHeld, One
  <2>3. online[One] \subseteq Online
    BY SubjectFacts DEF HoldInv, StoresTyped
  <2>. QED  BY <2>1, <2>2, <2>3
<1>. QED  BY <1>1, <1>2, <1>3, StoresImplementWorld, PromiseIsKept, PTL DEF Spec, ImplementsWorld

-----------------------------------------------------------------------------
(* The receipts of the pilot.                                              *)

\* The operations of a deletion, one by one.
LEMMA JoinOne ==
  ASSUME NEW p \in Seq(Operation), NEW q \in Seq(Operation), NEW n \in Nat, NEW m, m = n + 1,
         Len(p) = n, Len(q) = 1
  PROVE  /\ p \o q \in Seq(Operation) /\ Len(p \o q) = m /\ (p \o q)[m] = q[1]
         /\ \A i \in 1..n : (p \o q)[i] = p[i]
<1>. DEFINE r == p \o q
<1>1. /\ r \in Seq(Operation) /\ Len(r) = Len(p) + Len(q)
      /\ \A i \in 1..Len(p) : r[i] = p[i]
      /\ \A i \in 1..Len(q) : r[Len(p) + i] = q[i]
  BY JoinFacts
<1>. HIDE DEF r
<1>2. r[n + 1] = q[1]
  BY <1>1
<1>. QED  BY <1>1, <1>2 DEF r

LEMMA EachOne ==
  ASSUME NEW s \in SubjectIds, NEW verb \in Verbs \ {"run", "rebuild", "write"}, NEW what \in Online
  PROVE  /\ Each(verb, <<what>>, s) \in Seq(Operation) /\ Len(Each(verb, <<what>>, s)) = 1
         /\ Each(verb, <<what>>, s)[1] = OpOf(verb, what, s)
<1>1. <<what>> \in Seq(NamesOf(verb)) /\ Len(<<what>>) = 1 /\ <<what>>[1] = what /\ verb \in Verbs
  <2>1. what \in NamesOf(verb)
    BY NamesFacts DEF Names
  <2>. QED  BY <2>1
<1>. DEFINE names == <<what>>
            q == Each(verb, names, s)
<1>2. names \in Seq(NamesOf(verb)) /\ Len(names) = 1 /\ names[1] = what /\ 1 \in 1..1
  BY <1>1
<1>. HIDE DEF names
<1>3. /\ q \in Seq(Operation) /\ Len(q) = Len(names)
      /\ \A i \in 1..Len(names) : q[i] = [do |-> verb, what |-> names[i], who |-> s]
  BY <1>1, <1>2, EachFacts
<1>. HIDE DEF q
<1>4. q \in Seq(Operation) /\ Len(q) = 1 /\ q[1] = OpOf(verb, what, s)
  BY <1>2, <1>3 DEF OpOf
<1>. QED  BY <1>4 DEF q, names

LEMMA DeletionIs ==
  ASSUME NEW s \in SubjectIds
  PROVE  /\ Deletion(s) \in Seq(Operation) /\ Len(Deletion(s)) = 9
         /\ Deletion(s)[1] = OpOf("drop", "postgres", s)
         /\ Deletion(s)[2] = OpOf("audit", "all", s)
         /\ Deletion(s)[3] = OpOf("drop", "vector-index", s)
         /\ Deletion(s)[4] = OpOf("drop", "cache", s)
         /\ Deletion(s)[5] = OpOf("destroy key", "all", s)
         /\ Deletion(s)[6] = OpOf("drop", "model", s)
         /\ Deletion(s)[7] = OpOf("audit", "all", s)
         /\ Deletion(s)[8] = OpOf("issue", "all", s)
         /\ Deletion(s)[9] = OpOf("verify", "all", s)
<1>. DEFINE a == Each("drop", <<"postgres">>, s)
            b == Once("audit", s)
            c == Each("drop", <<"vector-index", "cache">>, s)
            d == Once("destroy key", s)
            e == Each("drop", <<"model">>, s)
            f == Once("issue", s)
            g == Once("verify", s)
<1>1. /\ "drop" \in Verbs \ {"run", "rebuild", "write"} /\ "audit" \in Verbs \ {"run", "rebuild", "write"}
      /\ "destroy key" \in Verbs \ {"run", "rebuild", "write"}
      /\ "issue" \in Verbs \ {"run", "rebuild", "write"} /\ "verify" \in Verbs \ {"run", "rebuild", "write"}
      /\ "postgres" \in Online /\ "model" \in Online
  BY DEF Verbs, Online
<1>2. a \in Seq(Operation) /\ Len(a) = 1 /\ a[1] = OpOf("drop", "postgres", s)
  BY <1>1, EachOne
<1>3. e \in Seq(Operation) /\ Len(e) = 1 /\ e[1] = OpOf("drop", "model", s)
  BY <1>1, EachOne
<1>4. b \in Seq(Operation) /\ Len(b) = 1 /\ b[1] = OpOf("audit", "all", s)
  BY <1>1, OnceFacts DEF OpOf
<1>5. d \in Seq(Operation) /\ Len(d) = 1 /\ d[1] = OpOf("destroy key", "all", s)
  BY <1>1, OnceFacts DEF OpOf
<1>6. f \in Seq(Operation) /\ Len(f) = 1 /\ f[1] = OpOf("issue", "all", s)
  BY <1>1, OnceFacts DEF OpOf
<1>7. g \in Seq(Operation) /\ Len(g) = 1 /\ g[1] = OpOf("verify", "all", s)
  BY <1>1, OnceFacts DEF OpOf
<1>8. /\ c \in Seq(Operation) /\ Len(c) = 2 /\ c[1] = OpOf("drop", "vector-index", s)
      /\ c[2] = OpOf("drop", "cache", s)
  <2>. DEFINE names == <<"vector-index", "cache">>
  <2>1. /\ names \in Seq(NamesOf("drop")) /\ Len(names) = 2 /\ names[1] = "vector-index"
        /\ names[2] = "cache"
    <3>1. "vector-index" \in NamesOf("drop") /\ "cache" \in NamesOf("drop")
      BY NamesFacts DEF Names, Online
    <3>. QED  BY <3>1
  <2>2. c = Each("drop", names, s)
    OBVIOUS
  <2>. HIDE DEF names, c
  <2>3. 1 \in 1..Len(names) /\ 2 \in 1..Len(names)
    BY <2>1
  <2>4. "drop" \in Verbs
    BY <1>1
  <2>. QED  BY <2>1, <2>2, <2>3, <2>4, EachFacts DEF OpOf
<1>9. Deletion(s) = a \o b \o (c \o d \o e) \o b \o f \o g
  BY DEF Deletion, Audit, Remediate
<1>. HIDE DEF a, b, c, d, e, f, g
<1>10. /\ a \o b \in Seq(Operation) /\ Len(a \o b) = 2 /\ (a \o b)[1] = a[1] /\ (a \o b)[2] = b[1]
  <2>1. 1 \in Nat /\ 1 \in 1..1 /\ 2 = 1 + 1
    OBVIOUS
  <2>. QED  BY <2>1, <1>2, <1>4, JoinOne
<1>11. /\ c \o d \in Seq(Operation) /\ Len(c \o d) = 3
       /\ (c \o d)[1] = c[1] /\ (c \o d)[2] = c[2] /\ (c \o d)[3] = d[1]
  <2>. DEFINE r == c \o d
  <2>1. /\ c \in Seq(Operation) /\ d \in Seq(Operation) /\ Len(c) = 2 /\ Len(d) = 1
    BY <1>8, <1>5
  <2>2. /\ r \in Seq(Operation) /\ Len(r) = Len(c) + Len(d)
        /\ \A i \in 1..Len(c) : r[i] = c[i]
        /\ \A i \in 1..Len(d) : r[Len(c) + i] = d[i]
    BY <2>1, JoinFacts
  <2>. HIDE DEF r
  <2>3. r[2 + 1] = d[1]
    BY <2>1, <2>2
  <2>. QED  BY <2>1, <2>2, <2>3, <1>8 DEF r
<1>. DEFINE cd == c \o d
            ab == a \o b
<1>. HIDE DEF cd, ab
<1>12. /\ cd \o e \in Seq(Operation) /\ Len(cd \o e) = 4
       /\ (cd \o e)[1] = c[1] /\ (cd \o e)[2] = c[2] /\ (cd \o e)[3] = d[1] /\ (cd \o e)[4] = e[1]
  <2>1. 3 \in Nat /\ 1 \in 1..3 /\ 2 \in 1..3 /\ 3 \in 1..3 /\ 4 = 3 + 1
    OBVIOUS
  <2>. QED  BY <2>1, <1>11, <1>3, JoinOne DEF cd
<1>. DEFINE m == cd \o e
<1>. HIDE DEF m
<1>13. /\ ab \o m \in Seq(Operation) /\ Len(ab \o m) = 6
       /\ (ab \o m)[1] = a[1] /\ (ab \o m)[2] = b[1] /\ (ab \o m)[3] = c[1]
       /\ (ab \o m)[4] = c[2] /\ (ab \o m)[5] = d[1] /\ (ab \o m)[6] = e[1]
  <2>. DEFINE r == ab \o m
  <2>1. /\ r \in Seq(Operation) /\ Len(r) = Len(ab) + Len(m)
        /\ \A i \in 1..Len(ab) : r[i] = ab[i]
        /\ \A i \in 1..Len(m) : r[Len(ab) + i] = m[i]
    BY <1>10, <1>12, JoinFacts DEF ab, m
  <2>2. Len(ab) = 2 /\ Len(m) = 4 /\ ab[1] = a[1] /\ ab[2] = b[1]
        /\ m[1] = c[1] /\ m[2] = c[2] /\ m[3] = d[1] /\ m[4] = e[1]
    BY <1>10, <1>12 DEF ab, m
  <2>. HIDE DEF r
  <2>3. /\ r[1] = ab[1] /\ r[2] = ab[2] /\ r[2 + 1] = m[1] /\ r[2 + 2] = m[2]
        /\ r[2 + 3] = m[3] /\ r[2 + 4] = m[4]
    BY <2>1, <2>2
  <2>. QED  BY <2>1, <2>2, <2>3 DEF r
<1>. DEFINE h == ab \o m
<1>. HIDE DEF h
<1>14. /\ h \o b \in Seq(Operation) /\ Len(h \o b) = 7 /\ (h \o b)[7] = b[1]
       /\ \A i \in 1..6 : (h \o b)[i] = h[i]
  <2>. DEFINE r == h \o b
  <2>1. /\ h \in Seq(Operation) /\ b \in Seq(Operation) /\ Len(h) = 6 /\ Len(b) = 1
    BY <1>13, <1>4 DEF h
  <2>2. /\ r \in Seq(Operation) /\ Len(r) = Len(h) + Len(b)
        /\ \A i \in 1..Len(h) : r[i] = h[i]
        /\ \A i \in 1..Len(b) : r[Len(h) + i] = b[i]
    BY <2>1, JoinFacts
  <2>. HIDE DEF r
  <2>3. r[6 + 1] = b[1]
    BY <2>1, <2>2
  <2>. QED  BY <2>1, <2>2, <2>3 DEF r
<1>. DEFINE k == h \o b
<1>. HIDE DEF k
<1>15. /\ k \o f \in Seq(Operation) /\ Len(k \o f) = 8 /\ (k \o f)[8] = f[1]
       /\ \A i \in 1..7 : (k \o f)[i] = k[i]
  <2>. DEFINE r == k \o f
  <2>1. /\ k \in Seq(Operation) /\ f \in Seq(Operation) /\ Len(k) = 7 /\ Len(f) = 1
    BY <1>14, <1>6 DEF k
  <2>2. /\ r \in Seq(Operation) /\ Len(r) = Len(k) + Len(f)
        /\ \A i \in 1..Len(k) : r[i] = k[i]
        /\ \A i \in 1..Len(f) : r[Len(k) + i] = f[i]
    BY <2>1, JoinFacts
  <2>. HIDE DEF r
  <2>3. r[7 + 1] = f[1]
    BY <2>1, <2>2
  <2>. QED  BY <2>1, <2>2, <2>3 DEF r
<1>. DEFINE l == k \o f
<1>. HIDE DEF l
<1>16. /\ l \o g \in Seq(Operation) /\ Len(l \o g) = 9 /\ (l \o g)[9] = g[1]
       /\ \A i \in 1..8 : (l \o g)[i] = l[i]
  <2>. DEFINE r == l \o g
  <2>1. /\ l \in Seq(Operation) /\ g \in Seq(Operation) /\ Len(l) = 8 /\ Len(g) = 1
    BY <1>15, <1>7 DEF l
  <2>2. /\ r \in Seq(Operation) /\ Len(r) = Len(l) + Len(g)
        /\ \A i \in 1..Len(l) : r[i] = l[i]
        /\ \A i \in 1..Len(g) : r[Len(l) + i] = g[i]
    BY <2>1, JoinFacts
  <2>. HIDE DEF r
  <2>3. r[8 + 1] = g[1]
    BY <2>1, <2>2
  <2>. QED  BY <2>1, <2>2, <2>3 DEF r
<1>17. Deletion(s) = l \o g
  BY <1>9 DEF l, k, h, ab, m, cd
<1>18. /\ \A i \in 1..6 : (l \o g)[i] = h[i]
       /\ (l \o g)[7] = b[1] /\ (l \o g)[8] = f[1] /\ (l \o g)[9] = g[1]
  <2>1. \A i \in 1..6 : i \in 1..7 /\ i \in 1..8
    OBVIOUS
  <2>. QED  BY <2>1, <1>14, <1>15, <1>16 DEF k, l
<1>19. /\ h[1] = a[1] /\ h[2] = b[1] /\ h[3] = c[1] /\ h[4] = c[2] /\ h[5] = d[1] /\ h[6] = e[1]
  BY <1>13 DEF h
<1>20. \A i \in 1..6 : Deletion(s)[i] = h[i]
  BY <1>17, <1>18
<1>21. /\ Deletion(s)[1] = h[1] /\ Deletion(s)[2] = h[2] /\ Deletion(s)[3] = h[3]
       /\ Deletion(s)[4] = h[4] /\ Deletion(s)[5] = h[5] /\ Deletion(s)[6] = h[6]
  BY <1>20
<1>22. /\ Deletion(s) \in Seq(Operation) /\ Len(Deletion(s)) = 9
       /\ Deletion(s)[7] = b[1] /\ Deletion(s)[8] = f[1] /\ Deletion(s)[9] = g[1]
  BY <1>16, <1>17, <1>18
<1>. QED  BY <1>2, <1>3, <1>4, <1>5, <1>6, <1>7, <1>8, <1>19, <1>21, <1>22

-----------------------------------------------------------------------------
\* Where the pilot is: the subject in hand and the operations done for it.
Erasing == stage \in 2..(Deletions + 1)
Progress == IF Erasing THEN 9 - Len(todo) ELSE 0
InHand == Subjects[stage - 1]

LEMMA PilotIs ==
  ASSUME BaseInv, trial.kind = "pilot"
  PROVE  /\ Len(Stages) = Deletions + 2 /\ Stages[1].does = EnrollAll /\ First = EnrollAll
         /\ \A i \in 2..(Deletions + 1) : Stages[i].does = Deletion(Subjects[i - 1])
         /\ Stages[Deletions + 2].does = Once("conclude", One)
         /\ stage \in 1..(Deletions + 2)
<1>1. Stages = PilotTrial
  BY DEF BaseInv, Stages, Programs, Program
<1>2. /\ Len(PilotTrial) = Deletions + 2 /\ PilotTrial[1].does = EnrollAll
      /\ PilotTrial[Deletions + 2].does = Once("conclude", One)
  BY PilotFacts DEF Stage, ConcludeStage
<1>3. ASSUME NEW i \in 2..(Deletions + 1) PROVE PilotTrial[i].does = Deletion(Subjects[i - 1])
  <2>1. i - 1 \in 1..Deletions /\ (i - 1) + 1 = i
    BY SubjectFacts
  <2>2. PilotTrial[i] = DeletionStage(i - 1)
    BY <2>1, PilotFacts
  <2>. QED  BY <2>2 DEF DeletionStage, Stage
<1>4. First = Stages[1].does
  BY DEF First, Stages
<1>5. stage \in 1..Len(Stages)
  BY DEF BaseInv
<1>. HIDE DEF Stages
<1>. QED  BY <1>1, <1>2, <1>3, <1>4, <1>5

LEMMA ProgressFacts ==
  ASSUME BaseInv, trial.kind = "pilot", Erasing
  PROVE  /\ InHand \in SubjectIds /\ stage - 1 \in 1..Deletions /\ stage - 1 \in 1..Len(Subjects)
         /\ Progress \in 0..9 /\ Len(todo) = 9 - Progress /\ todo \in Seq(Operation)
         /\ todo = <<>> <=> Progress = 9
         /\ Progress < 9 => Op = Deletion(InHand)[Progress + 1]
<1>1. stage \in Nat /\ stage - 1 \in 1..Deletions /\ stage - 1 \in 1..Len(Subjects) /\ InHand \in SubjectIds
  BY SubjectFacts DEF Erasing, InHand
<1>. DEFINE full == Deletion(InHand)
<1>2. Len(full) = 9 /\ full \in Seq(Operation)
  BY <1>1, DeletionIs
<1>3. LeftOf(full, todo)
  BY PilotIs DEF BaseInv, Erasing, InHand
<1>. HIDE DEF full
<1>4. /\ todo \in Seq(Operation) /\ Len(todo) \in Nat /\ Len(todo) <= 9
      /\ \A i \in 1..Len(todo) : todo[i] = full[9 - Len(todo) + i]
  BY <1>2, <1>3 DEF LeftOf
<1>5. Progress = 9 - Len(todo)
  BY DEF Progress
<1>6. todo = <<>> <=> Len(todo) = 0
  BY <1>4
<1>7. ASSUME Len(todo) # 0 PROVE Op = full[9 - Len(todo) + 1]
  <2>1. 1 \in 1..Len(todo) /\ Head(todo) = todo[1]
    BY <1>4, <1>7
  <2>. QED  BY <1>4, <2>1 DEF Op
<1>8. /\ Progress \in 0..9 /\ Len(todo) = 9 - Progress
      /\ (todo = <<>>) <=> (Progress = 9)
  <2>. DEFINE m == Len(todo)
  <2>a. m \in 0..9
    <3>1. m \in Nat /\ m <= 9
      BY <1>4
    <3>. HIDE DEF m
    <3>. QED  BY <3>1
  <2>b. todo = <<>> <=> m = 0
    BY <1>6
  <2>c. Progress = 9 - m
    BY <1>5
  <2>1. m \in 0..9 /\ Progress = 9 - m /\ (todo = <<>> <=> m = 0)
    BY <2>a, <2>b, <2>c
  <2>. HIDE DEF m
  <2>2. Progress \in 0..9 /\ m = 9 - Progress /\ (m = 0 <=> Progress = 9)
    BY <2>1
  <2>. QED  BY <2>1, <2>2 DEF m
<1>9. Progress < 9 => Op = full[Progress + 1]
  BY <1>4, <1>5, <1>7
<1>. QED  BY <1>1, <1>4, <1>8, <1>9 DEF full

\* The operation in hand tells how far the deletion is.
LEMMA ErasingOp ==
  ASSUME BaseInv, trial.kind = "pilot", Erasing, Progress < 9
  PROVE  /\ Op.who = InHand
         /\ Progress = 0 => Op.do = "drop" /\ Op.what = "postgres"
         /\ Progress = 1 => Op.do = "audit"
         /\ Progress = 2 => Op.do = "drop" /\ Op.what = "vector-index"
         /\ Progress = 3 => Op.do = "drop" /\ Op.what = "cache"
         /\ Progress = 4 => Op.do = "destroy key"
         /\ Progress = 5 => Op.do = "drop" /\ Op.what = "model"
         /\ Progress = 6 => Op.do = "audit"
         /\ Progress = 7 => Op.do = "issue"
         /\ Progress = 8 => Op.do = "verify"
<1>. DEFINE s == InHand
            n == Progress
            q == Deletion(s)
<1>1. s \in SubjectIds /\ n \in 0..9 /\ Op = q[n + 1]
  BY ProgressFacts
<1>2. /\ q[1] = OpOf("drop", "postgres", s) /\ q[2] = OpOf("audit", "all", s)
      /\ q[3] = OpOf("drop", "vector-index", s) /\ q[4] = OpOf("drop", "cache", s)
      /\ q[5] = OpOf("destroy key", "all", s) /\ q[6] = OpOf("drop", "model", s)
      /\ q[7] = OpOf("audit", "all", s) /\ q[8] = OpOf("issue", "all", s)
      /\ q[9] = OpOf("verify", "all", s)
  BY <1>1, DeletionIs
<1>. HIDE DEF s, n, q
<1>3. n \in 0..8
  BY <1>1 DEF n
<1>4. \A verb, what : OpOf(verb, what, s).do = verb /\ OpOf(verb, what, s).what = what
                      /\ OpOf(verb, what, s).who = s
  BY DEF OpOf
<1>5. ASSUME n = 0 PROVE Op.who = s /\ Op.do = "drop" /\ Op.what = "postgres"
  <2>0. n + 1 = 1
    BY <1>5
  <2>1. Op = OpOf("drop", "postgres", s)
    BY <1>1, <1>2, <2>0
  <2>2. Op.who = s /\ Op.do = "drop" /\ Op.what = "postgres"
    BY <1>4, <2>1
  <2>. QED  BY <2>2
<1>6. ASSUME n = 1 PROVE Op.who = s /\ Op.do = "audit"
  <2>0. n + 1 = 2
    BY <1>6
  <2>1. Op = OpOf("audit", "all", s)
    BY <1>1, <1>2, <2>0
  <2>2. Op.who = s /\ Op.do = "audit"
    BY <1>4, <2>1
  <2>. QED  BY <2>2
<1>7. ASSUME n = 2 PROVE Op.who = s /\ Op.do = "drop" /\ Op.what = "vector-index"
  <2>0. n + 1 = 3
    BY <1>7
  <2>1. Op = OpOf("drop", "vector-index", s)
    BY <1>1, <1>2, <2>0
  <2>2. Op.who = s /\ Op.do = "drop" /\ Op.what = "vector-index"
    BY <1>4, <2>1
  <2>. QED  BY <2>2
<1>8. ASSUME n = 3 PROVE Op.who = s /\ Op.do = "drop" /\ Op.what = "cache"
  <2>0. n + 1 = 4
    BY <1>8
  <2>1. Op = OpOf("drop", "cache", s)
    BY <1>1, <1>2, <2>0
  <2>2. Op.who = s /\ Op.do = "drop" /\ Op.what = "cache"
    BY <1>4, <2>1
  <2>. QED  BY <2>2
<1>9. ASSUME n = 4 PROVE Op.who = s /\ Op.do = "destroy key"
  <2>0. n + 1 = 5
    BY <1>9
  <2>1. Op = OpOf("destroy key", "all", s)
    BY <1>1, <1>2, <2>0
  <2>2. Op.who = s /\ Op.do = "destroy key"
    BY <1>4, <2>1
  <2>. QED  BY <2>2
<1>10. ASSUME n = 5 PROVE Op.who = s /\ Op.do = "drop" /\ Op.what = "model"
  <2>0. n + 1 = 6
    BY <1>10
  <2>1. Op = OpOf("drop", "model", s)
    BY <1>1, <1>2, <2>0
  <2>2. Op.who = s /\ Op.do = "drop" /\ Op.what = "model"
    BY <1>4, <2>1
  <2>. QED  BY <2>2
<1>11. ASSUME n = 6 PROVE Op.who = s /\ Op.do = "audit"
  <2>0. n + 1 = 7
    BY <1>11
  <2>1. Op = OpOf("audit", "all", s)
    BY <1>1, <1>2, <2>0
  <2>2. Op.who = s /\ Op.do = "audit"
    BY <1>4, <2>1
  <2>. QED  BY <2>2
<1>12. ASSUME n = 7 PROVE Op.who = s /\ Op.do = "issue"
  <2>0. n + 1 = 8
    BY <1>12
  <2>1. Op = OpOf("issue", "all", s)
    BY <1>1, <1>2, <2>0
  <2>2. Op.who = s /\ Op.do = "issue"
    BY <1>4, <2>1
  <2>. QED  BY <2>2
<1>13. ASSUME n = 8 PROVE Op.who = s /\ Op.do = "verify"
  <2>0. n + 1 = 9
    BY <1>13
  <2>1. Op = OpOf("verify", "all", s)
    BY <1>1, <1>2, <2>0
  <2>2. Op.who = s /\ Op.do = "verify"
    BY <1>4, <2>1
  <2>. QED  BY <2>2
<1>0. n = 0 \/ n = 1 \/ n = 2 \/ n = 3 \/ n = 4 \/ n = 5 \/ n = 6 \/ n = 7 \/ n = 8
  BY <1>3
<1>14. Op.who = s
  BY <1>0, <1>5, <1>6, <1>7, <1>8, <1>9, <1>10, <1>11, <1>12, <1>13
<1>. QED  BY <1>5, <1>6, <1>7, <1>8, <1>9, <1>10, <1>11, <1>12, <1>13, <1>14 DEF s, n

LEMMA ConcludingOp ==
  ASSUME BaseInv, trial.kind = "pilot", stage = Deletions + 2, todo # <<>>
  PROVE  Op.do = "conclude" /\ Len(todo) = 1 /\ todo \in Seq(Operation)
<1>1. "conclude" \in Verbs \ {"run", "rebuild", "write"}
  BY DEF Verbs
<1>2. /\ Once("conclude", One) \in Seq(Operation) /\ Len(Once("conclude", One)) = 1
      /\ Once("conclude", One)[1] = [do |-> "conclude", what |-> "all", who |-> One]
  BY <1>1, OnceFacts, SubjectFacts
<1>3. LeftOf(Once("conclude", One), todo)
  BY PilotIs DEF BaseInv
<1>. DEFINE full == Once("conclude", One)
<1>. HIDE DEF full
<1>4. todo \in Seq(Operation) /\ Len(todo) = 1 /\ todo[1] = full[1]
  BY <1>2, <1>3 DEF LeftOf, full
<1>5. Op = todo[1]
  BY <1>4 DEF Op
<1>. QED  BY <1>2, <1>4, <1>5 DEF full

\* The pilot enrolls in its first stage and only there.
LEMMA EnrollingOp ==
  ASSUME BaseInv, trial.kind = "pilot", stage = 1, todo # <<>>
  PROVE  Op.do \in Enrolling
<1>1. LeftOf(EnrollAll, todo) /\ EnrollAll \in Seq(Operation) /\ Uses(EnrollAll, Enrolling)
  BY PilotIs, EnrollAllFacts DEF BaseInv
<1>2. Uses(todo, Enrolling) /\ todo \in Seq(Operation)
  BY <1>1, LeftFacts
<1>3. Op = todo[1] /\ 1 \in 1..Len(todo)
  BY <1>2 DEF Op
<1>. QED  BY <1>2, <1>3 DEF Uses

\* Only the pilot issues receipts.
LEMMA OthersIssueNothing ==
  ASSUME BaseInv, trial.kind # "pilot", OperationStep
  PROVE  Op.do \notin {"issue", "verify"}
<1>. DEFINE q == Stages[stage].does
<1>1. StageIs(trial, Stages[stage]) /\ Contains(q, Op)
  BY StageRole, OperationFacts
<1>2. Uses(q, SetUp) \/ q \in Seq(ReplayOps)
  BY <1>1 DEF StageIs, Replays
<1>. HIDE DEF q
<1>3. PICK i \in 1..Len(q) : q[i] = Op
  BY <1>1 DEF Contains
<1>4. CASE Uses(q, SetUp)
  BY <1>3, <1>4 DEF Uses, SetUp
<1>5. CASE q \in Seq(ReplayOps)
  <2>1. Op \in ReplayOps
    BY <1>3, <1>5
  <2>. QED  BY <2>1 DEF ReplayOps
<1>. QED  BY <1>2, <1>4, <1>5

\* What the operations record.
LEMMA RecordsKept ==
  ASSUME OperationStep
  PROVE  /\ Op.do # "audit" => audits' = audits
         /\ Op.do \notin {"issue", "verify"} => receipts' = receipts
         /\ Op.do # "conclude" => verdict' = verdict
         /\ Op.do = "audit" => AuditNow
         /\ Op.do = "issue" => Issue
         /\ Op.do = "verify" => Verify
         /\ Op.do = "conclude" => Conclude
<1>1. \A do : Does(do) => Op.do = do
  BY DEF Does, At, Op
<1>2. CASE PutOnline \/ PutCipher \/ PutKey
  BY <1>1, <1>2 DEF PutOnline, PutCipher, PutKey, Writes, memory
<1>3. CASE WriteCarrier \/ DropUnusedKey \/ Drop \/ DestroyBackup
  BY <1>1, <1>3 DEF WriteCarrier, DropUnusedKey, Drop, DestroyBackup, Writes, memory
<1>4. CASE InstallControls \/ InstallTombstone \/ DestroyCarrier
  BY <1>1, <1>4 DEF InstallControls, InstallTombstone, DestroyCarrier, Writes, memory
<1>5. CASE RunWorkflow \/ Rebuild
  BY <1>1, <1>5 DEF RunWorkflow, Rebuild, Writes, memory
<1>6. CASE ReadControls \/ Look
  BY <1>1, <1>6 DEF ReadControls, Look, memory
<1>7. CASE AuditNow \/ RefuseExisting \/ Create
  BY <1>1, <1>7 DEF AuditNow, RefuseExisting, Create, memory
<1>8. CASE Issue \/ Verify \/ Conclude
  BY <1>1, <1>8 DEF Issue, Verify, Conclude
<1>. QED  BY <1>2, <1>3, <1>4, <1>5, <1>6, <1>7, <1>8 DEF OperationStep

-----------------------------------------------------------------------------
\* The online stores that hold a subject after n operations of its deletion.
Held(n) ==
  IF n < 1 THEN Online
  ELSE IF n < 3 THEN {"vector-index", "cache", "model"}
  ELSE IF n < 4 THEN {"cache", "model"}
  ELSE IF n < 6 THEN {"model"}
  ELSE {}
Stands(s, n) == online[s] = Held(n) /\ IF n < 5 THEN Opens(s) ELSE key[s] = 0

\* The deletions are made one subject after the other.
Reached(j) == IF j < stage - 1 THEN 9 ELSE IF j = stage - 1 THEN Progress ELSE 0
StoresErased == \A j \in 1..Len(Subjects) : Stands(Subjects[j], Reached(j))

AuditsOf(n) == IF n < 2 THEN 0 ELSE IF n < 7 THEN 1 ELSE 2
AuditsMade ==
  /\ \E S : audits \in Seq(S)
  /\ Len(audits) = 2 * (stage - 2) + AuditsOf(Progress)
  /\ \A i \in 1..Deletions :
       /\ 2 * i - 1 <= Len(audits) => AuditStatus(audits[2 * i - 1].residual) = "INCOMPLETE"
       /\ 2 * i <= Len(audits) => audits[2 * i].residual = {}

\* Every receipt says COMPLETE of its subject and is chained to the one before.
Rightful(i) ==
  LET before == IF i = 1 THEN <<>> ELSE receipts[i - 1].receipt
  IN  receipts[i] = [receipt |-> Receipt(i, <<Subjects[i], {}>>, "COMPLETE", i, i, before),
                     valid |-> (i < Len(receipts) \/ Progress # 8)]
ReceiptsMade ==
  /\ \E S : receipts \in Seq(S)
  /\ Len(receipts) = (stage - 2) + (IF Progress < 8 THEN 0 ELSE 1)
  /\ \A i \in 1..Len(receipts) : Rightful(i)

\* Until a subject is enrolled, its files are still to be written.
Enrolled ==
  /\ audits = <<>> /\ receipts = <<>>
  /\ \A s \in SubjectIds :
       /\ \A x \in Online : x \in online[s] \/ Comes(PutOf(x, s))
       /\ cipher[s] # 0 \/ Comes(PutOf("cipher", s))
       /\ key[s] # 0 \/ Comes(PutOf("key", s))

Concluded ==
  /\ status = "done" => stage = Deletions + 2 /\ todo = <<>>
  /\ stage = Deletions + 2 /\ todo = <<>> => verdict = "success"

PilotInv ==
  /\ trial.kind # "pilot" => receipts = <<>>
  /\ trial.kind = "pilot" => /\ stage = 1 => Enrolled
                             /\ stage > 1 => StoresErased /\ AuditsMade /\ ReceiptsMade
                             /\ Concluded

LEMMA HeldFacts ==
  /\ Held(0) = Online /\ Held(1) = Online \ {"postgres"} /\ Held(2) = Held(1)
  /\ Held(3) = Held(2) \ {"vector-index"} /\ Held(4) = Held(3) \ {"cache"} /\ Held(5) = Held(4)
  /\ Held(6) = Held(5) \ {"model"} /\ Held(6) = {} /\ Held(7) = {} /\ Held(8) = {} /\ Held(9) = {}
  /\ "cache" \in Held(1)
BY DEF Held, Online

LEMMA AuditFacts ==
  /\ AuditStatus({}) = "COMPLETE"
  /\ \A present : "cache" \in present => AuditStatus(present) = "INCOMPLETE"
<1>1. "cache" \in { e[2] : e \in StoreEdges }
  <2>1. <<"postgres", "cache">> \in StoreEdges /\ <<"postgres", "cache">>[2] = "cache"
    BY DEF StoreEdges
  <2>. QED  BY <2>1
<1>. DEFINE reachable == {"postgres"} \union { e[2] : e \in StoreEdges }
<1>2. "cache" \in reachable /\ \A present : AuditStatus(present) =
        IF present \intersect reachable # {} THEN "INCOMPLETE" ELSE "COMPLETE"
  BY <1>1 DEF AuditStatus
<1>. HIDE DEF reachable
<1>. QED  BY <1>2

LEMMA AppendAny ==
  ASSUME NEW S, NEW q \in Seq(S), NEW e
  PROVE  /\ Append(q, e) \in Seq(S \union {e}) /\ Len(q) \in Nat /\ Len(Append(q, e)) = Len(q) + 1
         /\ Append(q, e)[Len(q) + 1] = e
         /\ \A i \in 1..Len(q) : Append(q, e)[i] = q[i]
<1>1. q \in Seq(S \union {e})
  OBVIOUS
<1>. DEFINE T == S \union {e}
<1>2. e \in T
  OBVIOUS
<1>. HIDE DEF T
<1>. QED  BY <1>1, <1>2 DEF T

\* An operation of a deletion is one step on.
LEMMA ProgressStep ==
  ASSUME BaseInv, trial.kind = "pilot", Erasing, OperationStep
  PROVE  /\ Progress \in 0..8 /\ Progress' = Progress + 1 /\ Erasing' /\ stage' = stage /\ InHand' = InHand
         /\ trial' = trial /\ Op.who = InHand
<1>1. todo # <<>> /\ todo' = Tail(todo) /\ stage' = stage /\ trial' = trial
  BY OperationDoes DEF Does, At
<1>2. /\ todo \in Seq(Operation) /\ Progress \in 0..9 /\ Len(todo) = 9 - Progress
      /\ (todo = <<>>) <=> (Progress = 9)
  BY ProgressFacts
<1>3. Len(todo') = Len(todo) - 1
  BY <1>1, <1>2
<1>4. Erasing' /\ InHand' = InHand
  BY <1>1 DEF Erasing, InHand
<1>5. Progress' = 9 - Len(todo')
  BY <1>4 DEF Progress
<1>6. Progress \in 0..8
  BY <1>1, <1>2
<1>7. Progress' = Progress + 1
  BY <1>2, <1>3, <1>5
<1>8. Progress < 9
  BY <1>6
<1>. QED  BY <1>1, <1>4, <1>6, <1>7, <1>8, ErasingOp

\* What a deletion does to the stores of its subject, operation by operation.
LEMMA SubjectStands ==
  ASSUME BaseInv, HoldInv, GenInv, trial.kind = "pilot", Erasing, OperationStep,
         Stands(InHand, Progress)
  PROVE  /\ online'[InHand] = Held(Progress + 1)
         /\ IF Progress + 1 < 5 THEN Opens(InHand)' ELSE key'[InHand] = 0
         /\ \A s \in SubjectIds \ {InHand} :
              online'[s] = online[s] /\ key'[s] = key[s] /\ cipher'[s] = cipher[s]
<1>. DEFINE who == InHand
            n == Progress
<1>1. /\ n \in 0..8 /\ Op.who = who /\ who \in SubjectIds /\ InHand' = InHand
  BY ProgressStep, ProgressFacts
<1>2. /\ online \in [SubjectIds -> SUBSET Online] /\ key \in [SubjectIds -> Int]
  BY DEF HoldInv, StoresTyped, GenInv
<1>3. online[who] = Held(n) /\ IF n < 5 THEN Opens(who) ELSE key[who] = 0
  BY DEF Stands
<1>4. n = 0 \/ n = 1 \/ n = 2 \/ n = 3 \/ n = 4 \/ n = 5 \/ n = 6 \/ n = 7 \/ n = 8
  BY <1>1
<1>5. Opens(who)' <=> key'[who] > 0 /\ key'[who] = cipher'[who]
  BY <1>1 DEF Opens
<1>6. Opens(who) <=> key[who] > 0 /\ key[who] = cipher[who]
  BY DEF Opens
<1>. HIDE DEF who
<1>7. ASSUME Op.do = "drop"
      PROVE  /\ online'[who] = online[who] \ {Op.what} /\ key' = key /\ cipher' = cipher
             /\ \A s \in SubjectIds \ {who} : online'[s] = online[s]
  <2>1. Drop
    BY <1>7, OperationIs
  <2>2. online' = [online EXCEPT ![who] = @ \ {Op.what}] /\ key' = key /\ cipher' = cipher
    BY <2>1, <1>1 DEF Drop
  <2>. QED  BY <2>2, <1>1, <1>2
<1>8. ASSUME Op.do = "destroy key"
      PROVE  /\ key'[who] = 0 /\ online' = online /\ cipher' = cipher
             /\ \A s \in SubjectIds \ {who} : key'[s] = key[s]
  <2>1. DestroyBackup
    BY <1>8, OperationIs
  <2>2. key' = [key EXCEPT ![who] = 0] /\ online' = online /\ cipher' = cipher
    BY <2>1, <1>1 DEF DestroyBackup
  <2>. QED  BY <2>2, <1>1, <1>2
<1>9. ASSUME Op.do \in {"audit", "issue", "verify"}
      PROVE  online' = online /\ key' = key /\ cipher' = cipher
  BY <1>9, OperationIs
<1>10. /\ n = 0 => Op.do = "drop" /\ Op.what = "postgres"
       /\ n = 1 => Op.do = "audit"
       /\ n = 2 => Op.do = "drop" /\ Op.what = "vector-index"
       /\ n = 3 => Op.do = "drop" /\ Op.what = "cache"
       /\ n = 4 => Op.do = "destroy key"
       /\ n = 5 => Op.do = "drop" /\ Op.what = "model"
       /\ n = 6 => Op.do = "audit"
       /\ n = 7 => Op.do = "issue"
       /\ n = 8 => Op.do = "verify"
  <2>1. Progress < 9
    BY <1>1
  <2>. QED  BY <2>1, ErasingOp
<1>. DEFINE Goal == /\ online'[who] = Held(n + 1)
                    /\ IF n + 1 < 5 THEN Opens(who)' ELSE key'[who] = 0
                    /\ \A s \in SubjectIds \ {who} :
                         online'[s] = online[s] /\ key'[s] = key[s] /\ cipher'[s] = cipher[s]
<1>11. ASSUME n = 0 PROVE Goal
  <2>1. n + 1 = 1
    BY <1>11
  <2>. QED  BY <2>1, <1>11, <1>3, <1>5, <1>6, <1>7, <1>10, HeldFacts
<1>12. ASSUME n = 1 PROVE Goal
  <2>1. n + 1 = 2
    BY <1>12
  <2>. QED  BY <2>1, <1>12, <1>3, <1>5, <1>6, <1>9, <1>10, HeldFacts
<1>13. ASSUME n = 2 PROVE Goal
  <2>1. n + 1 = 3
    BY <1>13
  <2>. QED  BY <2>1, <1>13, <1>3, <1>5, <1>6, <1>7, <1>10, HeldFacts
<1>14. ASSUME n = 3 PROVE Goal
  <2>1. n + 1 = 4
    BY <1>14
  <2>. QED  BY <2>1, <1>14, <1>3, <1>5, <1>6, <1>7, <1>10, HeldFacts
<1>15. ASSUME n = 4 PROVE Goal
  <2>1. n + 1 = 5
    BY <1>15
  <2>2. Held(5) = Held(4) /\ Op.do = "destroy key"
    BY <1>10, <1>15, HeldFacts
  <2>3. online'[who] = Held(n + 1) /\ key'[who] = 0
    BY <2>1, <2>2, <1>15, <1>3, <1>8
  <2>4. ~ (n + 1 < 5)
    BY <2>1
  <2>. QED  BY <2>2, <2>3, <2>4, <1>8
<1>16. ASSUME n = 5 PROVE Goal
  <2>1. n + 1 = 6
    BY <1>16
  <2>. QED  BY <2>1, <1>16, <1>3, <1>5, <1>6, <1>7, <1>10, HeldFacts
<1>17. ASSUME n = 6 PROVE Goal
  <2>1. n + 1 = 7
    BY <1>17
  <2>. QED  BY <2>1, <1>17, <1>3, <1>5, <1>6, <1>9, <1>10, HeldFacts
<1>18. ASSUME n = 7 PROVE Goal
  <2>1. n + 1 = 8
    BY <1>18
  <2>. QED  BY <2>1, <1>18, <1>3, <1>5, <1>6, <1>9, <1>10, HeldFacts
<1>19. ASSUME n = 8 PROVE Goal
  <2>1. n + 1 = 9
    BY <1>19
  <2>. QED  BY <2>1, <1>19, <1>3, <1>5, <1>6, <1>9, <1>10, HeldFacts
<1>20. Goal
  BY <1>4, <1>11, <1>12, <1>13, <1>14, <1>15, <1>16, <1>17, <1>18, <1>19
<1>21. Opens(InHand)' <=> Opens(who)'
  BY <1>1 DEF Opens, who
<1>. QED  BY <1>20, <1>21 DEF who

LEMMA DeletionStores ==
  ASSUME BaseInv, HoldInv, GenInv, trial.kind = "pilot", Erasing, OperationStep, StoresErased
  PROVE  StoresErased'
<1>0. PICK k \in Nat : k = stage - 1 /\ stage = k + 1
  BY DEF Erasing
<1>1. /\ k \in 1..Len(Subjects) /\ stage' = stage /\ Progress \in 0..8
      /\ Progress' = Progress + 1 /\ InHand \in SubjectIds /\ Len(Subjects) \in Nat
  BY <1>0, ProgressStep, ProgressFacts, SubjectFacts
<1>2. InHand = Subjects[k]
  BY <1>0 DEF InHand
<1>3. /\ Reached(k) = Progress /\ Reached(k)' = Progress + 1
      /\ \A j \in 1..Len(Subjects) : j # k => Reached(j)' = Reached(j)
  BY <1>0, <1>1 DEF Reached
<1>4. Stands(InHand, Progress)
  BY <1>1, <1>2, <1>3 DEF StoresErased
<1>5. /\ online'[InHand] = Held(Progress + 1)
      /\ IF Progress + 1 < 5 THEN Opens(InHand)' ELSE key'[InHand] = 0
      /\ \A s \in SubjectIds \ {InHand} :
           online'[s] = online[s] /\ key'[s] = key[s] /\ cipher'[s] = cipher[s]
  BY <1>4, SubjectStands
<1>6. ASSUME NEW j \in 1..Len(Subjects), j # k PROVE Stands(Subjects[j], Reached(j))'
  <2>. DEFINE s == Subjects[j]
  <2>1. s \in SubjectIds /\ s # InHand
    BY <1>1, <1>2, <1>6, SubjectsDiffer, SubjectFacts
  <2>2. Stands(s, Reached(j)) /\ Reached(j)' = Reached(j)
    BY <1>3, <1>6 DEF StoresErased
  <2>3. online'[s] = online[s] /\ key'[s] = key[s] /\ cipher'[s] = cipher[s]
    BY <1>5, <2>1
  <2>. QED  BY <2>2, <2>3 DEF Stands, Opens
<1>7. Stands(Subjects[k], Reached(k))'
  <2>. DEFINE n == Progress + 1
              s == Subjects[k]
  <2>1. online'[s] = Held(n) /\ (IF n < 5 THEN key'[s] > 0 /\ key'[s] = cipher'[s] ELSE key'[s] = 0)
    BY <1>2, <1>5, ProgressStep DEF Opens
  <2>2. Reached(k)' = n
    BY <1>3
  <2>. HIDE DEF n
  <2>. QED  BY <2>1, <2>2 DEF Stands, Opens
<1>. QED  BY <1>6, <1>7 DEF StoresErased

\* The audits of a deletion: one finds the subject, one finds it gone.
LEMMA DeletionAudits ==
  ASSUME BaseInv, trial.kind = "pilot", Erasing, OperationStep, StoresErased, AuditsMade
  PROVE  AuditsMade'
<1>0. PICK k \in Nat : k = stage - 1 /\ stage = k + 1
  BY DEF Erasing
<1>1. /\ k \in 1..Deletions /\ k \in Nat /\ Deletions \in Nat /\ stage = k + 1
      /\ k \in 1..Len(Subjects) /\ stage' = stage
      /\ Progress \in 0..8 /\ Progress' = Progress + 1
  BY <1>0, ProgressStep, ProgressFacts, SubjectFacts
<1>2. PICK S : audits \in Seq(S)
  BY DEF AuditsMade
<1>3. /\ Len(audits) = 2 * (k - 1) + AuditsOf(Progress)
      /\ \A i \in 1..Deletions :
           /\ 2 * i - 1 <= Len(audits) => AuditStatus(audits[2 * i - 1].residual) = "INCOMPLETE"
           /\ 2 * i <= Len(audits) => audits[2 * i].residual = {}
  BY <1>1 DEF AuditsMade
<1>4. CASE Op.do # "audit"
  <2>1. audits' = audits
    BY <1>4, RecordsKept
  <2>2. Progress # 1 /\ Progress # 6
    <3>1. Progress < 9
      BY <1>1
    <3>. QED  BY <1>4, <3>1, ErasingOp
  <2>3. AuditsOf(Progress)' = AuditsOf(Progress)
    BY <1>1, <2>2 DEF AuditsOf
  <2>. QED  BY <1>1, <1>2, <1>3, <2>1, <2>3 DEF AuditsMade
<1>5. CASE Op.do = "audit"
  <2>1. audits' = Append(audits, [who |-> Op.who, residual |-> Presence(Op.who)])
    BY <1>5, RecordsKept DEF AuditNow
  <2>2. Op.who = Subjects[k] /\ Stands(Subjects[k], Progress)
    <3>1. Reached(k) = Progress
      BY <1>0 DEF Reached
    <3>. QED  BY <1>0, <1>1, <3>1, ProgressStep DEF StoresErased, InHand
  <2>. DEFINE new == [who |-> Op.who, residual |-> Presence(Op.who)]
              m == Len(audits)
  <2>3. /\ m \in Nat /\ Len(audits') = m + 1 /\ audits'[m + 1] = new
        /\ \A i \in 1..m : audits'[i] = audits[i]
        /\ audits' \in Seq(S \union {new})
    <3>. HIDE DEF new
    <3>. QED  BY <1>2, <2>1, AppendAny DEF new
  <2>4. new.residual = Presence(Subjects[k])
    BY <2>2
  <2>. HIDE DEF new
  <2>5. \E T : audits' \in Seq(T)
    BY <2>3
  <2>6. Progress = 1 \/ Progress = 6
    <3>1. Progress < 9
      BY <1>1
    <3>. QED  BY <1>1, <1>5, <3>1, ErasingOp
  <2>7. CASE Progress = 1
    <3>1. m = 2 * k - 2 /\ AuditsOf(Progress)' = 1
      BY <1>1, <1>3, <2>7 DEF AuditsOf
    <3>2. "cache" \in Presence(Subjects[k])
      BY <2>2, <2>7, HeldFacts DEF Presence, Stands
    <3>3. AuditStatus(new.residual) = "INCOMPLETE"
      BY <2>4, <3>2, AuditFacts
    <3>4. Len(audits') = 2 * k - 1 /\ audits'[2 * k - 1] = new
      <4>1. m + 1 = 2 * k - 1
        BY <3>1, <1>1
      <4>. QED  BY <2>3, <4>1
    <3>5. ASSUME NEW i \in 1..Deletions
          PROVE  /\ 2 * i - 1 <= Len(audits') => AuditStatus(audits'[2 * i - 1].residual) = "INCOMPLETE"
                 /\ 2 * i <= Len(audits') => audits'[2 * i].residual = {}
      <4>1. i \in Nat /\ i >= 1
        BY <1>1
      <4>2. CASE i = k
        BY <3>3, <3>4, <4>1, <4>2
      <4>3. CASE i < k
        <5>1. 2 * i - 1 \in 1..m /\ 2 * i \in 1..m
          BY <1>1, <3>1, <4>1, <4>3
        <5>. QED  BY <1>3, <2>3, <5>1
      <4>4. CASE i > k
        BY <1>1, <3>4, <4>1, <4>4
      <4>. QED  BY <1>1, <4>1, <4>2, <4>3, <4>4
    <3>. QED  BY <1>1, <2>5, <3>1, <3>4, <3>5 DEF AuditsMade
  <2>8. CASE Progress = 6
    <3>1. m = 2 * k - 1 /\ AuditsOf(Progress)' = 2
      BY <1>1, <1>3, <2>8 DEF AuditsOf
    <3>2. Presence(Subjects[k]) = {}
      BY <2>2, <2>8, HeldFacts DEF Presence, Stands, Opens
    <3>3. new.residual = {}
      BY <2>4, <3>2
    <3>4. Len(audits') = 2 * k /\ audits'[2 * k] = new
      <4>1. m + 1 = 2 * k
        BY <3>1, <1>1
      <4>. QED  BY <2>3, <4>1
    <3>5. ASSUME NEW i \in 1..Deletions
          PROVE  /\ 2 * i - 1 <= Len(audits') => AuditStatus(audits'[2 * i - 1].residual) = "INCOMPLETE"
                 /\ 2 * i <= Len(audits') => audits'[2 * i].residual = {}
      <4>1. i \in Nat /\ i >= 1
        BY <1>1
      <4>2. CASE i = k
        <5>1. 2 * i - 1 \in 1..m
          BY <1>1, <3>1, <4>1, <4>2
        <5>. QED  BY <1>3, <2>3, <3>3, <3>4, <4>2, <5>1
      <4>3. CASE i < k
        <5>1. 2 * i - 1 \in 1..m /\ 2 * i \in 1..m
          BY <1>1, <3>1, <4>1, <4>3
        <5>. QED  BY <1>3, <2>3, <5>1
      <4>4. CASE i > k
        BY <1>1, <3>4, <4>1, <4>4
      <4>. QED  BY <1>1, <4>1, <4>2, <4>3, <4>4
    <3>. QED  BY <1>1, <2>5, <3>1, <3>4, <3>5 DEF AuditsMade
  <2>. QED  BY <2>6, <2>7, <2>8
<1>. QED  BY <1>4, <1>5

\* The receipt of a deletion is issued after its last audit and verified once.
LEMMA IssueReceipt ==
  ASSUME BaseInv, trial.kind = "pilot", Erasing, Issue, OperationStep,
         StoresErased, AuditsMade, ReceiptsMade
  PROVE  ReceiptsMade'
<1>0. PICK k \in Nat : k = stage - 1 /\ stage = k + 1
  BY DEF Erasing
<1>1. /\ k \in 1..Deletions /\ Deletions \in Nat /\ k \in 1..Len(Subjects) /\ stage' = stage
      /\ Progress = 7 /\ Progress' = 8
  <2>1. Progress \in 0..8 /\ Progress' = Progress + 1 /\ Progress < 9
    BY ProgressStep
  <2>2. Op.do = "issue"
    BY DEF Issue, Does, At, Op
  <2>3. Progress = 7
    BY <2>1, <2>2, ErasingOp
  <2>. QED  BY <1>0, <2>1, <2>3, ProgressStep, ProgressFacts, SubjectFacts
<1>2. PICK S : receipts \in Seq(S)
  BY DEF ReceiptsMade
<1>3. Len(receipts) = k - 1 /\ \A i \in 1..Len(receipts) : Rightful(i)
  BY <1>0, <1>1 DEF ReceiptsMade
<1>4. Op.who = Subjects[k] /\ Presence(Subjects[k]) = {}
  <2>1. Reached(k) = Progress
    BY <1>0 DEF Reached
  <2>2. Op.who = Subjects[k] /\ Stands(Subjects[k], 7)
    BY <1>0, <1>1, <2>1, ProgressStep DEF StoresErased, InHand
  <2>. QED  BY <2>2, HeldFacts DEF Presence, Stands, Opens
<1>5. AuditStatus(audits[Len(audits)].residual) = "COMPLETE"
  <2>1. Len(audits) = 2 * k
    BY <1>0, <1>1 DEF AuditsMade, AuditsOf
  <2>2. audits[2 * k].residual = {}
    <3>1. \A i \in 1..Deletions : 2 * i <= Len(audits) => audits[2 * i].residual = {}
      BY DEF AuditsMade
    <3>2. k \in 1..Deletions /\ 2 * k <= Len(audits)
      BY <1>1, <2>1
    <3>. QED  BY <3>1, <3>2
  <2>. QED  BY <2>1, <2>2, AuditFacts
<1>. DEFINE new == [receipt |-> Receipt(k, <<Subjects[k], {}>>, "COMPLETE", k, k, LastReceipt),
                    valid |-> FALSE]
<1>6. receipts' = Append(receipts, new)
  <2>1. Len(receipts) + 1 = k
    BY <1>0, <1>3
  <2>. QED  BY <1>4, <1>5, <2>1 DEF Issue
<1>. HIDE DEF new
<1>7. /\ Len(receipts) \in Nat /\ Len(receipts') = k /\ receipts'[k] = new
      /\ receipts' \in Seq(S \union {new})
      /\ \A i \in 1..(k - 1) : receipts'[i] = receipts[i]
  <2>1. /\ receipts' \in Seq(S \union {new}) /\ Len(receipts) \in Nat
        /\ Len(receipts') = Len(receipts) + 1 /\ receipts'[Len(receipts) + 1] = new
        /\ \A i \in 1..Len(receipts) : receipts'[i] = receipts[i]
    BY <1>2, <1>6, AppendAny
  <2>2. Len(receipts) + 1 = k
    BY <1>0, <1>3
  <2>. QED  BY <1>3, <2>1, <2>2
<1>8. LastReceipt = IF k = 1 THEN <<>> ELSE receipts'[k - 1].receipt
  <2>1. (receipts = <<>>) <=> (k = 1)
    BY <1>0, <1>2, <1>3
  <2>2. k # 1 => k - 1 \in 1..(k - 1)
    BY <1>0, <1>1
  <2>. QED  BY <1>3, <1>7, <2>1, <2>2 DEF LastReceipt
<1>9. ASSUME NEW i \in 1..k PROVE Rightful(i)'
  <2>1. CASE i = k
    <3>1. (i < Len(receipts') \/ Progress' # 8) = FALSE
      BY <1>1, <1>7, <2>1
    <3>2. receipts'[i] = new /\ LastReceipt = IF i = 1 THEN <<>> ELSE receipts'[i - 1].receipt
      BY <1>7, <1>8, <2>1
    <3>3. new = [receipt |-> Receipt(i, <<Subjects[i], {}>>, "COMPLETE", i, i, LastReceipt),
                 valid |-> FALSE]
      BY <2>1 DEF new
    <3>. QED  BY <3>1, <3>2, <3>3 DEF Rightful
  <2>2. CASE i # k
    <3>1. i \in 1..(k - 1) /\ (i # 1 => i - 1 \in 1..(k - 1)) /\ i < k
      BY <1>0, <2>2
    <3>2. Rightful(i)
      BY <1>3, <3>1
    <3>3. receipts'[i] = receipts[i] /\ (i # 1 => receipts'[i - 1] = receipts[i - 1])
      BY <1>7, <3>1
    <3>. QED  BY <1>1, <1>7, <3>1, <3>2, <3>3 DEF Rightful
  <2>. QED  BY <2>1, <2>2
<1>10. Len(receipts') = (stage' - 2) + (IF Progress' < 8 THEN 0 ELSE 1)
  BY <1>0, <1>1, <1>7
<1>. QED  BY <1>7, <1>9, <1>10 DEF ReceiptsMade

\* Overwriting one entry of a sequence.
LEMMA OverwriteAny ==
  ASSUME NEW S, NEW q \in Seq(S), NEW k \in 1..Len(q), NEW e
  PROVE  /\ [q EXCEPT ![k] = e] \in Seq(S \union {e}) /\ Len([q EXCEPT ![k] = e]) = Len(q)
         /\ [q EXCEPT ![k] = e][k] = e
         /\ \A i \in 1..Len(q) : i # k => [q EXCEPT ![k] = e][i] = q[i]
<1>. DEFINE T == S \union {e}
<1>1. q \in Seq(T) /\ e \in T
  OBVIOUS
<1>. HIDE DEF T
<1>2. [q EXCEPT ![k] = e] \in Seq(T) /\ Len([q EXCEPT ![k] = e]) = Len(q)
  BY <1>1
<1>3. q = [i \in 1..Len(q) |-> q[i]]
  BY <1>1
<1>. QED  BY <1>2, <1>3 DEF T

LEMMA FoundValid ==
  ASSUME NEW a, NEW b, NEW c
  PROVE  [[receipt |-> a, valid |-> b] EXCEPT !.valid = c] = [receipt |-> a, valid |-> c]
OBVIOUS

LEMMA VerifyIssued ==
  ASSUME BaseInv, trial.kind = "pilot", Erasing, Verify, OperationStep, ReceiptsMade
  PROVE  ReceiptsMade'
<1>0. PICK k \in Nat : k = stage - 1 /\ stage = k + 1
  BY DEF Erasing
<1>1. /\ k \in 1..Deletions /\ Deletions \in Nat /\ stage' = stage /\ Progress = 8 /\ Progress' = 9
  <2>1. Progress \in 0..8 /\ Progress' = Progress + 1 /\ Progress < 9
    BY ProgressStep
  <2>2. Op.do = "verify"
    BY DEF Verify, Does, At, Op
  <2>3. Progress = 8
    BY <2>1, <2>2, ErasingOp
  <2>. QED  BY <1>0, <2>1, <2>3, ProgressStep, ProgressFacts, SubjectFacts
<1>2. PICK S : receipts \in Seq(S)
  BY DEF ReceiptsMade
<1>3. Len(receipts) = k /\ \A i \in 1..k : Rightful(i)
  BY <1>0, <1>1 DEF ReceiptsMade
<1>. DEFINE before(i) == IF i = 1 THEN <<>> ELSE receipts[i - 1].receipt
            of(i) == Receipt(i, <<Subjects[i], {}>>, "COMPLETE", i, i, before(i))
<1>4. \A i \in 1..k : receipts[i] = [receipt |-> of(i), valid |-> (i < k)]
  BY <1>1, <1>3 DEF Rightful
<1>5. ASSUME NEW i \in 1..k
      PROVE  /\ of(i).payload.nonce = i /\ of(i).payload.issued = i /\ of(i).payload.previous = before(i)
             /\ of(i).signature = Payload(of(i).payload)
  BY DEF Receipt
<1>. DEFINE last == Len(receipts)
            expected == IF last = 1 THEN <<>> ELSE receipts[last - 1].receipt
<1>6. VerifyReceipt(receipts[last].receipt, Ledger, last, expected)
  <2>1. last = k /\ k \in 1..k /\ receipts[k].receipt = of(k) /\ expected = before(k)
    BY <1>1, <1>3, <1>4
  <2>2. k \notin Ledger
    <3>. SUFFICES ASSUME k \in Ledger PROVE FALSE
      OBVIOUS
    <3>1. PICK i \in DOMAIN receipts : receipts[i].valid /\ receipts[i].receipt.payload.nonce = k
      BY DEF Ledger
    <3>2. i \in 1..k
      BY <1>2, <1>3, <3>1
    <3>. HIDE DEF of
    <3>4. receipts[i] = [receipt |-> of(i), valid |-> (i < k)]
      BY <1>4, <3>2
    <3>5. receipts[i].receipt = of(i) /\ (receipts[i].valid = (i < k))
      <4>1. \A a, b : [receipt |-> a, valid |-> b].receipt = a /\ [receipt |-> a, valid |-> b].valid = b
        OBVIOUS
      <4>. DEFINE early == i < k
      <4>2. receipts[i] = [receipt |-> of(i), valid |-> early]
        BY <3>4
      <4>. HIDE DEF early
      <4>3. receipts[i].receipt = of(i) /\ receipts[i].valid = early
        BY <4>1, <4>2
      <4>. QED  BY <4>3 DEF early
    <3>3. i < k /\ of(i).payload.nonce = k
      BY <1>5, <3>1, <3>2, <3>5
    <3>6. of(i).payload.nonce = i
      BY <1>5, <3>2
    <3>. QED  BY <1>1, <3>2, <3>3, <3>6
  <2>3. k <= k
    BY <1>1
  <2>. HIDE DEF of, before, last, expected
  <2>. QED  BY <1>5, <2>1, <2>2, <2>3 DEF VerifyReceipt
<1>. DEFINE new == [receipt |-> of(k), valid |-> TRUE]
<1>7. receipts' = [receipts EXCEPT ![k] = new]
  <2>1. receipts' = [receipts EXCEPT ![last].valid = TRUE]
    <3>. DEFINE v == VerifyReceipt(receipts[last].receipt, Ledger, last, expected)
    <3>1. receipts' = [receipts EXCEPT ![last].valid = v]
      BY DEF Verify
    <3>2. v = TRUE
      BY <1>6 DEF VerifyReceipt
    <3>. HIDE DEF v
    <3>. QED  BY <3>1, <3>2
  <2>2. last = k /\ k \in 1..k
    BY <1>1, <1>3
  <2>3. receipts[k] = [receipt |-> of(k), valid |-> (k < k)]
    BY <1>4, <2>2
  <2>. HIDE DEF of, last
  <2>4. [receipts[k] EXCEPT !.valid = TRUE] = new
    <3>. DEFINE early == k < k
                yes == TRUE
    <3>1. receipts[k] = [receipt |-> of(k), valid |-> early]
      BY <2>3
    <3>2. new = [receipt |-> of(k), valid |-> yes]
      OBVIOUS
    <3>. HIDE DEF early, yes, new
    <3>3. [receipts[k] EXCEPT !.valid = yes] = new
      BY <3>1, <3>2, FoundValid
    <3>. QED  BY <3>3 DEF yes
  <2>. QED  BY <2>1, <2>2, <2>4
<1>. HIDE DEF of, new
<1>8. /\ receipts' \in Seq(S \union {new}) /\ Len(receipts') = k /\ receipts'[k] = new
      /\ \A i \in 1..k : i # k => receipts'[i] = receipts[i]
  <2>1. k \in 1..Len(receipts)
    BY <1>1, <1>3
  <2>. QED  BY <1>2, <1>3, <1>7, <2>1, OverwriteAny
<1>9. \A i \in 1..k : receipts'[i] = [receipt |-> of(i), valid |-> TRUE]
  <2>1. \A i \in 1..k : i # k => i < k
    BY <1>1
  <2>. QED  BY <1>4, <1>8, <2>1 DEF new
<1>10. ASSUME NEW i \in 1..k PROVE Rightful(i)'
  <2>1. i # 1 => i - 1 \in 1..k
    BY <1>1
  <2>2. \A j \in 1..k : receipts'[j].receipt = receipts[j].receipt
    <3>1. ASSUME NEW j \in 1..k PROVE receipts'[j].receipt = of(j) /\ receipts[j].receipt = of(j)
      <4>1. receipts'[j] = [receipt |-> of(j), valid |-> TRUE]
        BY <1>9
      <4>2. receipts[j] = [receipt |-> of(j), valid |-> (j < k)]
        BY <1>4
      <4>. QED  BY <4>1, <4>2
    <3>. QED  BY <3>1
  <2>3. before(i) = IF i = 1 THEN <<>> ELSE receipts'[i - 1].receipt
    BY <2>1, <2>2
  <2>4. i < Len(receipts') \/ Progress' # 8
    BY <1>1
  <2>. QED  BY <1>9, <2>3, <2>4 DEF Rightful, of
<1>11. Len(receipts') = (stage' - 2) + (IF Progress' < 8 THEN 0 ELSE 1)
  BY <1>0, <1>1, <1>8
<1>. QED  BY <1>8, <1>10, <1>11 DEF ReceiptsMade

LEMMA DeletionReceipts ==
  ASSUME BaseInv, trial.kind = "pilot", Erasing, OperationStep, StoresErased, AuditsMade, ReceiptsMade
  PROVE  ReceiptsMade'
<1>1. CASE Op.do = "issue"
  BY <1>1, RecordsKept, IssueReceipt
<1>2. CASE Op.do = "verify"
  BY <1>2, RecordsKept, VerifyIssued
<1>3. CASE Op.do \notin {"issue", "verify"}
  <2>1. receipts' = receipts
    BY <1>3, RecordsKept
  <2>2. Progress \in 0..8 /\ Progress' = Progress + 1 /\ stage' = stage /\ Progress < 9
    BY ProgressStep
  <2>3. Progress # 7 /\ Progress # 8
    BY <1>3, <2>2, ErasingOp
  <2>4. Progress < 7 /\ Progress' < 8
    BY <2>2, <2>3
  <2>. QED  BY <2>1, <2>2, <2>4 DEF ReceiptsMade, Rightful
<1>. QED  BY <1>1, <1>2, <1>3

LEMMA ErasingStep ==
  ASSUME BaseInv, GenInv, HoldInv, PilotInv, trial.kind = "pilot", Erasing, OperationStep
  PROVE  PilotInv'
<1>1. /\ stage > 1 /\ stage # 1 /\ stage # Deletions + 2
      /\ stage' = stage /\ trial' = trial /\ status' = "running"
  <2>1. stage' = stage /\ trial' = trial /\ status' = "running"
    BY OperationFacts
  <2>. QED  BY <2>1, SubjectFacts DEF Erasing
<1>2. StoresErased /\ AuditsMade /\ ReceiptsMade
  BY <1>1 DEF PilotInv
<1>3. StoresErased' /\ AuditsMade' /\ ReceiptsMade'
  BY <1>2, DeletionStores, DeletionAudits, DeletionReceipts
<1>4. Concluded'
  BY <1>1 DEF Concluded
<1>. QED  BY <1>1, <1>3, <1>4 DEF PilotInv

\* Once all the deletions are made, the stores and the records are as they have to be.
LEMMA AllDeleted ==
  ASSUME BaseInv, StoresErased, AuditsMade, ReceiptsMade, stage = Deletions + 2
  PROVE  /\ \A i \in 1..Deletions : Presence(Subjects[i]) = {}
         /\ \A i \in (Deletions + 1)..Len(Subjects) :
              Presence(Subjects[i]) = Online \union {"backup"}
         /\ \A i \in 1..Deletions :
              /\ AuditStatus(audits[2 * i - 1].residual) = "INCOMPLETE"
              /\ AuditStatus(audits[2 * i].residual) = "COMPLETE"
              /\ receipts[i].valid
         /\ LastReceipt.payload.root = <<Subjects[Deletions], {}>>
         /\ LastReceipt.signature = Payload(LastReceipt.payload)
         /\ LastReceipt = Receipt(Deletions, <<Subjects[Deletions], {}>>, "COMPLETE", Deletions,
                                  Deletions, LastReceipt.payload.previous)
<1>1. /\ Deletions \in Nat /\ Len(Subjects) \in Nat /\ Deletions >= 1 /\ Deletions < Len(Subjects)
      /\ Progress = 0
  BY SubjectFacts DEF Progress, Erasing
<1>2. ASSUME NEW i \in 1..Deletions PROVE Presence(Subjects[i]) = {}
  <2>1. Reached(i) = 9 /\ i \in 1..Len(Subjects)
    BY <1>1 DEF Reached
  <2>2. Stands(Subjects[i], 9)
    BY <2>1 DEF StoresErased
  <2>. QED  BY <2>2, HeldFacts DEF Stands, Presence, Opens
<1>3. ASSUME NEW i \in (Deletions + 1)..Len(Subjects)
      PROVE  Presence(Subjects[i]) = Online \union {"backup"}
  <2>1. Reached(i) = 0 /\ i \in 1..Len(Subjects)
    BY <1>1 DEF Reached
  <2>2. Stands(Subjects[i], 0)
    BY <2>1 DEF StoresErased
  <2>. QED  BY <2>2, HeldFacts DEF Stands, Presence
<1>4. Len(audits) = 2 * Deletions
  BY <1>1 DEF AuditsMade, AuditsOf
<1>5. ASSUME NEW i \in 1..Deletions
      PROVE  /\ AuditStatus(audits[2 * i - 1].residual) = "INCOMPLETE"
             /\ AuditStatus(audits[2 * i].residual) = "COMPLETE"
  <2>1. 2 * i - 1 <= Len(audits) /\ 2 * i <= Len(audits)
    BY <1>1, <1>4
  <2>. QED  BY <2>1, AuditFacts DEF AuditsMade
<1>6. Len(receipts) = Deletions /\ \A i \in 1..Deletions : Rightful(i)
  <2>1. Len(receipts) = Deletions
    BY <1>1 DEF ReceiptsMade
  <2>. QED  BY <2>1 DEF ReceiptsMade
<1>7. ASSUME NEW i \in 1..Deletions PROVE receipts[i].valid
  <2>. DEFINE of == Receipt(i, <<Subjects[i], {}>>, "COMPLETE", i, i,
                            IF i = 1 THEN <<>> ELSE receipts[i - 1].receipt)
              early == i < Len(receipts) \/ Progress # 8
  <2>1. receipts[i] = [receipt |-> of, valid |-> early]
    BY <1>6 DEF Rightful
  <2>. HIDE DEF of, early
  <2>2. receipts[i].valid = early
    BY <2>1
  <2>3. early
    BY <1>1 DEF early
  <2>. QED  BY <2>2, <2>3
<1>. DEFINE n == Deletions
            before == IF n = 1 THEN <<>> ELSE receipts[n - 1].receipt
<1>8. LastReceipt = Receipt(n, <<Subjects[n], {}>>, "COMPLETE", n, n, before)
  <2>. DEFINE of == Receipt(n, <<Subjects[n], {}>>, "COMPLETE", n, n, before)
              early == n < Len(receipts) \/ Progress # 8
  <2>1. receipts[n] = [receipt |-> of, valid |-> early]
    <3>1. Rightful(n)
      BY <1>1, <1>6
    <3>. QED  BY <3>1 DEF Rightful
  <2>. HIDE DEF of, early
  <2>2. receipts[n].receipt = of
    BY <2>1
  <2>3. receipts # <<>> /\ Len(receipts) = n
    BY <1>1, <1>6
  <2>. QED  BY <2>2, <2>3 DEF LastReceipt, of
<1>. HIDE DEF before
<1>9. /\ LastReceipt.payload.root = <<Subjects[n], {}>>
      /\ LastReceipt.payload.previous = before
      /\ LastReceipt.signature = Payload(LastReceipt.payload)
  BY <1>8 DEF Receipt
<1>. QED  BY <1>2, <1>3, <1>5, <1>7, <1>8, <1>9

\* A receipt whose root is another one is not accepted.
LEMMA TamperedFails ==
  ASSUME NEW request, NEW root, NEW state, NEW issued, NEW nonce, NEW previous, NEW other,
         other # root, NEW receipt, receipt = Receipt(request, root, state, issued, nonce, previous)
  PROVE  \A ledger, now, expected :
           ~ VerifyReceipt([receipt EXCEPT !.payload.root = other], ledger, now, expected)
<1>. DEFINE tampered == [receipt EXCEPT !.payload.root = other]
            r == [request |-> request, root |-> root, status |-> state, issued |-> issued,
                  nonce |-> nonce, previous |-> previous]
<1>1. receipt = [payload |-> r, signature |-> Payload(r)]
  BY DEF Receipt
<1>2. tampered.payload = [r EXCEPT !.root = other] /\ tampered.signature = Payload(r)
  <2>. HIDE DEF r
  <2>. QED  BY <1>1
<1>3. Payload(r)[2] = root
  BY DEF Payload
<1>4. Payload([r EXCEPT !.root = other])[2] = other
  BY DEF Payload
<1>. HIDE DEF tampered, r
<1>5. tampered.signature # Payload(tampered.payload)
  BY <1>2, <1>3, <1>4
<1>. QED  BY <1>5 DEF VerifyReceipt, tampered

LEMMA ConcludeStep ==
  ASSUME BaseInv, PilotInv, trial.kind = "pilot", stage = Deletions + 2, OperationStep
  PROVE  PilotInv'
<1>1. /\ Deletions \in Nat /\ Deletions >= 1 /\ stage > 1 /\ stage # 1
      /\ stage' = stage /\ trial' = trial /\ status' = "running"
  BY SubjectFacts, OperationFacts
<1>2. Conclude
  <2>1. todo # <<>>
    BY OperationDoes DEF Does, At
  <2>. QED  BY <2>1, ConcludingOp, RecordsKept
<1>3. StoresErased /\ AuditsMade /\ ReceiptsMade
  BY <1>1 DEF PilotInv
<1>4. /\ online' = online /\ key' = key /\ cipher' = cipher
      /\ audits' = audits /\ receipts' = receipts
  BY <1>2 DEF Conclude, disk
<1>5. Progress = 0 /\ Progress' = 0
  BY <1>1 DEF Progress, Erasing
<1>6. StoresErased' /\ AuditsMade' /\ ReceiptsMade'
  <2>1. \A j : Reached(j)' = Reached(j)
    BY <1>1, <1>5 DEF Reached
  <2>2. StoresErased'
    BY <1>3, <1>4, <2>1 DEF StoresErased, Stands, Opens
  <2>3. AuditsMade'
    BY <1>1, <1>3, <1>4, <1>5 DEF AuditsMade
  <2>4. ReceiptsMade'
    BY <1>1, <1>3, <1>4, <1>5 DEF ReceiptsMade, Rightful
  <2>. QED  BY <2>2, <2>3, <2>4
<1>7. verdict' = "success"
  <2>. DEFINE root == <<Subjects[Deletions], {}>>
              other == <<"tampered">>
              tampered == [LastReceipt EXCEPT !.payload.root = other]
  <2>1. other # root
    <3>1. Len(other) = 1 /\ Len(root) = 2
      OBVIOUS
    <3>. HIDE DEF other, root
    <3>. QED  BY <3>1
  <2>2. LastReceipt = Receipt(Deletions, root, "COMPLETE", Deletions, Deletions,
                              LastReceipt.payload.previous)
    BY <1>3, AllDeleted
  <2>3. ~ VerifyReceipt(tampered, {}, Len(receipts), tampered.payload.previous)
    <3>. HIDE DEF other, root
    <3>. QED  BY <2>1, <2>2, TamperedFails
  <2>. HIDE DEF root
  <2>. QED  BY <1>2, <1>3, <2>3, AllDeleted DEF Conclude
<1>8. Concluded'
  BY <1>1, <1>7 DEF Concluded
<1>. QED  BY <1>1, <1>6, <1>8 DEF PilotInv

\* The enrollment writes what is still to be written.
LEMMA EnrollingStep ==
  ASSUME BaseInv, GenInv, HoldInv, PilotInv, trial.kind = "pilot", stage = 1, OperationStep
  PROVE  PilotInv'
<1>1. /\ stage' = 1 /\ trial' = trial /\ status' = "running" /\ crashes \in Nat /\ todo # <<>>
      /\ \A op : Comes(op) => Op = op \/ Comes(op)'
      /\ Op \in Operation
  BY OperationFacts, OperationDoes DEF Does, At, BaseInv
<1>2. Op.do \in Enrolling
  BY <1>1, EnrollingOp
<1>3. audits' = audits /\ receipts' = receipts
  BY <1>2, RecordsKept DEF Enrolling
<1>4. \/ Op.do = "put" /\ (PutOnline \/ PutCipher \/ PutKey)
      \/ Op.do # "put" /\ UNCHANGED <<online, cipher, key>>
  BY <1>2, OperationIs DEF Enrolling
<1>5. /\ online \in [SubjectIds -> SUBSET Online]
      /\ key \in [SubjectIds -> Int] /\ cipher \in [SubjectIds -> Int]
      /\ Op.who \in SubjectIds /\ "cipher" \notin Online /\ "key" \notin Online
  BY <1>1 DEF HoldInv, StoresTyped, GenInv, Operation, Online
<1>6. /\ audits = <<>> /\ receipts = <<>>
      /\ \A s \in SubjectIds :
           /\ \A x \in Online : x \in online[s] \/ Comes(PutOf(x, s))
           /\ cipher[s] # 0 \/ Comes(PutOf("cipher", s))
           /\ key[s] # 0 \/ Comes(PutOf("key", s))
  BY DEF PilotInv, Enrolled
<1>7. \A x, s : Op = PutOf(x, s) => Op.do = "put" /\ Op.what = x /\ Op.who = s
  BY DEF PutOf
<1>8. ASSUME NEW s \in SubjectIds, NEW x \in Online
      PROVE  x \in online'[s] \/ Comes(PutOf(x, s))'
  <2>1. online[s] \subseteq online'[s]
    BY <1>4, <1>5 DEF PutOnline, PutCipher, PutKey
  <2>2. CASE Op = PutOf(x, s)
    <3>1. PutOnline /\ Op.what = x /\ Op.who = s
      BY <1>4, <1>5, <1>7, <2>2 DEF PutCipher, PutKey
    <3>. QED  BY <1>5, <3>1 DEF PutOnline
  <2>3. CASE Op # PutOf(x, s)
    BY <1>1, <1>6, <2>1, <2>3
  <2>. QED  BY <2>2, <2>3
<1>9. ASSUME NEW s \in SubjectIds PROVE cipher'[s] # 0 \/ Comes(PutOf("cipher", s))'
  <2>1. crashes + 1 # 0
    BY <1>1
  <2>2. cipher[s] # 0 => cipher'[s] # 0
    BY <1>4, <1>5, <2>1 DEF PutOnline, PutCipher, PutKey
  <2>3. CASE Op = PutOf("cipher", s)
    <3>1. PutCipher /\ Op.who = s
      BY <1>4, <1>5, <1>7, <2>3 DEF PutOnline, PutKey
    <3>. QED  BY <1>5, <2>1, <3>1 DEF PutCipher
  <2>4. CASE Op # PutOf("cipher", s)
    BY <1>1, <1>6, <2>2, <2>4
  <2>. QED  BY <2>3, <2>4
<1>10. ASSUME NEW s \in SubjectIds PROVE key'[s] # 0 \/ Comes(PutOf("key", s))'
  <2>1. KeysFollow(todo')
    BY OperationDoes, DoneFacts
  <2>2. CASE Op.do = "put" /\ PutKey /\ Op.who = s
    <3>1. key'[s] = cipher[s] /\ Op.what = "key"
      BY <1>5, <2>2 DEF PutKey
    <3>2. CASE cipher[s] # 0
      BY <3>1, <3>2
    <3>3. CASE cipher[s] = 0
      <4>1. Op # PutOf("cipher", s)
        BY <1>7, <3>1
      <4>2. Comes(PutOf("cipher", s))'
        BY <1>1, <1>6, <3>3, <4>1
      <4>. QED  BY <2>1, <4>2, KeyFollows DEF Comes
    <3>. QED  BY <3>2, <3>3
  <2>3. CASE ~ (Op.do = "put" /\ PutKey /\ Op.who = s)
    <3>1. key'[s] = key[s]
      BY <1>4, <1>5, <2>3 DEF PutOnline, PutCipher, PutKey
    <3>2. Op # PutOf("key", s)
      BY <1>4, <1>5, <1>7, <2>3 DEF PutOnline, PutCipher
    <3>. QED  BY <1>1, <1>6, <3>1, <3>2
  <2>. QED  BY <2>2, <2>3
<1>11. Enrolled'
  BY <1>3, <1>6, <1>8, <1>9, <1>10 DEF Enrolled
<1>12. Concluded'
  BY <1>1, SubjectFacts DEF Concluded
<1>. QED  BY <1>1, <1>11, <1>12 DEF PilotInv

LEMMA SameRecords ==
  ASSUME UNCHANGED <<trial, stage, todo, online, cipher, key, audits, receipts>>
  PROVE  /\ Enrolled => Enrolled'
         /\ StoresErased => StoresErased'
         /\ AuditsMade => AuditsMade'
         /\ ReceiptsMade => ReceiptsMade'
<1>1. Progress' = Progress /\ (Erasing' <=> Erasing) /\ \A j : Reached(j)' = Reached(j)
  BY DEF Progress, Erasing, Reached
<1>2. Enrolled => Enrolled'
  BY DEF Enrolled, Comes
<1>3. StoresErased => StoresErased'
  BY <1>1 DEF StoresErased, Stands, Opens
<1>4. AuditsMade => AuditsMade'
  BY <1>1 DEF AuditsMade
<1>5. ReceiptsMade => ReceiptsMade'
  BY <1>1 DEF ReceiptsMade, Rightful
<1>. QED  BY <1>2, <1>3, <1>4, <1>5

\* When all the subjects are enrolled, the deletions begin.
LEMMA FirstDeletion ==
  ASSUME BaseInv, GenInv, HoldInv, Enrolled, trial.kind = "pilot", todo = <<>>,
         stage' = 2, todo' = Deletion(Subjects[1]),
         UNCHANGED <<trial, online, cipher, key, audits, receipts>>
  PROVE  StoresErased' /\ AuditsMade' /\ ReceiptsMade'
<1>1. /\ Deletions \in Nat /\ Deletions >= 1 /\ Len(Subjects) \in Nat
      /\ \A j \in 1..Len(Subjects) : Subjects[j] \in SubjectIds
      /\ Subjects[1] \in SubjectIds
  BY SubjectFacts
<1>2. Len(todo') = 9
  BY <1>1, DeletionIs
<1>3. Progress' = 0
  BY <1>1, <1>2 DEF Progress, Erasing
<1>4. \A j \in 1..Len(Subjects) : Reached(j)' = 0
  BY <1>1, <1>3 DEF Reached
<1>5. ASSUME NEW s \in SubjectIds PROVE online[s] = Online /\ Opens(s)
  <2>1. \A op : ~ Comes(op)
    BY DEF Comes, Contains
  <2>2. (\A x \in Online : x \in online[s]) /\ cipher[s] # 0 /\ key[s] # 0
    BY <2>1 DEF Enrolled
  <2>3. online[s] \subseteq Online
    BY DEF HoldInv, StoresTyped
  <2>4. ~ Ahead("key", s)
    BY <2>1 DEF Comes, Ahead
  <2>5. key[s] = cipher[s] /\ key[s] > 0
    BY <2>2, <2>4 DEF GenInv, Generations
  <2>. QED  BY <2>2, <2>3, <2>5 DEF Opens
<1>6. StoresErased'
  <2>1. ASSUME NEW j \in 1..Len(Subjects) PROVE Stands(Subjects[j], Reached(j))'
    <3>1. /\ online'[Subjects[j]] = Online
          /\ key'[Subjects[j]] > 0 /\ key'[Subjects[j]] = cipher'[Subjects[j]]
      BY <1>1, <1>5 DEF Opens
    <3>. QED  BY <1>4, <3>1, HeldFacts DEF Stands, Opens
  <2>. QED  BY <2>1 DEF StoresErased
<1>7. audits' = <<>> /\ receipts' = <<>> /\ Len(<<>>) = 0 /\ <<>> \in Seq({})
  BY DEF Enrolled
<1>8. AuditsMade'
  <2>1. \E S : audits' \in Seq(S)
    BY <1>7
  <2>2. Len(audits') = 2 * (stage' - 2) + AuditsOf(Progress)'
    BY <1>3, <1>7 DEF AuditsOf
  <2>3. \A i \in 1..Deletions : ~ (2 * i - 1 <= Len(audits')) /\ ~ (2 * i <= Len(audits'))
    BY <1>7
  <2>. QED  BY <2>1, <2>2, <2>3 DEF AuditsMade
<1>9. ReceiptsMade'
  <2>1. \E S : receipts' \in Seq(S)
    BY <1>7
  <2>2. Len(receipts') = (stage' - 2) + (IF Progress' < 8 THEN 0 ELSE 1)
    BY <1>3, <1>7
  <2>3. \A i : i \notin 1..Len(receipts')
    BY <1>7
  <2>. QED  BY <2>1, <2>2, <2>3 DEF ReceiptsMade
<1>. QED  BY <1>6, <1>8, <1>9

\* When a deletion is made, the next one begins, or the trial is concluded.
LEMMA NextDeletion ==
  ASSUME BaseInv, StoresErased, AuditsMade, ReceiptsMade, trial.kind = "pilot", Erasing,
         todo = <<>>, stage' = stage + 1,
         Len(todo') = 9 \/ ~ Erasing',
         UNCHANGED <<trial, online, cipher, key, audits, receipts>>
  PROVE  StoresErased' /\ AuditsMade' /\ ReceiptsMade'
<1>1. Progress = 9 /\ stage \in Nat /\ stage >= 2
  BY ProgressFacts, SubjectFacts DEF Erasing
<1>2. Progress' = 0
  BY DEF Progress
<1>3. \A j \in 1..Len(Subjects) : Reached(j)' = Reached(j)
  BY <1>1, <1>2 DEF Reached
<1>4. StoresErased'
  BY <1>3 DEF StoresErased, Stands, Opens
<1>5. AuditsMade'
  <2>1. 2 * (stage - 2) + AuditsOf(Progress) = 2 * (stage' - 2) + AuditsOf(Progress)'
    BY <1>1, <1>2 DEF AuditsOf
  <2>. QED  BY <2>1 DEF AuditsMade
<1>6. ReceiptsMade'
  <2>1. (stage - 2) + (IF Progress < 8 THEN 0 ELSE 1) = (stage' - 2) + (IF Progress' < 8 THEN 0 ELSE 1)
    BY <1>1, <1>2
  <2>2. \A i \in 1..Len(receipts) : Rightful(i) => Rightful(i)'
    BY <1>1, <1>2 DEF Rightful
  <2>. QED  BY <2>1, <2>2 DEF ReceiptsMade
<1>. QED  BY <1>4, <1>5, <1>6

LEMMA PilotNextStage ==
  ASSUME BaseInv, GenInv, HoldInv, PilotInv, trial.kind = "pilot", NextStage
  PROVE  PilotInv'
<1>1. /\ trial' = trial /\ todo = <<>> /\ status = "running"
      /\ UNCHANGED <<online, cipher, key, audits, receipts>> /\ verdict' = verdict
      /\ \/ /\ stage < Len(Stages) /\ stage' = stage + 1 /\ todo' = Stages[stage + 1].does
            /\ status' = status
         \/ ~ (stage < Len(Stages)) /\ stage' = stage /\ todo' = todo /\ status' = "done"
  BY DEF NextStage, disk, memory
<1>2. /\ Len(Stages) = Deletions + 2
      /\ \A i \in 2..(Deletions + 1) : Stages[i].does = Deletion(Subjects[i - 1])
      /\ Stages[Deletions + 2].does = Once("conclude", One)
      /\ stage \in 1..(Deletions + 2) /\ Deletions \in Nat /\ Deletions >= 1
  BY PilotIs, SubjectFacts
<1>3. /\ stage = 1 => Enrolled
      /\ stage > 1 => StoresErased /\ AuditsMade /\ ReceiptsMade
      /\ Concluded
  BY DEF PilotInv
<1>4. CASE stage' = stage /\ status' = "done" /\ todo' = todo /\ ~ (stage < Len(Stages))
  <2>1. stage = Deletions + 2 /\ stage > 1 /\ stage # 1
    BY <1>2, <1>4
  <2>2. StoresErased' /\ AuditsMade' /\ ReceiptsMade'
    BY <1>1, <1>3, <1>4, <2>1, SameRecords
  <2>3. Concluded'
    BY <1>1, <1>3, <1>4, <2>1 DEF Concluded
  <2>. QED  BY <1>1, <1>4, <2>1, <2>2, <2>3 DEF PilotInv
<1>5. CASE stage < Len(Stages) /\ stage' = stage + 1 /\ todo' = Stages[stage + 1].does /\ status' = status
  <2>1. /\ stage \in 1..(Deletions + 1) /\ stage' \in 2..(Deletions + 2) /\ stage' > 1 /\ stage' # 1
        /\ todo' = Stages[stage'].does /\ status' = "running"
    BY <1>1, <1>2, <1>5
  <2>2. stage' \in 2..(Deletions + 1) => todo' = Deletion(Subjects[stage' - 1]) /\ Len(todo') = 9
    <3>1. ASSUME stage' \in 2..(Deletions + 1)
          PROVE  todo' = Deletion(Subjects[stage' - 1]) /\ Subjects[stage' - 1] \in SubjectIds
      <4>0. Deletions \in Nat /\ Len(Subjects) \in Nat /\ Deletions < Len(Subjects)
        BY SubjectFacts
      <4>1. stage' - 1 \in 1..Len(Subjects)
        <5>1. PICK k \in Nat : k = stage'
          BY <3>1, <4>0
        <5>2. k \in 2..(Deletions + 1)
          BY <3>1, <5>1
        <5>3. k - 1 \in 1..Len(Subjects)
          BY <4>0, <5>2
        <5>. QED  BY <5>1, <5>3
      <4>. QED  BY <1>2, <2>1, <3>1, <4>1, SubjectFacts
    <3>. QED  BY <3>1, DeletionIs
  <2>3. CASE stage = 1
    <3>1. stage' = 2 /\ todo' = Deletion(Subjects[1])
      BY <1>2, <1>5, <2>2, <2>3
    <3>. HIDE DEF Stages
    <3>. QED  BY <1>1, <1>3, <2>3, <3>1, <2>1, <1>2, FirstDeletion DEF PilotInv, Concluded
  <2>4. CASE stage # 1
    <3>1. Erasing /\ stage > 1
      BY <2>1, <2>4 DEF Erasing
    <3>2. Len(todo') = 9 \/ ~ Erasing'
      BY <2>2 DEF Erasing
    <3>3. StoresErased' /\ AuditsMade' /\ ReceiptsMade'
      BY <1>1, <1>3, <1>5, <3>1, <3>2, NextDeletion
    <3>4. Concluded'
      <4>1. ASSUME stage' = Deletions + 2 PROVE todo' # <<>>
        <5>1. todo' = Once("conclude", One) /\ "conclude" \in Verbs \ {"run", "rebuild", "write"}
          BY <1>2, <2>1, <4>1 DEF Verbs
        <5>2. Len(todo') = 1
          BY <5>1, OnceFacts, SubjectFacts
        <5>. QED  BY <5>2
      <4>. QED  BY <2>1, <4>1 DEF Concluded
    <3>. QED  BY <1>1, <2>1, <3>3, <3>4 DEF PilotInv
  <2>. QED  BY <2>3, <2>4
<1>. QED  BY <1>1, <1>4, <1>5

\* A trial that starts over has everything to write again.
LEMMA Begun ==
  ASSUME BaseInv, trial.kind = "pilot", todo = First, audits = <<>>, receipts = <<>>
  PROVE  Enrolled
<1>1. todo = EnrollAll
  BY PilotIs
<1>2. ASSUME NEW s \in SubjectIds, NEW what \in PutNames PROVE Comes(PutOf(what, s))
  <2>1. PICK k \in 1..Len(Subjects) : s = Subjects[k]
    BY SubjectsAssumption DEF SubjectIds
  <2>2. HasPuts(EnrollAll, s)
    BY <2>1, EnrollAllFacts
  <2>. QED  BY <1>1, <2>2 DEF HasPuts, Comes, Contains
<1>. QED  BY <1>2 DEF Enrolled, PutNames

LEMMA PilotRerun ==
  ASSUME BaseInv, PilotInv, Rerun
  PROVE  PilotInv'
<1>1. /\ BaseInv' /\ First' = First /\ todo' = First' /\ stage' = 1 /\ trial' = trial
      /\ status' = "running" /\ audits' = <<>> /\ receipts' = <<>>
  BY RerunFacts DEF Rerun
<1>2. ASSUME trial.kind = "pilot" PROVE Enrolled'
  <2>1. First = EnrollAll
    BY <1>2, PilotIs
  <2>2. \A s \in SubjectIds, what \in PutNames : Comes(PutOf(what, s))'
    <3>1. ASSUME NEW s \in SubjectIds, NEW what \in PutNames PROVE Contains(EnrollAll, PutOf(what, s))
      <4>1. PICK k \in 1..Len(Subjects) : s = Subjects[k]
        BY SubjectsAssumption DEF SubjectIds
      <4>2. HasPuts(EnrollAll, s)
        BY <4>1, EnrollAllFacts
      <4>. QED  BY <4>2 DEF HasPuts, Contains
    <3>. QED  BY <1>1, <2>1, <3>1 DEF Comes
  <2>. QED  BY <1>1, <2>2 DEF Enrolled, PutNames
<1>3. Concluded'
  BY <1>1, SubjectFacts DEF Concluded
<1>. QED  BY <1>1, <1>2, <1>3 DEF PilotInv

LEMMA InitPilot == Init => PilotInv
<1>. SUFFICES ASSUME Init PROVE PilotInv
  OBVIOUS
<1>1. BaseInv /\ todo = First
  BY InitBase
<1>2. stage = 1 /\ status = "running" /\ audits = <<>> /\ receipts = <<>>
  BY DEF Init
<1>3. Concluded
  BY <1>2, SubjectFacts DEF Concluded
<1>. QED  BY <1>1, <1>2, <1>3, Begun DEF PilotInv

LEMMA StepPilot == BaseInv /\ GenInv /\ HoldInv /\ PilotInv /\ [Next]_vars => PilotInv'
<1>. SUFFICES ASSUME BaseInv, GenInv, HoldInv, PilotInv, [Next]_vars PROVE PilotInv'
  OBVIOUS
<1>1. CASE OperationStep
  <2>1. CASE trial.kind # "pilot"
    <3>1. receipts' = receipts /\ trial' = trial
      BY <1>1, <2>1, OthersIssueNothing, RecordsKept, OperationFacts
    <3>. QED  BY <2>1, <3>1 DEF PilotInv
  <2>2. CASE trial.kind = "pilot"
    <3>1. stage = 1 \/ Erasing \/ stage = Deletions + 2
      BY <2>2, PilotIs, SubjectFacts DEF Erasing
    <3>. QED  BY <1>1, <2>2, <3>1, EnrollingStep, ErasingStep, ConcludeStep
  <2>. QED  BY <2>1, <2>2
<1>2. CASE NextStage
  <2>1. CASE trial.kind # "pilot"
    <3>1. receipts' = receipts /\ trial' = trial
      BY <1>2 DEF NextStage, memory
    <3>. QED  BY <2>1, <3>1 DEF PilotInv
  <2>. QED  BY <1>2, <2>1, PilotNextStage
<1>3. CASE Crash \/ KillInWrite
  BY <1>3, PilotRerun DEF Crash, KillInWrite
<1>4. CASE Fail \/ Ended \/ UNCHANGED vars
  <2>1. /\ UNCHANGED <<trial, stage, todo, online, cipher, key, audits, receipts>> /\ verdict' = verdict
        /\ status' = "failed" \/ status' = status
    BY <1>4 DEF Fail, Ended, vars, disk, memory
  <2>2. Concluded => Concluded'
    BY <2>1 DEF Concluded
  <2>. QED  BY <2>1, <2>2, SameRecords DEF PilotInv
<1>. QED  BY <1>1, <1>2, <1>3, <1>4 DEF Next, TrialStep, OperationStep

LEMMA ReceiptsHold == BaseInv /\ PilotInv => ReceiptsAreTrue
<1>. SUFFICES ASSUME BaseInv, PilotInv PROVE ReceiptsAreTrue
  OBVIOUS
<1>1. ASSUME receipts = <<>>, trial.kind = "pilot" => Concluded PROVE ReceiptsAreTrue
  <2>1. DOMAIN receipts = {}
    BY <1>1
  <2>2. trial.kind = "pilot" /\ status = "done" => verdict = "success"
    BY <1>1 DEF Concluded
  <2>. QED  BY <1>1, <2>1, <2>2 DEF ReceiptsAreTrue
<1>2. CASE trial.kind # "pilot"
  BY <1>1, <1>2 DEF PilotInv
<1>3. CASE trial.kind = "pilot" /\ stage = 1
  BY <1>1, <1>3 DEF PilotInv, Enrolled
<1>4. CASE trial.kind = "pilot" /\ stage # 1
  <2>1. /\ Deletions \in Nat /\ Len(Subjects) \in Nat /\ Deletions < Len(Subjects)
        /\ stage \in 2..(Deletions + 2) /\ stage > 1
    BY <1>4, PilotIs, SubjectFacts
  <2>2. StoresErased /\ AuditsMade /\ ReceiptsMade /\ Concluded
    BY <1>4, <2>1 DEF PilotInv
  <2>3. Progress \in 0..9 /\ (~ Erasing => Progress = 0)
    BY <1>4, ProgressFacts DEF Progress
  <2>4. PICK S : receipts \in Seq(S)
    BY <2>2 DEF ReceiptsMade
  <2>5. DOMAIN receipts = 1..Len(receipts) /\ Len(receipts) \in Nat
    BY <2>4
  <2>6. Len(receipts) = (stage - 2) + (IF Progress < 8 THEN 0 ELSE 1)
    BY <2>2 DEF ReceiptsMade
  <2>7. ASSUME NEW i \in 1..Len(receipts)
        PROVE  /\ receipts[i].receipt.payload.root[1] = Subjects[i]
               /\ receipts[i].receipt.payload.previous = IF i = 1 THEN <<>> ELSE receipts[i - 1].receipt
    <3>. DEFINE of == Receipt(i, <<Subjects[i], {}>>, "COMPLETE", i, i,
                              IF i = 1 THEN <<>> ELSE receipts[i - 1].receipt)
                early == i < Len(receipts) \/ Progress # 8
    <3>1. receipts[i] = [receipt |-> of, valid |-> early]
      BY <2>2 DEF ReceiptsMade, Rightful
    <3>2. /\ of.payload.root[1] = Subjects[i]
          /\ of.payload.previous = IF i = 1 THEN <<>> ELSE receipts[i - 1].receipt
      BY DEF Receipt
    <3>. HIDE DEF of, early
    <3>3. receipts[i].receipt = of
      BY <3>1
    <3>. QED  BY <3>2, <3>3
  <2>8. ASSUME NEW i \in 1..Len(receipts) PROVE Presence(Subjects[i]) = {}
    <3>1. i \in 1..Len(Subjects) /\ Reached(i) \in 8..9
      <4>1. i <= stage - 2 \/ (i = stage - 1 /\ Progress \in 8..9 /\ Erasing)
        BY <2>1, <2>3, <2>5, <2>6
      <4>2. i <= stage - 2 => i <= Deletions /\ Reached(i) = 9
        BY <2>1, <2>5 DEF Reached
      <4>3. i = stage - 1 /\ Progress \in 8..9 /\ Erasing => i <= Deletions /\ Reached(i) \in 8..9
        BY <2>1 DEF Reached, Erasing
      <4>. QED  BY <2>1, <2>5, <4>1, <4>2, <4>3
    <3>2. Stands(Subjects[i], Reached(i))
      BY <2>2, <3>1 DEF StoresErased
    <3>3. Held(Reached(i)) = {} /\ ~ (Reached(i) < 5)
      <4>1. Reached(i) = 8 \/ Reached(i) = 9
        BY <3>1
      <4>. QED  BY <4>1, HeldFacts
    <3>. QED  BY <3>2, <3>3 DEF Stands, Presence, Opens
  <2>9. ASSUME NEW i \in (Deletions + 1)..Len(Subjects)
        PROVE  Presence(Subjects[i]) = Online \union {"backup"}
    <3>1. i \in 1..Len(Subjects) /\ Reached(i) = 0
      <4>1. i = stage - 1 => ~ Erasing
        BY <2>1 DEF Erasing
      <4>. QED  BY <2>1, <2>3, <4>1 DEF Reached
    <3>2. Stands(Subjects[i], 0)
      BY <2>2, <3>1 DEF StoresErased
    <3>. QED  BY <3>2, HeldFacts DEF Stands, Presence
  <2>10. ASSUME NEW i \in DOMAIN receipts, receipts[i].valid
         PROVE  ~ VerifyReceipt(receipts[i].receipt, Ledger, Len(receipts), LastReceipt)
    <3>1. receipts[i].receipt.payload.nonce \in Ledger
      BY <2>10 DEF Ledger
    <3>. QED  BY <3>1 DEF VerifyReceipt
  <2>11. status = "done" => verdict = "success"
    BY <2>2 DEF Concluded
  <2>. QED  BY <2>5, <2>7, <2>8, <2>9, <2>10, <2>11 DEF ReceiptsAreTrue
<1>. QED  BY <1>2, <1>3, <1>4

\* For any subjects, any number of deletions among them and any number of kills,
\* in a write or between two: a receipt that the pilot has issued as COMPLETE
\* stays true whatever is done to the other subjects, each one is chained to the
\* one before and accepted once, the subjects that asked for nothing keep all
\* their data, and a pilot that gets through succeeds
\* (run_egov_pilot_simulator.py; receipts.py, issue_receipt and verify_receipt).
THEOREM PilotReceiptsAreTrue == Spec => []ReceiptsAreTrue
<1>1. Init => BaseInv /\ GenInv /\ HoldInv /\ PilotInv
  BY InitBase, InitGenerations, InitHolds, InitPilot
<1>2. BaseInv /\ GenInv /\ HoldInv /\ PilotInv /\ [Next]_vars
        => (BaseInv /\ GenInv /\ HoldInv /\ PilotInv)'
  BY StepBase, StepGenerations, StepHolds, StepPilot
<1>3. BaseInv /\ PilotInv => ReceiptsAreTrue
  BY ReceiptsHold
<1>. QED  BY <1>1, <1>2, <1>3, PTL DEF Spec

=============================================================================
