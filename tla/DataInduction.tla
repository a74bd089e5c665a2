----------------------------- MODULE DataInduction -----------------------------
(***************************************************************************)
(* Lemmas about finite data that the proofs of several components rest on. *)
(* Induction is by least counterexample: finite sets are well-founded by   *)
(* inclusion, natural numbers by size.  A recursive function exists        *)
(* because no least argument can be without one.                           *)
(***************************************************************************)
EXTENDS Integers, Sequences, FiniteSets, FiniteSetsExt, FiniteSetTheorems, WellFoundedInduction, TLAPS

LEMMA LeastSet ==
  ASSUME NEW T, T # {}, \A t \in T : IsFiniteSet(t)
  PROVE  \E t \in T : \A u \in T : u \subseteq t => u = t
<1>. DEFINE S == UNION T
<1>1. T \subseteq FiniteSubsetsOf(S)
  BY DEF FiniteSubsetsOf
<1>2. \E t \in T : \A u \in T : ~ (<<u, t>> \in StrictSubsetOrdering(S))
  BY <1>1, FS_StrictSubsetOrderingWellFounded, WFMin
<1>. QED  BY <1>2 DEF StrictSubsetOrdering

LEMMA LeastNat ==
  ASSUME NEW S \in SUBSET Nat, S # {}
  PROVE  \E m \in S : \A n \in S : m <= n
<1>. DEFINE T == { 0..m : m \in S }
<1>1. \A m \in S : IsFiniteSet(0..m)
  BY FS_Interval
<1>2. PICK t \in T : \A u \in T : u \subseteq t => u = t
  <2>1. T # {}
    <3>1. PICK m \in S : TRUE
      OBVIOUS
    <3>2. 0..m \in T
      OBVIOUS
    <3>. QED  BY <3>2
  <2>2. \A t \in T : IsFiniteSet(t)
    BY <1>1
  <2>. HIDE DEF T
  <2>. QED  BY <2>1, <2>2, LeastSet
<1>3. PICK m \in S : t = 0..m
  OBVIOUS
<1>4. ASSUME NEW n \in S, n < m PROVE FALSE
  <2>1. 0..n \subseteq 0..m /\ m \in 0..m /\ m \notin 0..n
    BY <1>4
  <2>. QED  BY <2>1, <1>2, <1>3
<1>. QED  BY <1>4

\* The image of a finite set; it is a singleton when all are sent to one.
LEMMA ImageFinite ==
  ASSUME NEW S, IsFiniteSet(S), NEW f
  PROVE  /\ IsFiniteSet({ f[x] : x \in S })
         /\ Cardinality({ f[x] : x \in S }) = 1 =>
              \A x, y \in S : f[x] = f[y]
         /\ S # {} /\ (\A x, y \in S : f[x] = f[y]) =>
              Cardinality({ f[x] : x \in S }) = 1
<1>. DEFINE T == { f[x] : x \in S }
<1>. DEFINE g == [x \in S |-> f[x]]
<1>1. g \in Surjection(S, T)
  BY DEF Surjection
<1>2. IsFiniteSet(T)
  <2>. HIDE DEF T, g
  <2>. QED  BY <1>1, FS_Surjection
<1>3. Cardinality(T) = 1 <=> \E y : T = {y}
  <2>. HIDE DEF T
  <2>. QED  BY <1>2, FS_Singleton
<1>4. ASSUME NEW y, T = {y}, NEW a \in S, NEW b \in S PROVE f[a] = f[b]
  <2>1. f[a] \in T /\ f[b] \in T
    OBVIOUS
  <2>. QED  BY <2>1, <1>4
<1>5. ASSUME NEW a \in S, \A x, y \in S : f[x] = f[y] PROVE T = {f[a]}
  BY <1>5
<1>. QED  BY <1>2, <1>3, <1>4, <1>5

\* A finite set of numbers has a largest.
LEMMA GreatestNat ==
  ASSUME NEW S \in SUBSET Nat, S # {}, IsFiniteSet(S)
  PROVE  Max(S) \in S /\ \A n \in S : n <= Max(S)
<1>. DEFINE Above(m) == { n \in S : m <= n }
            T == { Above(m) : m \in S }
<1>1. PICK t \in T : \A u \in T : u \subseteq t => u = t
  <2>1. T # {}
    <3>1. PICK m \in S : TRUE
      OBVIOUS
    <3>2. Above(m) \in T
      OBVIOUS
    <3>. QED  BY <3>2
  <2>2. \A u \in T : IsFiniteSet(u)
    <3>1. \A m \in S : Above(m) \in SUBSET S
      OBVIOUS
    <3>2. \A m \in S : IsFiniteSet(Above(m))
      <4>. HIDE DEF Above
      <4>. QED  BY <3>1, FS_Subset
    <3>. QED  BY <3>2
  <2>. HIDE DEF T
  <2>. QED  BY <2>1, <2>2, LeastSet
<1>2. PICK m \in S : t = Above(m)
  OBVIOUS
<1>3. ASSUME NEW n \in S PROVE n <= m
  <2>. SUFFICES ASSUME m < n PROVE FALSE
    OBVIOUS
  <2>1. Above(n) \subseteq Above(m) /\ m \in Above(m) /\ m \notin Above(n)
    <3>1. m \in Nat /\ n \in Nat /\ \A k \in S : k \in Nat
      OBVIOUS
    <3>2. m <= m /\ ~ (n <= m) /\ \A k \in S : n <= k => m <= k
      BY <3>1
    <3>. QED  BY <3>2
  <2>. QED  BY <2>1, <1>1, <1>2
<1>4. \A y \in S : m >= y
  BY <1>3
<1>5. Max(S) \in S /\ \A y \in S : Max(S) >= y
  BY <1>4 DEF Max
<1>. QED  BY <1>5

\* A finite set has a least element in a linear order.
LEMMA LeastInOrder ==
  ASSUME NEW S, IsFiniteSet(S), S # {}, NEW less,
         \A a, b \in S : a # b => <<a, b>> \in less \/ <<b, a>> \in less,
         \A a, b, c \in S : <<a, b>> \in less /\ <<b, c>> \in less => <<a, c>> \in less
  PROVE  \E a \in S : \A b \in S \ {a} : <<a, b>> \in less
<1>. DEFINE First(C, a) == a \in C /\ \A b \in C \ {a} : <<a, b>> \in less
            bad == { C \in SUBSET S : C # {} /\ ~ \E a \in C : First(C, a) }
<1>. SUFFICES ASSUME bad # {} PROVE FALSE
  OBVIOUS
<1>1. \A C \in bad : IsFiniteSet(C)
  BY FS_Subset
<1>2. PICK C \in bad : \A D \in bad : D \subseteq C => D = C
  <2>. HIDE DEF bad
  <2>. QED  BY <1>1, LeastSet
<1>3. C \in SUBSET S /\ C # {} /\ ~ \E a \in C : First(C, a)
  OBVIOUS
<1>4. PICK c \in C : TRUE
  BY <1>3
<1>. DEFINE D == C \ {c}
<1>5. D # {}
  BY <1>3, <1>4
<1>6. PICK m \in D : First(D, m)
  <2>1. D \in SUBSET S /\ D \subseteq C /\ D # C
    BY <1>3, <1>4
  <2>2. D \notin bad
    <3>. HIDE DEF bad, D
    <3>. QED  BY <1>2, <2>1
  <2>. HIDE DEF First, D
  <2>. QED  BY <1>5, <2>1, <2>2
<1>7. m \in S /\ c \in S /\ m # c
  BY <1>3, <1>4, <1>6
<1>8. CASE <<m, c>> \in less
  <2>1. First(C, m)
    BY <1>6, <1>8
  <2>. QED  BY <1>3, <1>6, <2>1
<1>9. CASE <<c, m>> \in less
  <2>1. ASSUME NEW b \in C \ {c} PROVE <<c, b>> \in less
    <3>1. b = m \/ <<m, b>> \in less
      BY <1>6
    <3>. QED  BY <1>3, <1>7, <1>9, <3>1
  <2>. QED  BY <1>3, <1>4, <2>1
<1>. QED  BY <1>7, <1>8, <1>9

-----------------------------------------------------------------------------
(* Sums over finite sets.                                                  *)

Total(weight, S) == MapThenSumSet(LAMBDA x : weight[x], S)

AnyOf(s) == CHOOSE x \in s : TRUE

Sums(weight, S, f) ==
  f = [s \in SUBSET S |-> IF s = {} THEN 0 ELSE weight[AnyOf(s)] + f[s \ {AnyOf(s)}]]

LEMMA TotalIsSum == \A weight, S : Total(weight, S) = (CHOOSE f : Sums(weight, S, f))[S]
BY DEF Total, MapThenSumSet, MapThenFoldSet, Sums, AnyOf

\* All sums agree where they are defined.
LEMMA SumsAgree ==
  ASSUME NEW weight, NEW A, NEW B, NEW f, NEW g, Sums(weight, A, f), Sums(weight, B, g),
         NEW S, S \subseteq A, S \subseteq B, IsFiniteSet(S)
  PROVE  f[S] = g[S]
<1>. DEFINE bad == { s \in SUBSET S : f[s] # g[s] }
<1>. SUFFICES ASSUME bad # {} PROVE FALSE
  OBVIOUS
<1>1. \A s \in bad : IsFiniteSet(s)
  BY FS_Subset
<1>2. PICK s \in bad : \A u \in bad : u \subseteq s => u = s
  <2>. HIDE DEF bad
  <2>. QED  BY <1>1, LeastSet
<1>3. s \in SUBSET A /\ s \in SUBSET B
  OBVIOUS
<1>4. s # {}
  BY <1>3 DEF Sums
<1>5. AnyOf(s) \in s
  BY <1>4 DEF AnyOf
<1>. DEFINE u == s \ {AnyOf(s)}
<1>6. f[u] = g[u]
  <2>1. u \in SUBSET S /\ u \subseteq s /\ u # s
    BY <1>5
  <2>. HIDE DEF u
  <2>. QED  BY <1>2, <2>1
<1>7. f[s] = weight[AnyOf(s)] + f[u] /\ g[s] = weight[AnyOf(s)] + g[u]
  BY <1>3, <1>4 DEF Sums
<1>. HIDE DEF u
<1>. QED  BY <1>6, <1>7

LEMMA SumsExist ==
  ASSUME NEW weight, NEW S, IsFiniteSet(S)
  PROVE  \E f : Sums(weight, S, f)
<1>. DEFINE bad == { s \in SUBSET S : ~ \E f : Sums(weight, s, f) }
<1>. SUFFICES ASSUME bad # {} PROVE FALSE
  OBVIOUS
<1>1. \A s \in bad : IsFiniteSet(s)
  BY FS_Subset
<1>2. PICK s \in bad : \A u \in bad : u \subseteq s => u = s
  <2>. HIDE DEF bad
  <2>. QED  BY <1>1, LeastSet
<1>3. \A u \in SUBSET s : u # s => \E f : Sums(weight, u, f)
  BY <1>2
<1>. DEFINE of == [u \in SUBSET s |-> CHOOSE f : Sums(weight, u, f)]
            rest(u) == u \ {AnyOf(u)}
            f == [u \in SUBSET s |-> IF u = {} THEN 0 ELSE weight[AnyOf(u)] + of[rest(u)][rest(u)]]
<1>4. \A u \in SUBSET s : u # {} => rest(u) \in SUBSET s /\ rest(u) # s /\ rest(u) # u /\ rest(u) \subseteq u
  BY DEF AnyOf
<1>5. \A u \in SUBSET s : u # s => Sums(weight, u, of[u])
  BY <1>3
<1>6. ASSUME NEW u \in SUBSET s, u # s PROVE f[u] = of[u][u]
  <2>1. Sums(weight, u, of[u])
    BY <1>5, <1>6
  <2>2. of[u][u] = IF u = {} THEN 0 ELSE weight[AnyOf(u)] + of[u][rest(u)]
    BY <2>1 DEF Sums
  <2>3. u # {} => of[u][rest(u)] = of[rest(u)][rest(u)]
    <3>1. u # {} => Sums(weight, rest(u), of[rest(u)]) /\ rest(u) \subseteq u /\ IsFiniteSet(rest(u))
      BY <1>4, <1>5, <1>1, FS_Subset
    <3>. HIDE DEF rest, of
    <3>. QED  BY <2>1, <3>1, SumsAgree
  <2>4. f[u] = IF u = {} THEN 0 ELSE weight[AnyOf(u)] + of[rest(u)][rest(u)]
    OBVIOUS
  <2>. HIDE DEF rest, of, f
  <2>. QED  BY <2>2, <2>3, <2>4
<1>7. Sums(weight, s, f)
  <2>1. \A u \in SUBSET s : u # {} => f[rest(u)] = of[rest(u)][rest(u)]
    <3>. HIDE DEF rest, of, f
    <3>. QED  BY <1>4, <1>6
  <2>2. f = [u \in SUBSET s |-> IF u = {} THEN 0 ELSE weight[AnyOf(u)] + f[rest(u)]]
    <3>1. \A u \in SUBSET s : f[u] = IF u = {} THEN 0 ELSE weight[AnyOf(u)] + f[rest(u)]
      <4>1. \A u \in SUBSET s :
              f[u] = IF u = {} THEN 0 ELSE weight[AnyOf(u)] + of[rest(u)][rest(u)]
        OBVIOUS
      <4>. HIDE DEF rest, of, f
      <4>. QED  BY <2>1, <4>1
    <3>2. f = [u \in SUBSET s |-> f[u]]
      OBVIOUS
    <3>. HIDE DEF rest, of, f
    <3>. QED  BY <3>1, <3>2
  <2>. QED  BY <2>2 DEF Sums
<1>. QED  BY <1>2, <1>7

\* A sum is the sum of all but one, for the one that AnyOf takes.
LEMMA TotalUnfolds ==
  ASSUME NEW weight, NEW S, IsFiniteSet(S)
  PROVE  Total(weight, S) =
           IF S = {} THEN 0 ELSE weight[AnyOf(S)] + Total(weight, S \ {AnyOf(S)})
<1>. DEFINE f == CHOOSE h : Sums(weight, S, h)
            rest == S \ {AnyOf(S)}
            g == CHOOSE h : Sums(weight, rest, h)
<1>1. Sums(weight, S, f) /\ Total(weight, S) = f[S]
  BY SumsExist, TotalIsSum
<1>2. IsFiniteSet(rest)
  BY FS_Subset
<1>3. Sums(weight, rest, g) /\ Total(weight, rest) = g[rest]
  <2>. HIDE DEF rest
  <2>. QED  BY <1>2, SumsExist, TotalIsSum
<1>4. f[rest] = g[rest]
  <2>. HIDE DEF f, g
  <2>. QED  BY <1>1, <1>2, <1>3, SumsAgree
<1>5. f[S] = IF S = {} THEN 0 ELSE weight[AnyOf(S)] + f[rest]
  <2>. HIDE DEF f
  <2>. QED  BY <1>1 DEF Sums
<1>. HIDE DEF f, g
<1>. QED  BY <1>1, <1>3, <1>4, <1>5

\* Weights that agree have one sum.
LEMMA TotalSame ==
  ASSUME NEW S, IsFiniteSet(S), NEW v, NEW w, \A x \in S : v[x] = w[x]
  PROVE  Total(v, S) = Total(w, S)
<1>. DEFINE bad == { s \in SUBSET S : Total(v, s) # Total(w, s) }
<1>. SUFFICES ASSUME bad # {} PROVE FALSE
  OBVIOUS
<1>1. \A s \in bad : IsFiniteSet(s)
  BY FS_Subset
<1>2. PICK s \in bad : \A u \in bad : u \subseteq s => u = s
  <2>. HIDE DEF bad
  <2>. QED  BY <1>1, LeastSet
<1>3. s \in SUBSET S /\ IsFiniteSet(s) /\ Total(v, s) # Total(w, s)
  BY <1>1
<1>4. /\ Total(v, s) = IF s = {} THEN 0 ELSE v[AnyOf(s)] + Total(v, s \ {AnyOf(s)})
      /\ Total(w, s) = IF s = {} THEN 0 ELSE w[AnyOf(s)] + Total(w, s \ {AnyOf(s)})
  BY <1>3, TotalUnfolds
<1>5. s # {} /\ AnyOf(s) \in s
  BY <1>3, <1>4 DEF AnyOf
<1>. DEFINE u == s \ {AnyOf(s)}
<1>6. u \in SUBSET S /\ u \subseteq s /\ u # s
  BY <1>3, <1>5
<1>7. Total(v, u) = Total(w, u)
  <2>1. u \notin bad
    <3>. HIDE DEF bad, u
    <3>. QED  BY <1>2, <1>6
  <2>. HIDE DEF u
  <2>. QED  BY <1>6, <2>1
<1>8. v[AnyOf(s)] = w[AnyOf(s)]
  BY <1>3, <1>5
<1>. QED  BY <1>3, <1>4, <1>5, <1>7, <1>8

LEMMA TotalType ==
  ASSUME NEW weight, NEW S, IsFiniteSet(S), \A x \in S : weight[x] \in Nat
  PROVE  Total(weight, S) \in Nat
<1>. DEFINE bad == { s \in SUBSET S : Total(weight, s) \notin Nat }
<1>. SUFFICES ASSUME bad # {} PROVE FALSE
  OBVIOUS
<1>1. \A s \in bad : IsFiniteSet(s)
  BY FS_Subset
<1>2. PICK s \in bad : \A u \in bad : u \subseteq s => u = s
  <2>. HIDE DEF bad
  <2>. QED  BY <1>1, LeastSet
<1>3. Total(weight, s) = IF s = {} THEN 0 ELSE weight[AnyOf(s)] + Total(weight, s \ {AnyOf(s)})
  BY <1>1, TotalUnfolds
<1>4. s # {}
  BY <1>2, <1>3
<1>5. AnyOf(s) \in s
  BY <1>4 DEF AnyOf
<1>6. Total(weight, s \ {AnyOf(s)}) \in Nat
  BY <1>2, <1>5
<1>. QED  BY <1>2, <1>3, <1>4, <1>5, <1>6

\* A sum grows by the weight of what is added.
LEMMA TotalAdds ==
  ASSUME NEW weight, NEW S, IsFiniteSet(S), NEW x, x \notin S,
         \A y \in S \union {x} : weight[y] \in Nat
  PROVE  Total(weight, S \union {x}) = Total(weight, S) + weight[x]
<1>. DEFINE all == S \union {x}
            Adds(s, z) == Total(weight, s \union {z}) = Total(weight, s) + weight[z]
            bad == { s \in SUBSET all : \E z \in all \ s : ~ Adds(s, z) }
<1>. SUFFICES ASSUME bad # {} PROVE FALSE
  <2>1. S \in SUBSET all /\ x \in all \ S
    OBVIOUS
  <2>2. S \notin bad
    OBVIOUS
  <2>3. Adds(S, x)
    <3>. HIDE DEF Adds
    <3>. QED  BY <2>1, <2>2
  <2>. QED  BY <2>3
<1>1. IsFiniteSet(all) /\ \A s \in SUBSET all : IsFiniteSet(s) /\ Total(weight, s) \in Nat
  <2>1. IsFiniteSet(all) /\ \A y \in all : weight[y] \in Nat
    BY FS_AddElement
  <2>. HIDE DEF all
  <2>2. \A s \in SUBSET all : IsFiniteSet(s)
    BY <2>1, FS_Subset
  <2>. QED  BY <2>1, <2>2, TotalType
<1>2. PICK s \in bad : \A u \in bad : u \subseteq s => u = s
  <2>1. \A s \in bad : IsFiniteSet(s)
    BY <1>1
  <2>. HIDE DEF bad
  <2>. QED  BY <2>1, LeastSet
<1>3. s \in SUBSET all
  OBVIOUS
<1>4. PICK z \in all \ s : ~ Adds(s, z)
  OBVIOUS
<1>5. ASSUME NEW u \in SUBSET all, u \subseteq s, u # s, NEW y \in all \ u PROVE Adds(u, y)
  <2>1. u \notin bad
    <3>. HIDE DEF bad
    <3>. QED  BY <1>2, <1>5
  <2>. HIDE DEF Adds
  <2>. QED  BY <2>1
<1>. DEFINE t == s \union {z}
            y == AnyOf(t)
            u == s \ {y}
<1>6. t \in SUBSET all /\ t # {} /\ y \in t
  BY <1>3 DEF AnyOf
<1>7. Total(weight, t) = weight[y] + Total(weight, t \ {y})
  <2>. HIDE DEF t
  <2>. QED  BY <1>1, <1>6, TotalUnfolds
<1>8. weight[y] \in Nat /\ weight[z] \in Nat /\ Total(weight, s) \in Nat
  BY <1>1, <1>3, <1>6
<1>9. y # z
  <2>. SUFFICES ASSUME y = z PROVE FALSE
    OBVIOUS
  <2>1. t \ {y} = s
    BY <1>4
  <2>2. Total(weight, t) = weight[z] + Total(weight, s)
    BY <1>7, <2>1
  <2>3. Adds(s, z)
    BY <1>8, <2>2
  <2>. QED  BY <1>4, <2>3
<1>10. y \in s /\ t \ {y} = u \union {z} /\ u \union {y} = s
  BY <1>4, <1>6, <1>9
<1>11. u \in SUBSET all /\ u \subseteq s /\ u # s /\ y \in all \ u /\ z \in all \ u
  BY <1>3, <1>4, <1>10
<1>12. Adds(u, y) /\ Adds(u, z) /\ Total(weight, u) \in Nat
  <2>. HIDE DEF u, y, Adds
  <2>. QED  BY <1>1, <1>5, <1>11
<1>13. Total(weight, s) = Total(weight, u) + weight[y]
  BY <1>10, <1>12
<1>14. Total(weight, t) = weight[y] + (Total(weight, u) + weight[z])
  BY <1>7, <1>10, <1>12
<1>15. Total(weight, t) = Total(weight, s) + weight[z]
  <2>. HIDE DEF t, u, y
  <2>. QED  BY <1>8, <1>12, <1>13, <1>14
<1>. QED  BY <1>4, <1>15

\* The sum over nothing, and over one thing.
LEMMA TotalOfOne ==
  ASSUME NEW weight, NEW x, weight[x] \in Nat
  PROVE  Total(weight, {}) = 0 /\ Total(weight, {x}) = weight[x]
<1>1. IsFiniteSet({})
  BY FS_EmptySet
<1>2. Total(weight, {}) = 0
  BY <1>1, TotalUnfolds
<1>3. Total(weight, {} \union {x}) = Total(weight, {}) + weight[x]
  BY <1>1, TotalAdds
<1>4. {} \union {x} = {x}
  OBVIOUS
<1>. QED  BY <1>2, <1>3, <1>4

\* The sum over two sets that share nothing is the sum of their sums.
LEMMA TotalOfUnion ==
  ASSUME NEW weight, NEW A, IsFiniteSet(A), NEW B, IsFiniteSet(B),
         A \intersect B = {}, \A x \in A \union B : weight[x] \in Nat
  PROVE  Total(weight, A \union B) = Total(weight, A) + Total(weight, B)
<1>. DEFINE bad == { b \in SUBSET B : Total(weight, A \union b) # Total(weight, A) + Total(weight, b) }
<1>. SUFFICES ASSUME bad # {} PROVE FALSE
  OBVIOUS
<1>1. \A b \in SUBSET B : IsFiniteSet(b)
  BY FS_Subset
<1>2. PICK b \in bad : \A u \in bad : u \subseteq b => u = b
  <2>1. \A b \in bad : IsFiniteSet(b)
    BY <1>1
  <2>. HIDE DEF bad
  <2>. QED  BY <2>1, LeastSet
<1>3. b \in SUBSET B /\ IsFiniteSet(b) /\ Total(weight, A \union b) # Total(weight, A) + Total(weight, b)
  BY <1>1, <1>2
<1>4. Total(weight, A) \in Nat /\ Total(weight, {}) = 0
  <2>1. IsFiniteSet({})
    BY FS_EmptySet
  <2>2. Total(weight, {}) = 0
    BY <2>1, TotalUnfolds
  <2>. QED  BY <2>2, TotalType
<1>5. b # {}
  <2>. SUFFICES ASSUME b = {} PROVE FALSE
    OBVIOUS
  <2>1. A \union b = A
    OBVIOUS
  <2>. QED  BY <1>3, <1>4, <2>1
<1>6. PICK x \in b : TRUE
  BY <1>5
<1>. DEFINE u == b \ {x}
<1>7. /\ u \in SUBSET B /\ u \subseteq b /\ u # b /\ x \notin u /\ u \union {x} = b
      /\ x \notin A \union u /\ (A \union u) \union {x} = A \union b
      /\ \A y \in (A \union u) \union {x} : weight[y] \in Nat
      /\ \A y \in u \union {x} : weight[y] \in Nat
  BY <1>3, <1>6
<1>8. IsFiniteSet(u) /\ IsFiniteSet(A \union u)
  BY <1>1, <1>7, FS_Union
<1>9. Total(weight, A \union u) = Total(weight, A) + Total(weight, u)
  BY <1>2, <1>7
<1>. HIDE DEF u, bad
<1>10. Total(weight, (A \union u) \union {x}) = Total(weight, A \union u) + weight[x]
  BY <1>7, <1>8, TotalAdds
<1>11. Total(weight, u \union {x}) = Total(weight, u) + weight[x]
  BY <1>7, <1>8, TotalAdds
<1>12. Total(weight, u) \in Nat /\ weight[x] \in Nat
  <2>1. \A y \in u : weight[y] \in Nat
    BY <1>7
  <2>. QED  BY <1>7, <1>8, <2>1, TotalType
<1>13. Total(weight, A \union b) = Total(weight, A \union u) + weight[x]
  BY <1>7, <1>10
<1>14. Total(weight, b) = Total(weight, u) + weight[x]
  BY <1>7, <1>11
<1>. QED  BY <1>3, <1>4, <1>9, <1>12, <1>13, <1>14

-----------------------------------------------------------------------------
(* Functions on 0..n defined by what comes before.                         *)

\* They are determined by their first value and by how each follows the last.
GoAlike(n, f, g) ==
  /\ f[0] = g[0]
  /\ \A k \in 1..n : f[k - 1] = g[k - 1] => f[k] = g[k]

AreAlike(n, f, g) == \A k \in 0..n : f[k] = g[k]

LEMMA IteratesAgree ==
  ASSUME NEW n \in Nat, NEW f, NEW g, GoAlike(n, f, g)
  PROVE  AreAlike(n, f, g)
<1>. USE DEF GoAlike, AreAlike
<1>. DEFINE bad == { k \in 0..n : f[k] # g[k] }
<1>. SUFFICES ASSUME bad # {} PROVE FALSE
  OBVIOUS
<1>1. bad \in SUBSET Nat
  OBVIOUS
<1>2. PICK k \in bad : \A m \in bad : k <= m
  <2>. HIDE DEF bad
  <2>. QED  BY <1>1, LeastNat
<1>3. k \in 1..n /\ k - 1 \in 0..n /\ ~ (k <= k - 1)
  BY <1>2
<1>4. f[k - 1] = g[k - 1]
  BY <1>2, <1>3
<1>. QED  BY <1>2, <1>3, <1>4

\* There is one for every first value and every way to go on.
Iterates(D, start, n, step, f) ==
  /\ f \in [0..n -> D]
  /\ f[0] = start
  /\ \A k \in 1..n : f[k] = step[k][f[k - 1]]

LEMMA IteratesExist ==
  ASSUME NEW D, NEW start \in D, NEW n \in Nat, NEW step \in [1..n -> [D -> D]]
  PROVE  \E f : Iterates(D, start, n, step, f)
<1>. USE DEF Iterates
<1>. DEFINE Upto(m, f) == /\ f \in [0..m -> D] /\ f[0] = start
                          /\ \A k \in 1..m : f[k] = step[k][f[k - 1]]
            bad == { m \in 0..n : ~ \E f : Upto(m, f) }
<1>. SUFFICES ASSUME bad # {} PROVE FALSE
  <2>1. n \in 0..n
    OBVIOUS
  <2>2. \E f : Upto(n, f)
    <3>. HIDE DEF Upto
    <3>. QED  BY <2>1
  <2>. QED  BY <2>2
<1>1. bad \in SUBSET Nat
  OBVIOUS
<1>2. PICK m \in bad : \A k \in bad : m <= k
  <2>. HIDE DEF bad
  <2>. QED  BY <1>1, LeastNat
<1>3. CASE m = 0
  <2>1. Upto(0, [k \in 0..0 |-> start])
    OBVIOUS
  <2>. QED  BY <1>2, <1>3, <2>1
<1>4. CASE m # 0
  <2>1. m \in 1..n /\ m - 1 \in 0..n /\ ~ (m <= m - 1) /\ m - 1 \in 0..(m - 1)
    BY <1>2, <1>4
  <2>2. PICK f : Upto(m - 1, f)
    <3>. HIDE DEF Upto
    <3>. QED  BY <1>2, <2>1
  <2>. DEFINE g == [k \in 0..m |-> IF k = m THEN step[m][f[m - 1]] ELSE f[k]]
  <2>3. g[m] = step[m][f[m - 1]] /\ \A k \in 0..(m - 1) : g[k] = f[k]
    BY <2>1
  <2>4. f[m - 1] \in D /\ step[m] \in [D -> D]
    BY <2>1, <2>2
  <2>5. g \in [0..m -> D]
    <3>1. \A k \in 0..m : k = m \/ k \in 0..(m - 1)
      BY <2>1
    <3>2. \A k \in 0..m : g[k] \in D
      BY <2>2, <2>3, <2>4, <3>1
    <3>3. DOMAIN g = 0..m /\ g = [k \in DOMAIN g |-> g[k]]
      OBVIOUS
    <3>. HIDE DEF g
    <3>. QED  BY <3>2, <3>3
  <2>6. g[0] = start
    BY <2>1, <2>2, <2>3
  <2>7. ASSUME NEW k \in 1..m PROVE g[k] = step[k][g[k - 1]]
    <3>1. k - 1 \in 0..(m - 1) /\ (k = m \/ k \in 1..(m - 1)) /\ (k \in 1..(m - 1) => k \in 0..(m - 1))
      BY <2>1
    <3>. HIDE DEF g
    <3>. QED  BY <2>2, <2>3, <3>1
  <2>. HIDE DEF g
  <2>8. Upto(m, g)
    BY <2>5, <2>6, <2>7
  <2>. QED  BY <1>2, <2>8
<1>. QED  BY <1>3, <1>4

-----------------------------------------------------------------------------
(* A set that grows by steps until it is closed.                           *)

Closes(D, step, f) ==
  f = [s \in SUBSET D |->
         IF s \union step[s] = s THEN s ELSE f[s \union step[s]]]

LEMMA ClosureExists ==
  ASSUME NEW D, NEW step, \A s \in SUBSET D : step[s] \subseteq D,
         \A s, t \in SUBSET D : s \subseteq t => step[s] \subseteq step[t]
  PROVE  \E f : Closes(D, step, f)
<1>. DEFINE grown(s) == s \union step[s]
            above(s) == { t \in SUBSET D : s \subseteq t /\ step[t] \subseteq t }
            f == [s \in SUBSET D |-> { x \in D : \A t \in above(s) : x \in t }]
<1>1. ASSUME NEW s \in SUBSET D
      PROVE  f[s] = IF grown(s) = s THEN s ELSE f[grown(s)]
  <2>1. grown(s) \in SUBSET D
    OBVIOUS
  <2>2. CASE grown(s) = s
    <3>1. s \in above(s)
      BY <2>2
    <3>2. \A t \in above(s) : s \subseteq t
      OBVIOUS
    <3>3. f[s] = { x \in D : \A t \in above(s) : x \in t }
      OBVIOUS
    <3>. HIDE DEF f, above
    <3>. QED  BY <2>2, <3>1, <3>2, <3>3
  <2>3. above(grown(s)) = above(s)
    OBVIOUS
  <2>4. f[grown(s)] = f[s]
    <3>1. f[s] = { x \in D : \A t \in above(s) : x \in t }
      OBVIOUS
    <3>2. f[grown(s)] = { x \in D : \A t \in above(grown(s)) : x \in t }
      BY <2>1
    <3>. HIDE DEF f, above, grown
    <3>. QED  BY <2>3, <3>1, <3>2
  <2>. HIDE DEF f, grown
  <2>. QED  BY <2>2, <2>4
<1>2. f = [s \in SUBSET D |-> f[s]]
  OBVIOUS
<1>. HIDE DEF f
<1>3. Closes(D, step, f)
  BY <1>1, <1>2 DEF Closes
<1>. QED  BY <1>3

\* It is the least closed set above the one it starts from.
LEMMA ClosureIsLeast ==
  ASSUME NEW D, IsFiniteSet(D), NEW step, \A s \in SUBSET D : step[s] \subseteq D,
         \A s, t \in SUBSET D : s \subseteq t => step[s] \subseteq step[t],
         NEW f, Closes(D, step, f), NEW start \in SUBSET D
  PROVE  /\ f[start] \in SUBSET D /\ start \subseteq f[start]
         /\ step[f[start]] \subseteq f[start]
         /\ \A t \in SUBSET D :
              start \subseteq t /\ step[t] \subseteq t => f[start] \subseteq t
<1>. DEFINE Least(s) ==
              /\ f[s] \in SUBSET D /\ s \subseteq f[s]
              /\ step[f[s]] \subseteq f[s]
              /\ \A t \in SUBSET D : s \subseteq t /\ step[t] \subseteq t => f[s] \subseteq t
            bad == { s \in SUBSET D : ~ Least(s) }
            missing == { D \ s : s \in bad }
<1>. SUFFICES ASSUME bad # {} PROVE FALSE
  OBVIOUS
<1>1. PICK s \in bad : \A u \in bad : D \ u \subseteq D \ s => D \ u = D \ s
  <2>1. \A m \in missing : \E s \in bad : m = D \ s
    OBVIOUS
  <2>2. \A s \in bad : D \ s \in missing
    OBVIOUS
  <2>. HIDE DEF missing, bad
  <2>3. missing # {}
    BY <2>2
  <2>4. ASSUME NEW m \in missing PROVE IsFiniteSet(m)
    <3>1. m \subseteq D
      BY <2>1
    <3>. QED  BY <3>1, FS_Subset
  <2>5. PICK m \in missing : \A u \in missing : u \subseteq m => u = m
    BY <2>3, <2>4, LeastSet
  <2>6. PICK s \in bad : m = D \ s
    BY <2>1
  <2>7. ASSUME NEW u \in bad, D \ u \subseteq D \ s PROVE D \ u = D \ s
    BY <2>2, <2>5, <2>6, <2>7
  <2>. QED  BY <2>7
<1>. DEFINE grown == s \union step[s]
<1>2. s \in SUBSET D /\ ~ Least(s) /\ grown \in SUBSET D
  OBVIOUS
<1>3. f[s] = IF grown = s THEN s ELSE f[grown]
  BY <1>2 DEF Closes
<1>4. CASE grown = s
  <2>1. f[s] = s /\ step[s] \subseteq s
    BY <1>3, <1>4
  <2>. QED  BY <1>2, <2>1
<1>5. CASE grown # s
  <2>1. f[s] = f[grown]
    <3>. HIDE DEF grown
    <3>. QED  BY <1>3, <1>5
  <2>2. D \ grown \subseteq D \ s /\ D \ grown # D \ s
    BY <1>2, <1>5
  <2>3. Least(grown)
    <3>1. grown \notin bad
      <4>. HIDE DEF bad, grown
      <4>. QED  BY <1>1, <2>2
    <3>. HIDE DEF Least, grown
    <3>. QED  BY <1>2, <3>1
  <2>4. s \subseteq grown
    OBVIOUS
  <2>5. \A t \in SUBSET D : s \subseteq t /\ step[t] \subseteq t => grown \subseteq t
    <3>1. \A t \in SUBSET D : s \subseteq t => step[s] \subseteq step[t]
      BY <1>2
    <3>. QED  BY <3>1
  <2>. HIDE DEF grown
  <2>6. Least(s)
    BY <2>1, <2>3, <2>4, <2>5
  <2>. QED  BY <1>2, <2>6
<1>. QED  BY <1>4, <1>5

-----------------------------------------------------------------------------
(* Searches: stacks of calls, and sets compared as sorted tuples.          *)

\* Popping a call: every call is the popped one or stays.
LEMMA PopCases ==
  ASSUME NEW Frame, NEW s \in Seq(Frame), s # <<>>
  PROVE  /\ Head(s) \in Frame /\ Head(s) = s[1] /\ 1 \in 1..Len(s)
         /\ Tail(s) \in Seq(Frame)
         /\ \A i \in 1..Len(s) :
              s[i] = Head(s) \/ \E j \in 1..Len(Tail(s)) : Tail(s)[j] = s[i]
         /\ \A j \in 1..Len(Tail(s)) :
              \E i \in 1..Len(s) : Tail(s)[j] = s[i]
<1>1. Len(s) \in Nat /\ Len(s) > 0 /\ Len(Tail(s)) = Len(s) - 1
  OBVIOUS
<1>2. ASSUME NEW j \in 1..Len(Tail(s))
      PROVE  j + 1 \in 1..Len(s) /\ Tail(s)[j] = s[j + 1]
  BY <1>1
<1>3. ASSUME NEW i \in 1..Len(s), i # 1
      PROVE  i - 1 \in 1..Len(Tail(s)) /\ Tail(s)[i - 1] = s[i]
  <2>1. i - 1 \in 1..Len(Tail(s)) /\ (i - 1) + 1 = i
    BY <1>1, <1>3
  <2>. QED  BY <2>1, <1>2
<1>. QED  BY <1>1, <1>2, <1>3

\* Replacing a call by its two recursive calls.
LEMMA PushCases ==
  ASSUME NEW Frame, NEW s \in Seq(Frame), NEW f \in Frame, NEW g \in Frame,
         NEW t, t = << f, g >> \o s
  PROVE  /\ t \in Seq(Frame)
         /\ \A k \in 1..Len(t) :
              t[k] = f \/ t[k] = g \/ \E j \in 1..Len(s) : t[k] = s[j]
         /\ \A j \in 1..Len(s) : j + 2 \in 1..Len(t) /\ t[j + 2] = s[j]
         /\ \E k \in 1..Len(t) : t[k] = f
         /\ \E k \in 1..Len(t) : t[k] = g
<1>1. /\ t \in Seq(Frame) /\ Len(s) \in Nat /\ Len(t) = Len(s) + 2
      /\ t[1] = f /\ t[2] = g
  OBVIOUS
<1>2. \A j \in 1..Len(s) : j + 2 \in 1..Len(t) /\ t[j + 2] = s[j]
  OBVIOUS
<1>3. \A k \in 1..Len(t) : k = 1 \/ k = 2 \/ (k - 2 \in 1..Len(s) /\ t[k] = s[k - 2])
  OBVIOUS
<1>4. 1 \in 1..Len(t) /\ 2 \in 1..Len(t)
  BY <1>1
<1>5. \A k \in 1..Len(t) :
        t[k] = f \/ t[k] = g \/ \E j \in 1..Len(s) : t[k] = s[j]
  BY <1>1, <1>3
<1>. QED  BY <1>1, <1>2, <1>4, <1>5

\* The lexicographic order of sorted tuples of one length is transitive.
LEMMA LexTransitive ==
  ASSUME NEW A \in SUBSET Nat, NEW B \in SUBSET Nat, NEW C \in SUBSET Nat,
         \E x \in A \ B : \A y \in B \ A : x < y,
         \E x \in B \ C : \A y \in C \ B : x < y
  PROVE  \E x \in A \ C : \A y \in C \ A : x < y
<1>1. PICK x \in A \ B : \A y \in B \ A : x < y
  OBVIOUS
<1>2. PICK y \in B \ C : \A z \in C \ B : y < z
  OBVIOUS
<1>3. x \in Nat /\ y \in Nat /\ C \subseteq Nat
  OBVIOUS
<1>4. CASE x < y
  <2>1. x \notin C
    BY <1>1, <1>2, <1>3, <1>4
  <2>2. \A z \in C \ A : x < z
    BY <1>1, <1>2, <1>3, <1>4
  <2>. QED  BY <1>1, <2>1, <2>2
<1>5. CASE y < x
  <2>1. y \in A
    BY <1>1, <1>2, <1>3, <1>5
  <2>2. \A z \in C \ A : y < z
    BY <1>1, <1>2, <1>3, <1>5
  <2>. QED  BY <1>2, <2>1, <2>2
<1>. QED  BY <1>1, <1>2, <1>3, <1>4, <1>5
=============================================================================
