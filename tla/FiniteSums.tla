----------------------------- MODULE FiniteSums -----------------------------
(***************************************************************************)
(* Induction over finite sets and up to a bound, and sums over finite sets *)
(* (SumFunctionOnSet of the community modules), as facts to cite by name.  *)
(*                                                                         *)
(* Induction is by a smallest counterexample, a set and not a predicate:   *)
(* the theorems of the library that are about every predicate take an      *)
(* operator, which the provers cannot instantiate.                         *)
(***************************************************************************)
EXTENDS Integers, FiniteSetsExt, FiniteSetTheorems, WellFoundedInduction, TLAPS

(* Among any sets of elements of a finite one, some contain no other.       *)
LEMMA SmallestSet ==
    ASSUME NEW S, NEW F, F \subseteq SUBSET S, F # {}, IsFiniteSet(S)
    PROVE  \E T \in F : \A U \in F : U \subseteq T => U = T
<1>1. F \subseteq FiniteSubsetsOf(S)
  BY FS_Subset DEF FiniteSubsetsOf
<1>2. PICK T \in F : \A U \in F : ~(<<U, T>> \in StrictSubsetOrdering(S))
  BY <1>1, FS_StrictSubsetOrderingWellFounded, WFMin
<1>3. ASSUME NEW U \in F, U \subseteq T, U # T PROVE FALSE
  BY <1>2, <1>3 DEF StrictSubsetOrdering
<1> QED
  BY <1>3

(* Any natural numbers have a least one.                                    *)
LEMMA LeastNat ==
    ASSUME NEW S \in SUBSET Nat, S # {}
    PROVE  \E n \in S : \A m \in S : n <= m
<1>1. PICK n \in S : TRUE
  OBVIOUS
<1> DEFINE upTo == {0..m : m \in {k \in S : k <= n}}
           bound == 0..n
<1>2. IsFiniteSet(bound)
  BY FS_Interval
<1>3. upTo \subseteq SUBSET bound
  OBVIOUS
<1>4. upTo # {}
  BY <1>1
<1>5. \E T \in upTo : \A U \in upTo : U \subseteq T => U = T
  <2> HIDE DEF upTo, bound
  <2> QED
    BY <1>2, <1>3, <1>4, SmallestSet
<1>6. PICK l \in S : l <= n /\ \A U \in upTo : U \subseteq 0..l => U = 0..l
  BY <1>5
<1>7. ASSUME NEW m \in S, ~(l <= m) PROVE FALSE
  <2>1. (0..m) \in upTo /\ (0..m) \subseteq (0..l)
    BY <1>6, <1>7
  <2>2. 0..m = 0..l
    BY <1>6, <2>1
  <2>3. l \in 0..l /\ l \notin 0..m
    BY <1>7
  <2> QED
    BY <2>2, <2>3
<1> QED
  BY <1>7

(* Induction up to a bound, and steps up to one: each from the last.        *)
LEMMA UpToBound ==
    ASSUME NEW n \in Nat, NEW P, 0 \in P, \A i \in 1..n : i - 1 \in P => i \in P
    PROVE  \A i \in 0..n : i \in P
<1> DEFINE bad == {i \in 0..n : i \notin P}
<1>1. ASSUME bad # {} PROVE FALSE
  <2>1. bad \in SUBSET Nat
    OBVIOUS
  <2>2. PICK i \in bad : \A j \in bad : i <= j
    <3> HIDE DEF bad
    <3> QED
      BY <1>1, <2>1, LeastNat
  <2>3. i \in 1..n /\ i - 1 \in 0..n /\ ~(i <= i - 1)
    BY <2>2
  <2> QED
    BY <2>2, <2>3
<1> QED
  BY <1>1

(* g starts at x and goes up to n by the steps of F.                        *)
Steps(g, n, x, F) ==
    g = [i \in 0..n |-> g[i]] /\ g[0] = x /\ \A i \in 1..n : g[i] = F[i][g[i - 1]]

LEMMA StepsExist == ASSUME NEW n \in Nat, NEW x, NEW F PROVE \E g : Steps(g, n, x, F)
<1> DEFINE P == {m \in 0..n : \E g : Steps(g, m, x, F)}
<1>1. 0 \in P
  <2> DEFINE g == [i \in 0..0 |-> x]
  <2>1. g = [i \in 0..0 |-> g[i]] /\ g[0] = x /\ 1..0 = {}
    OBVIOUS
  <2> HIDE DEF g
  <2>2. Steps(g, 0, x, F)
    BY <2>1 DEF Steps
  <2> QED
    BY <2>2
<1>2. ASSUME NEW m \in 1..n, m - 1 \in P PROVE m \in P
  <2>1. PICK g : Steps(g, m - 1, x, F)
    BY <1>2
  <2> DEFINE h == [i \in 0..m |-> IF i = m THEN F[m][g[m - 1]] ELSE g[i]]
  <2>2. h[0] = x
    BY <2>1 DEF Steps
  <2>3. ASSUME NEW i \in 1..m PROVE h[i] = F[i][h[i - 1]]
    <3>1. i - 1 \in 0..m /\ i - 1 # m /\ h[i - 1] = g[i - 1]
      OBVIOUS
    <3>2. CASE i = m
      BY <3>1, <3>2
    <3>3. CASE i # m
      <4>1. i \in 1..(m - 1) /\ h[i] = g[i]
        BY <3>3
      <4> QED
        BY <2>1, <3>1, <4>1 DEF Steps
    <3> QED
      BY <3>2, <3>3
  <2>4. h = [i \in 0..m |-> h[i]]
    OBVIOUS
  <2> HIDE DEF h
  <2>5. Steps(h, m, x, F)
    BY <2>2, <2>3, <2>4 DEF Steps
  <2> QED
    BY <2>5
<1>3. n \in P
  <2> HIDE DEF P
  <2> QED
    BY <1>1, <1>2, UpToBound
<1> QED
  BY <1>3

-----------------------------------------------------------------------------
(* The recursion behind a sum                                               *)

Pick(s) == CHOOSE x \in s : TRUE

(* g holds the sum of f over every subset of T.                             *)
Sums(g, f, T) ==
    g = [s \in SUBSET T |-> IF s = {} THEN 0 ELSE f[Pick(s)] + g[s \ {Pick(s)}]]

LEMMA PickIn == ASSUME NEW s, s # {} PROVE Pick(s) \in s
  BY DEF Pick

LEMMA SumsUnique ==
    ASSUME NEW f, NEW T, IsFiniteSet(T), NEW g, Sums(g, f, T), NEW h, Sums(h, f, T)
    PROVE  g = h
<1> DEFINE differ == {s \in SUBSET T : g[s] # h[s]}
<1>1. ASSUME differ # {} PROVE FALSE
  <2>1. PICK s \in differ : \A t \in differ : t \subseteq s => t = s
    <3>1. differ \subseteq SUBSET T
      OBVIOUS
    <3> HIDE DEF differ
    <3> QED
      BY <1>1, <3>1, SmallestSet
  <2>2. s # {}
    BY <2>1 DEF Sums
  <2>3. Pick(s) \in s
    BY <2>2, PickIn
  <2>4. s \ {Pick(s)} \in SUBSET T /\ s \ {Pick(s)} \notin differ
    BY <2>1, <2>3
  <2>5. g[s] = f[Pick(s)] + g[s \ {Pick(s)}] /\ h[s] = f[Pick(s)] + h[s \ {Pick(s)}]
    BY <2>1, <2>2 DEF Sums
  <2> QED
    BY <2>1, <2>4, <2>5
<1>2. \A s \in SUBSET T : g[s] = h[s]
  BY <1>1
<1> QED
  BY <1>2 DEF Sums

LEMMA SumsOfPart ==
    ASSUME NEW f, NEW T, NEW g, Sums(g, f, T), NEW U \in SUBSET T
    PROVE  Sums([s \in SUBSET U |-> g[s]], f, U)
<1> DEFINE h == [s \in SUBSET U |-> g[s]]
<1>1. ASSUME NEW s \in SUBSET U
      PROVE  h[s] = IF s = {} THEN 0 ELSE f[Pick(s)] + h[s \ {Pick(s)}]
  <2>1. s \in SUBSET T /\ s \ {Pick(s)} \in SUBSET U
    OBVIOUS
  <2>2. g[s] = IF s = {} THEN 0 ELSE f[Pick(s)] + g[s \ {Pick(s)}]
    BY <2>1 DEF Sums
  <2> QED
    BY <2>1, <2>2
<1> HIDE DEF h
<1>2. h = [s \in SUBSET U |-> h[s]]
  BY DEF h
<1>3. Sums(h, f, U)
  BY <1>1, <1>2 DEF Sums
<1> QED
  BY <1>3 DEF h

LEMMA SumsExist ==
    ASSUME NEW f, NEW T, IsFiniteSet(T) PROVE \E g : Sums(g, f, T)
<1> DEFINE without == {U \in SUBSET T : ~ \E g : Sums(g, f, U)}
<1>1. ASSUME without # {} PROVE FALSE
  <2>1. PICK U \in without : \A V \in without : V \subseteq U => V = U
    <3>1. without \subseteq SUBSET T
      OBVIOUS
    <3> HIDE DEF without
    <3> QED
      BY <1>1, <3>1, SmallestSet
  <2> DEFINE sumsOf(V) == CHOOSE g : Sums(g, f, V)
             val(V) == sumsOf(V)[V]
             all == [s \in SUBSET U |-> IF s = {} THEN 0
                                        ELSE f[Pick(s)] + val(s \ {Pick(s)})]
  <2>2. ASSUME NEW V \in SUBSET U, V # U PROVE Sums(sumsOf(V), f, V)
    <3>1. V \notin without /\ V \in SUBSET T
      BY <2>1, <2>2
    <3> QED
      BY <3>1
  <2>3. ASSUME NEW V \in SUBSET U, V # U
        PROVE  val(V) = IF V = {} THEN 0 ELSE f[Pick(V)] + val(V \ {Pick(V)})
    <3>1. Sums(sumsOf(V), f, V)
      BY <2>2, <2>3
    <3>2. CASE V = {}
      BY <3>1, <3>2 DEF Sums
    <3>3. CASE V # {}
      <4> DEFINE W == V \ {Pick(V)}
      <4>1. W \in SUBSET V /\ W \in SUBSET U /\ W # U /\ W \in SUBSET T
        BY <3>3, <2>3, <2>1, PickIn
      <4>2. IsFiniteSet(W)
        BY <4>1, FS_Subset
      <4>3. Sums(sumsOf(W), f, W)
        BY <4>1, <2>2
      <4>4. Sums([s \in SUBSET W |-> sumsOf(V)[s]], f, W)
        <5> HIDE DEF sumsOf, W
        <5> QED
          BY <4>1, <3>1, SumsOfPart
      <4>5. sumsOf(W) = [s \in SUBSET W |-> sumsOf(V)[s]]
        <5> HIDE DEF sumsOf, W
        <5> QED
          BY <4>2, <4>3, <4>4, SumsUnique
      <4>6. val(W) = sumsOf(V)[W]
        <5> HIDE DEF sumsOf, W
        <5> QED
          BY <4>5
      <4>7. sumsOf(V)[V] = f[Pick(V)] + sumsOf(V)[W]
        <5> HIDE DEF sumsOf
        <5> QED
          BY <3>1, <3>3 DEF Sums
      <4> QED
        BY <3>3, <4>6, <4>7
    <3> QED
      BY <3>2, <3>3
  <2>4. ASSUME NEW s \in SUBSET U
        PROVE  all[s] = IF s = {} THEN 0 ELSE f[Pick(s)] + all[s \ {Pick(s)}]
    <3>1. CASE s = {}
      BY <3>1
    <3>2. CASE s # {}
      <4> DEFINE W == s \ {Pick(s)}
      <4>1. W \in SUBSET U /\ W # U
        BY <3>2, PickIn
      <4>2. all[W] = IF W = {} THEN 0 ELSE f[Pick(W)] + val(W \ {Pick(W)})
        BY <4>1
      <4>3. all[W] = val(W)
        <5> HIDE DEF all, val, W
        <5> QED
          BY <2>3, <4>1, <4>2
      <4>4. all[s] = f[Pick(s)] + val(W)
        BY <3>2
      <4> QED
        BY <3>2, <4>3, <4>4
    <3> QED
      BY <3>1, <3>2
  <2>5. Sums(all, f, U)
    <3>1. all = [s \in SUBSET U |-> all[s]]
      OBVIOUS
    <3> HIDE DEF all
    <3> QED
      BY <2>4, <3>1 DEF Sums
  <2> QED
    BY <2>1, <2>5
<1>2. T \in SUBSET T
  OBVIOUS
<1> QED
  BY <1>1, <1>2

-----------------------------------------------------------------------------
(* Sums                                                                     *)

LEMMA SumIs ==
    ASSUME NEW f, NEW T, IsFiniteSet(T), NEW g, Sums(g, f, T)
    PROVE  SumFunctionOnSet(f, T) = g[T]
<1>1. \A h : Sums(h, f, T) => h = g
  BY SumsUnique
<1> QED
  BY <1>1 DEF SumFunctionOnSet, FoldFunctionOnSet, MapThenFoldSet, Sums, Pick

LEMMA SumEmpty == ASSUME NEW f PROVE SumFunctionOnSet(f, {}) = 0
<1>1. PICK g : Sums(g, f, {})
  BY SumsExist, FS_EmptySet
<1>2. SumFunctionOnSet(f, {}) = g[{}]
  BY <1>1, SumIs, FS_EmptySet
<1> QED
  BY <1>1, <1>2 DEF Sums

LEMMA SumPick ==
    ASSUME NEW f, NEW T, IsFiniteSet(T), T # {}
    PROVE  /\ Pick(T) \in T
           /\ SumFunctionOnSet(f, T) = f[Pick(T)] + SumFunctionOnSet(f, T \ {Pick(T)})
<1> DEFINE U == T \ {Pick(T)}
<1>1. PICK g : Sums(g, f, T)
  BY SumsExist
<1>2. U \in SUBSET T /\ IsFiniteSet(U)
  BY FS_Subset
<1> HIDE DEF U
<1>3. Sums([s \in SUBSET U |-> g[s]], f, U)
  BY <1>1, <1>2, SumsOfPart
<1>4. SumFunctionOnSet(f, U) = [s \in SUBSET U |-> g[s]][U]
  BY <1>2, <1>3, SumIs
<1>5. SumFunctionOnSet(f, U) = g[U]
  BY <1>4
<1>6. g[T] = f[Pick(T)] + g[T \ {Pick(T)}]
  BY <1>1 DEF Sums
<1>7. SumFunctionOnSet(f, T) = g[T]
  BY <1>1, SumIs
<1> QED
  BY <1>5, <1>6, <1>7, PickIn DEF U

LEMMA SumType ==
    ASSUME NEW f, NEW T, IsFiniteSet(T), \A x \in T : f[x] \in Int
    PROVE  SumFunctionOnSet(f, T) \in Int
<1> DEFINE bad == {U \in SUBSET T : SumFunctionOnSet(f, U) \notin Int}
<1>1. ASSUME bad # {} PROVE FALSE
  <2>1. PICK U \in bad : \A V \in bad : V \subseteq U => V = U
    <3>1. bad \subseteq SUBSET T
      OBVIOUS
    <3> HIDE DEF bad
    <3> QED
      BY <1>1, <3>1, SmallestSet
  <2>2. U # {} /\ IsFiniteSet(U)
    <3>1. SumFunctionOnSet(f, {}) \in Int
      BY SumEmpty
    <3> QED
      BY <2>1, <3>1, FS_Subset
  <2>3. Pick(U) \in U
        /\ SumFunctionOnSet(f, U) = f[Pick(U)] + SumFunctionOnSet(f, U \ {Pick(U)})
    BY <2>2, SumPick
  <2>4. U \ {Pick(U)} \in SUBSET T /\ U \ {Pick(U)} \notin bad
    BY <2>1, <2>3
  <2> QED
    BY <2>1, <2>3, <2>4
<1> QED
  BY <1>1

LEMMA SumNat ==
    ASSUME NEW f, NEW T, IsFiniteSet(T), \A x \in T : f[x] \in Nat
    PROVE  SumFunctionOnSet(f, T) \in Nat
<1> DEFINE bad == {U \in SUBSET T : SumFunctionOnSet(f, U) \notin Nat}
<1>1. ASSUME bad # {} PROVE FALSE
  <2>1. PICK U \in bad : \A V \in bad : V \subseteq U => V = U
    <3>1. bad \subseteq SUBSET T
      OBVIOUS
    <3> HIDE DEF bad
    <3> QED
      BY <1>1, <3>1, SmallestSet
  <2>2. U # {} /\ IsFiniteSet(U)
    <3>1. SumFunctionOnSet(f, {}) \in Nat
      BY SumEmpty
    <3> QED
      BY <2>1, <3>1, FS_Subset
  <2>3. Pick(U) \in U
        /\ SumFunctionOnSet(f, U) = f[Pick(U)] + SumFunctionOnSet(f, U \ {Pick(U)})
    BY <2>2, SumPick
  <2>4. U \ {Pick(U)} \in SUBSET T /\ U \ {Pick(U)} \notin bad
    BY <2>1, <2>3
  <2> QED
    BY <2>1, <2>3, <2>4
<1>2. T \notin bad
  BY <1>1
<1> QED
  BY <1>2

(* The order of the summands does not matter.                               *)
LEMMA SumRemove ==
    ASSUME NEW f, NEW T, IsFiniteSet(T), \A x \in T : f[x] \in Int, NEW x \in T
    PROVE  SumFunctionOnSet(f, T) = f[x] + SumFunctionOnSet(f, T \ {x})
<1> DEFINE Sum(s) == SumFunctionOnSet(f, s)
           bad == {U \in SUBSET T : \E y \in U : Sum(U) # f[y] + Sum(U \ {y})}
<1>1. ASSUME bad # {} PROVE FALSE
  <2>1. PICK U \in bad : \A V \in bad : V \subseteq U => V = U
    <3>1. bad \subseteq SUBSET T
      OBVIOUS
    <3> HIDE DEF bad
    <3> QED
      BY <1>1, <3>1, SmallestSet
  <2>2. PICK y \in U : Sum(U) # f[y] + Sum(U \ {y})
    BY <2>1
  <2>3. IsFiniteSet(U)
    BY <2>1, FS_Subset
  <2> DEFINE z == Pick(U)
             rest == U \ {y, z}
  <2>4. z \in U /\ Sum(U) = f[z] + Sum(U \ {z})
    BY <2>2, <2>3, SumPick
  <2>5. y # z
    BY <2>2, <2>4
  <2> HIDE DEF z, Sum
  <2>6. \A V \in SUBSET U : V # U => \A w \in V : Sum(V) = f[w] + Sum(V \ {w})
    BY <2>1
  <2>7. U \ {z} \in SUBSET U /\ U \ {z} # U /\ y \in U \ {z} /\ (U \ {z}) \ {y} = rest
    BY <2>4, <2>5
  <2>8. Sum(U \ {z}) = f[y] + Sum(rest)
    <3> HIDE DEF rest
    <3> QED
      BY <2>6, <2>7
  <2>9. U \ {y} \in SUBSET U /\ U \ {y} # U /\ z \in U \ {y} /\ (U \ {y}) \ {z} = rest
    BY <2>4, <2>5
  <2>10. Sum(U \ {y}) = f[z] + Sum(rest)
    <3> HIDE DEF rest
    <3> QED
      BY <2>6, <2>9
  <2>11. Sum(rest) \in Int
    <3>1. IsFiniteSet(rest)
      BY <2>3, FS_Subset
    <3>2. \A v \in rest : f[v] \in Int
      BY <2>1
    <3> HIDE DEF rest
    <3> QED
      BY <3>1, <3>2, SumType DEF Sum
  <2>12. f[y] \in Int /\ f[z] \in Int
    BY <2>1, <2>4
  <2> QED
    BY <2>2, <2>4, <2>8, <2>10, <2>11, <2>12
<1>2. T \in SUBSET T
  OBVIOUS
<1> QED
  BY <1>1, <1>2

LEMMA SumAdd ==
    ASSUME NEW f, NEW T, IsFiniteSet(T), NEW x, x \notin T, f[x] \in Int,
           \A y \in T : f[y] \in Int
    PROVE  SumFunctionOnSet(f, T \cup {x}) = f[x] + SumFunctionOnSet(f, T)
<1>1. IsFiniteSet(T \cup {x}) /\ (T \cup {x}) \ {x} = T
  BY FS_AddElement
<1> QED
  BY <1>1, SumRemove

(* Only the values on the set matter.                                       *)
LEMMA SumSame ==
    ASSUME NEW f, NEW g, NEW T, IsFiniteSet(T), \A x \in T : f[x] = g[x]
    PROVE  SumFunctionOnSet(f, T) = SumFunctionOnSet(g, T)
<1> DEFINE bad == {U \in SUBSET T : SumFunctionOnSet(f, U) # SumFunctionOnSet(g, U)}
<1>1. ASSUME bad # {} PROVE FALSE
  <2>1. PICK U \in bad : \A V \in bad : V \subseteq U => V = U
    <3>1. bad \subseteq SUBSET T
      OBVIOUS
    <3> HIDE DEF bad
    <3> QED
      BY <1>1, <3>1, SmallestSet
  <2>2. U # {} /\ IsFiniteSet(U)
    BY <2>1, SumEmpty, FS_Subset
  <2>3. /\ Pick(U) \in U
        /\ SumFunctionOnSet(f, U) = f[Pick(U)] + SumFunctionOnSet(f, U \ {Pick(U)})
        /\ SumFunctionOnSet(g, U) = g[Pick(U)] + SumFunctionOnSet(g, U \ {Pick(U)})
    BY <2>2, SumPick
  <2>4. U \ {Pick(U)} \in SUBSET T /\ U \ {Pick(U)} \notin bad
    BY <2>1, <2>3
  <2> QED
    BY <2>1, <2>3, <2>4
<1>2. T \in SUBSET T
  OBVIOUS
<1> QED
  BY <1>1, <1>2

(* Two sets apart.                                                          *)
LEMMA SumUnion ==
    ASSUME NEW f, NEW S, IsFiniteSet(S), NEW T, IsFiniteSet(T), S \cap T = {},
           \A x \in S \cup T : f[x] \in Int
    PROVE  SumFunctionOnSet(f, S \cup T) = SumFunctionOnSet(f, S) + SumFunctionOnSet(f, T)
<1> DEFINE Sum(s) == SumFunctionOnSet(f, s)
           bad == {U \in SUBSET T : Sum(S \cup U) # Sum(S) + Sum(U)}
<1>1. ASSUME bad # {} PROVE FALSE
  <2>1. PICK U \in bad : \A V \in bad : V \subseteq U => V = U
    <3>1. bad \subseteq SUBSET T
      OBVIOUS
    <3> HIDE DEF bad
    <3> QED
      BY <1>1, <3>1, SmallestSet
  <2>2. U # {}
    <3>1. S \cup {} = S /\ Sum(S) \in Int /\ Sum({}) = 0
      BY SumType, SumEmpty
    <3>2. Sum(S \cup {}) = Sum(S) + Sum({})
      <4> HIDE DEF Sum
      <4> QED
        BY <3>1
    <3>3. Sum(S \cup U) # Sum(S) + Sum(U)
      BY <2>1
    <3> HIDE DEF Sum, bad
    <3> QED
      BY <3>2, <3>3
  <2>3. PICK x \in U : TRUE
    BY <2>2
  <2> DEFINE V == U \ {x}
  <2>4. V \notin bad /\ V \in SUBSET T
    BY <2>1, <2>3
  <2>5. IsFiniteSet(U) /\ IsFiniteSet(V) /\ IsFiniteSet(S \cup V)
    BY <2>1, <2>4, FS_Subset, FS_Union
  <2>6. Sum(U) = f[x] + Sum(V)
    BY <2>1, <2>3, <2>5, SumRemove
  <2>7. Sum((S \cup V) \cup {x}) = f[x] + Sum(S \cup V)
    <3>1. x \notin S \cup V /\ f[x] \in Int /\ \A y \in S \cup V : f[y] \in Int
      BY <2>1, <2>3
    <3> HIDE DEF V
    <3> QED
      BY <2>5, <3>1, SumAdd
  <2>8. (S \cup V) \cup {x} = S \cup U
    BY <2>3
  <2>9. Sum(S) \in Int /\ Sum(V) \in Int /\ f[x] \in Int
    <3>1. \A y \in V : f[y] \in Int
      BY <2>4
    <3> QED
      BY <2>1, <2>3, <2>5, <3>1, SumType
  <2>10. Sum(S \cup V) = Sum(S) + Sum(V)
    BY <2>4
  <2>11. Sum(S \cup U) # Sum(S) + Sum(U)
    BY <2>1
  <2>12. Sum(S \cup U) = f[x] + Sum(S \cup V)
    <3> HIDE DEF Sum, V
    <3> QED
      BY <2>7, <2>8
  <2> HIDE DEF Sum, V, bad
  <2> QED
    BY <2>6, <2>9, <2>10, <2>11, <2>12
<1>2. T \in SUBSET T
  OBVIOUS
<1> QED
  BY <1>1, <1>2

(* A family of sets apart: the sum of their sums.                           *)
LEMMA SumOfSums ==
    ASSUME NEW f, NEW I, IsFiniteSet(I), NEW S, DOMAIN S = I,
           \A i \in I : IsFiniteSet(S[i]) /\ \A x \in S[i] : f[x] \in Int,
           \A i \in I, j \in I : i # j => S[i] \cap S[j] = {},
           NEW g, \A i \in I : g[i] = SumFunctionOnSet(f, S[i]),
           NEW U, \A x : x \in U <=> \E i \in I : x \in S[i]
    PROVE  IsFiniteSet(U) /\ SumFunctionOnSet(f, U) = SumFunctionOnSet(g, I)
<1> DEFINE All(J) == UNION {S[i] : i \in J}
           bad == {J \in SUBSET I :
                     ~(/\ IsFiniteSet(All(J))
                       /\ SumFunctionOnSet(f, All(J)) = SumFunctionOnSet(g, J))}
<1>1. ASSUME bad # {} PROVE FALSE
  <2>1. PICK J \in bad : \A K \in bad : K \subseteq J => K = J
    <3>1. bad \subseteq SUBSET I
      OBVIOUS
    <3> HIDE DEF bad
    <3> QED
      BY <1>1, <3>1, SmallestSet
  <2>2. J # {}
    <3>1. All({}) = {}
      OBVIOUS
    <3> QED
      BY <2>1, <3>1, SumEmpty, FS_EmptySet
  <2>3. PICK i \in J : TRUE
    BY <2>2
  <2> DEFINE K == J \ {i}
  <2>4. K \notin bad /\ K \in SUBSET I /\ i \in I /\ J \in SUBSET I
    <3>1. bad \subseteq SUBSET I
      OBVIOUS
    <3> HIDE DEF bad
    <3> QED
      BY <2>1, <2>3, <3>1
  <2>5. IsFiniteSet(J) /\ IsFiniteSet(K)
    BY <2>4, FS_Subset
  <2>6. SumFunctionOnSet(g, J) = g[i] + SumFunctionOnSet(g, K)
    <3>1. \A j \in I : g[j] \in Int
      BY SumType
    <3>2. \A j \in J : g[j] \in Int
      BY <2>4, <3>1
    <3> QED
      BY <2>3, <2>5, <3>2, SumRemove
  <2>7. All(J) = S[i] \cup All(K) /\ S[i] \cap All(K) = {}
    BY <2>3, <2>4
  <2>8. IsFiniteSet(S[i]) /\ IsFiniteSet(All(K)) /\ IsFiniteSet(All(J))
    <3>1. IsFiniteSet(S[i]) /\ IsFiniteSet(All(K))
      BY <2>4
    <3> DEFINE A == S[i]
               B == All(K)
               C == All(J)
    <3>2. IsFiniteSet(A) /\ IsFiniteSet(B) /\ C = A \cup B
      BY <2>7, <3>1
    <3> HIDE DEF A, B, C
    <3>3. IsFiniteSet(C)
      BY <3>2, FS_Union
    <3> QED
      BY <3>2, <3>3 DEF A, B, C
  <2>9. SumFunctionOnSet(f, All(J)) = SumFunctionOnSet(f, S[i]) + SumFunctionOnSet(f, All(K))
    <3>1. \A x \in S[i] \cup All(K) : f[x] \in Int
      BY <2>4
    <3> DEFINE A == S[i]
               B == All(K)
    <3>2. SumFunctionOnSet(f, A \cup B) = SumFunctionOnSet(f, A) + SumFunctionOnSet(f, B)
      <4>1. IsFiniteSet(A) /\ IsFiniteSet(B) /\ A \cap B = {}
        BY <2>7, <2>8
      <4>2. \A x \in A \cup B : f[x] \in Int
        BY <3>1
      <4> HIDE DEF A, B
      <4> QED
        BY <4>1, <4>2, SumUnion
    <3> QED
      BY <2>7, <3>2
  <2>10. g[i] = SumFunctionOnSet(f, S[i])
    BY <2>4
  <2>11. SumFunctionOnSet(f, All(K)) = SumFunctionOnSet(g, K)
    BY <2>4
  <2>12. SumFunctionOnSet(f, All(J)) # SumFunctionOnSet(g, J)
    BY <2>1, <2>8
  <2> HIDE DEF All, K
  <2> QED
    BY <2>6, <2>9, <2>10, <2>11, <2>12
<1>2. I \in SUBSET I /\ All(I) = U
  OBVIOUS
<1>3. I \notin bad
  BY <1>1, <1>2
<1> QED
  BY <1>2, <1>3

LEMMA FiniteImage ==
    ASSUME NEW T, IsFiniteSet(T), NEW h
    PROVE  IsFiniteSet({h[x] : x \in T}) /\ Cardinality({h[x] : x \in T}) <= Cardinality(T)
<1> DEFINE g == [x \in T |-> h[x]]
           U == {h[x] : x \in T}
<1>1. g \in Surjection(T, U)
  BY DEF Surjection
<1> HIDE DEF g, U
<1>2. IsFiniteSet(U) /\ Cardinality(U) <= Cardinality(T)
  BY <1>1, FS_Surjection
<1> QED
  BY <1>2 DEF U

(* Renaming the summands, one to one.                                       *)
LEMMA SumImage ==
    ASSUME NEW f, NEW g, NEW h, NEW T, IsFiniteSet(T), \A x \in T : f[x] \in Int,
           \A x \in T : g[h[x]] = f[x], \A x \in T, y \in T : h[x] = h[y] => x = y
    PROVE  /\ IsFiniteSet({h[x] : x \in T})
           /\ SumFunctionOnSet(f, T) = SumFunctionOnSet(g, {h[x] : x \in T})
<1> DEFINE Img(U) == {h[x] : x \in U}
           bad == {U \in SUBSET T : SumFunctionOnSet(f, U) # SumFunctionOnSet(g, Img(U))}
<1>1. \A U \in SUBSET T : IsFiniteSet(U) /\ IsFiniteSet(Img(U))
  BY FS_Subset, FiniteImage
<1>2. ASSUME bad # {} PROVE FALSE
  <2>1. PICK U \in bad : \A V \in bad : V \subseteq U => V = U
    <3>1. bad \subseteq SUBSET T
      OBVIOUS
    <3> HIDE DEF bad
    <3> QED
      BY <1>2, <3>1, SmallestSet
  <2>2. U # {}
    <3>1. ASSUME U = {} PROVE FALSE
      <4>1. Img(U) = {}
        BY <3>1
      <4> QED
        BY <2>1, <3>1, <4>1, SumEmpty
    <3> QED
      BY <3>1
  <2>3. PICK x \in U : TRUE
    BY <2>2
  <2> DEFINE V == U \ {x}
  <2>4. SumFunctionOnSet(f, V) = SumFunctionOnSet(g, Img(V))
    BY <2>1, <2>3
  <2>5. SumFunctionOnSet(f, U) = f[x] + SumFunctionOnSet(f, V)
    BY <1>1, <2>1, SumRemove
  <2>6. Img(V) = Img(U) \ {h[x]} /\ h[x] \in Img(U)
    BY <2>1, <2>3
  <2>7. \A y \in Img(U) : g[y] \in Int
    BY <2>1
  <2>8. SumFunctionOnSet(g, Img(U)) = g[h[x]] + SumFunctionOnSet(g, Img(V))
    <3> HIDE DEF Img
    <3> QED
      BY <1>1, <2>1, <2>6, <2>7, SumRemove
  <2>9. g[h[x]] = f[x]
    BY <2>1, <2>3
  <2> QED
    BY <2>1, <2>4, <2>5, <2>8, <2>9
<1>3. T \notin bad
  BY <1>2
<1> QED
  BY <1>1, <1>3

LEMMA SumOne ==
    ASSUME NEW f, NEW x, f[x] \in Int
    PROVE  SumFunctionOnSet(f, {x}) = f[x]
<1>1. IsFiniteSet({x}) /\ {x} \ {x} = {} /\ x \in {x} /\ \A y \in {x} : f[y] \in Int
  BY FS_Singleton
<1>2. SumFunctionOnSet(f, {x}) = f[x] + SumFunctionOnSet(f, {x} \ {x})
  BY <1>1, SumRemove
<1> QED
  BY <1>1, <1>2, SumEmpty

(* A part of a set, and summands that are no larger.                        *)
LEMMA SumPart ==
    ASSUME NEW f, NEW T, IsFiniteSet(T), NEW U \in SUBSET T, \A x \in T : f[x] \in Nat
    PROVE  /\ SumFunctionOnSet(f, T) \in Nat /\ SumFunctionOnSet(f, U) \in Nat
           /\ SumFunctionOnSet(f, U) <= SumFunctionOnSet(f, T)
<1> DEFINE V == T \ U
<1>1. IsFiniteSet(U) /\ IsFiniteSet(V) /\ U \cap V = {} /\ U \cup V = T
  BY FS_Subset
<1>2. /\ \A x \in U : f[x] \in Nat
      /\ \A x \in V : f[x] \in Nat
      /\ \A x \in U \cup V : f[x] \in Int
  OBVIOUS
<1> HIDE DEF V
<1>3. SumFunctionOnSet(f, U) \in Nat /\ SumFunctionOnSet(f, V) \in Nat
  BY <1>1, <1>2, SumNat
<1>4. SumFunctionOnSet(f, U \cup V) = SumFunctionOnSet(f, U) + SumFunctionOnSet(f, V)
  BY <1>1, <1>2, SumUnion
<1>5. SumFunctionOnSet(f, T) = SumFunctionOnSet(f, U) + SumFunctionOnSet(f, V)
  BY <1>1, <1>4, Zenon
<1> QED
  BY <1>3, <1>5

LEMMA SumNotMore ==
    ASSUME NEW f, NEW g, NEW T, IsFiniteSet(T),
           \A x \in T : f[x] \in Int /\ g[x] \in Int /\ f[x] <= g[x]
    PROVE  SumFunctionOnSet(f, T) <= SumFunctionOnSet(g, T)
<1> DEFINE bad == {U \in SUBSET T : ~(SumFunctionOnSet(f, U) <= SumFunctionOnSet(g, U))}
<1>1. ASSUME bad # {} PROVE FALSE
  <2>1. PICK U \in bad : \A V \in bad : V \subseteq U => V = U
    <3>1. bad \subseteq SUBSET T
      OBVIOUS
    <3> HIDE DEF bad
    <3> QED
      BY <1>1, <3>1, SmallestSet
  <2>2. U # {} /\ IsFiniteSet(U)
    <3>1. SumFunctionOnSet(f, {}) <= SumFunctionOnSet(g, {})
      BY SumEmpty
    <3> QED
      BY <2>1, <3>1, FS_Subset
  <2> DEFINE x == Pick(U)
             V == U \ {x}
  <2>3. /\ x \in U
        /\ SumFunctionOnSet(f, U) = f[x] + SumFunctionOnSet(f, V)
        /\ SumFunctionOnSet(g, U) = g[x] + SumFunctionOnSet(g, V)
    BY <2>2, SumPick
  <2>4. V \in SUBSET T /\ V \notin bad /\ IsFiniteSet(V)
    BY <2>1, <2>2, <2>3, FS_Subset
  <2>5. SumFunctionOnSet(f, V) \in Int /\ SumFunctionOnSet(g, V) \in Int
    <3>1. \A y \in V : f[y] \in Int /\ g[y] \in Int
      BY <2>4
    <3> HIDE DEF V
    <3> QED
      BY <2>4, <3>1, SumType
  <2>6. SumFunctionOnSet(f, V) <= SumFunctionOnSet(g, V)
    BY <2>4
  <2>7. f[x] \in Int /\ g[x] \in Int /\ f[x] <= g[x]
    BY <2>1, <2>3
  <2>8. ~(SumFunctionOnSet(f, U) <= SumFunctionOnSet(g, U))
    BY <2>1
  <2> HIDE DEF bad, V, x
  <2> QED
    BY <2>3, <2>5, <2>6, <2>7, <2>8
<1>2. T \notin bad
  BY <1>1
<1> QED
  BY <1>2

-----------------------------------------------------------------------------
(* Ranks                                                                    *)

IsOrder(order, I) ==
    /\ \A i \in I : <<i, i>> \notin order
    /\ \A i \in I, j \in I : i # j => <<i, j>> \in order \/ <<j, i>> \in order
    /\ \A i \in I, j \in I, k \in I :
        <<i, j>> \in order /\ <<j, k>> \in order => <<i, k>> \in order

(* In an order of a finite set, the numbers of elements before each one are *)
(* all there are below the size of the set, and increase along the order.   *)
LEMMA Ranked ==
    ASSUME NEW I, IsFiniteSet(I), NEW order, IsOrder(order, I),
           NEW rank, rank = [i \in I |-> Cardinality({j \in I : <<j, i>> \in order})]
    PROVE  /\ \A i \in I : rank[i] \in 0..(Cardinality(I) - 1)
           /\ \A i \in I, j \in I : <<i, j>> \in order <=> rank[i] < rank[j]
           /\ \A i \in I, j \in I : rank[i] = rank[j] => i = j
           /\ \A n \in 0..(Cardinality(I) - 1) : \E i \in I : rank[i] = n
<1> DEFINE Earlier(i) == {j \in I : <<j, i>> \in order}
<1>0. /\ \A i \in I : <<i, i>> \notin order
      /\ \A i \in I, j \in I : i # j => <<i, j>> \in order \/ <<j, i>> \in order
      /\ \A i \in I, j \in I, k \in I :
          <<i, j>> \in order /\ <<j, k>> \in order => <<i, k>> \in order
  BY DEF IsOrder
<1>1. Cardinality(I) \in Nat
  BY FS_CardinalityType
<1>2. ASSUME NEW i \in I
      PROVE  /\ rank[i] = Cardinality(Earlier(i)) /\ IsFiniteSet(Earlier(i))
             /\ rank[i] \in 0..(Cardinality(I) - 1) /\ rank[i] \in Int
  <2>1. Earlier(i) \in SUBSET I /\ Earlier(i) # I
    BY <1>0
  <2>2. rank[i] = Cardinality(Earlier(i))
    OBVIOUS
  <2> HIDE DEF Earlier
  <2>3. /\ IsFiniteSet(Earlier(i)) /\ Cardinality(Earlier(i)) <= Cardinality(I)
        /\ Cardinality(I) # Cardinality(Earlier(i))
    BY <2>1, FS_Subset
  <2>4. Cardinality(Earlier(i)) \in Nat
    BY <2>3, FS_CardinalityType
  <2> QED
    BY <1>1, <2>2, <2>3, <2>4
<1>3. ASSUME NEW i \in I, NEW j \in I, <<i, j>> \in order PROVE rank[i] < rank[j]
  <2>1. Earlier(i) \in SUBSET Earlier(j)
    BY <1>0, <1>3
  <2>2. i \in Earlier(j) /\ i \notin Earlier(i)
    BY <1>0, <1>3
  <2> HIDE DEF Earlier
  <2>3. IsFiniteSet(Earlier(j)) /\ Earlier(i) # Earlier(j)
    BY <1>2, <2>2
  <2>4. /\ Cardinality(Earlier(i)) <= Cardinality(Earlier(j))
        /\ Cardinality(Earlier(j)) # Cardinality(Earlier(i))
    BY <2>1, <2>3, FS_Subset
  <2>5. rank[i] = Cardinality(Earlier(i)) /\ rank[j] = Cardinality(Earlier(j))
        /\ rank[i] \in Int /\ rank[j] \in Int
    BY <1>2
  <2> QED
    BY <2>4, <2>5
<1>4. \A i \in I, j \in I : <<i, j>> \in order <=> rank[i] < rank[j]
  <2> SUFFICES ASSUME NEW i \in I, NEW j \in I, rank[i] < rank[j] PROVE <<i, j>> \in order
    BY <1>3
  <2>1. rank[i] \in Int /\ rank[j] \in Int
    BY ONLY <1>2
  <2>2. i # j /\ ~(<<j, i>> \in order)
    BY ONLY <1>3, <2>1, rank[i] < rank[j], i \in I, j \in I
  <2> QED
    BY <1>0, <2>2
<1>5. \A i \in I, j \in I : rank[i] = rank[j] => i = j
  <2> SUFFICES ASSUME NEW i \in I, NEW j \in I, rank[i] = rank[j], i # j PROVE FALSE
    OBVIOUS
  <2>1. rank[i] \in Int /\ rank[j] \in Int
    BY ONLY <1>2
  <2>2. rank[i] < rank[j] \/ rank[j] < rank[i]
    BY <1>0, <1>3
  <2> QED
    BY <2>1, <2>2
<1> DEFINE below == 0..(Cardinality(I) - 1)
<1>6. \A i \in I : rank[i] \in below
  BY <1>2
<1>7. rank \in Injection(I, below)
  <2>1. rank \in [I -> below] /\ DOMAIN rank = I
    BY <1>6
  <2> HIDE DEF below
  <2>2. IsInjective(rank)
    BY ONLY <1>5, <2>1 DEF IsInjective
  <2> QED
    BY ONLY <2>1, <2>2 DEF Injection
<1>8. IsFiniteSet(below) /\ Cardinality(below) = Cardinality(I)
  <2> DEFINE n == Cardinality(I)
  <2>1. 0 \in Int /\ n - 1 \in Int /\ n \in Nat
    BY <1>1
  <2> HIDE DEF n
  <2>2. IsFiniteSet(0..(n - 1)) /\ Cardinality(0..(n - 1)) = IF 0 > n - 1 THEN 0 ELSE (n - 1) - 0 + 1
    BY ONLY <2>1, FS_Interval
  <2>3. IsFiniteSet(0..(n - 1)) /\ Cardinality(0..(n - 1)) = n
    BY ONLY <2>1, <2>2
  <2> QED
    BY <2>3 DEF n
<1>9. rank \in Surjection(I, below)
  <2> HIDE DEF below
  <2> QED
    BY <1>7, <1>8, FS_Injection
<1>10. \A n \in below : \E i \in I : rank[i] = n
  <2> HIDE DEF below
  <2> QED
    BY <1>9 DEF Surjection
<1> QED
  BY <1>4, <1>5, <1>6, <1>10

=============================================================================
