-------------------------------- MODULE Sums --------------------------------
(***************************************************************************)
(* What theorems about money need of sums, of the rows one commit lists,   *)
(* and of tables whose rows are added, saved and mapped.  SumFunctionOnSet *)
(* is a fold, which takes the elements of a set in some order; that a fold *)
(* over a finite set is defined, and that a sum does not depend on the     *)
(* order, is shown on a smallest set for which it were otherwise.          *)
(***************************************************************************)
EXTENDS Integers, FiniteSetsExt, Functions, Listing, FiniteSetTheorems, SequenceTheorems,
        WellFoundedInduction, TLAPS

(***************************************************************************)
(* Inclusion among the subsets of a finite set has minimal elements.       *)
(***************************************************************************)
LEMMA SmallestSet ==
    ASSUME NEW S, IsFiniteSet(S), NEW T \in SUBSET SUBSET S, T # {}
    PROVE  \E x \in T : \A y \in T : y \subseteq x => y = x
<1>1. IsWellFoundedOn(StrictSubsetOrdering(S), SUBSET S)
  BY FS_StrictSubsetOrderingWellFounded, FS_FiniteSubsetsOfFinite
<1>2. PICK x \in T : \A y \in T : <<y, x>> \notin StrictSubsetOrdering(S)
  BY <1>1, WFMin
<1> QED
  BY <1>2 DEF StrictSubsetOrdering

Pick(s) == CHOOSE x \in s : TRUE

LEMMA PickIn == \A s : s # {} => Pick(s) \in s
  BY DEF Pick

Walk(f, g, s) == IF s = {} THEN 0 ELSE f[Pick(s)] + g[s \ {Pick(s)}]

Walks(f, g, S) == g = [s \in SUBSET S |-> Walk(f, g, s)]

LEMMA WalkIs ==
    \A f, g, s : Walk(f, g, s) = IF s = {} THEN 0 ELSE f[Pick(s)] + g[s \ {Pick(s)}]
  BY DEF Walk

LEMMA SmallestNumber ==
    ASSUME NEW T \in SUBSET Nat, T # {}
    PROVE  \E n \in T : \A m \in T : n <= m
<1>1. PICK b \in T : TRUE
  OBVIOUS
<1> DEFINE all == 0 .. b
           below == {0 .. n : n \in {k \in T : k <= b}}
<1>2. IsFiniteSet(all)
  BY FS_Interval
<1>3. below # {} /\ below \in SUBSET SUBSET all
  BY <1>1
<1>4. PICK x \in below : \A y \in below : y \subseteq x => y = x
  <2> HIDE DEF below, all
  <2> QED
    BY <1>2, <1>3, SmallestSet
<1>5. PICK n \in T : n <= b /\ x = 0 .. n
  BY <1>4
<1>6. ASSUME NEW m \in T, m < n PROVE FALSE
  <2>1. 0 .. m \in below /\ 0 .. m \subseteq x
    BY <1>5, <1>6
  <2>2. 0 .. m = x
    BY <1>4, <2>1
  <2> QED
    BY <1>5, <1>6, <2>2
<1> QED
  BY <1>5, <1>6

LEMMA WalkExists ==
    ASSUME NEW S, IsFiniteSet(S), NEW f
    PROVE  \E g : Walks(f, g, S)
<1> DEFINE D(n) == {s \in SUBSET S : Cardinality(s) <= n}
           bad == {n \in Nat : ~ \E g : g = [s \in D(n) |-> Walk(f, g, s)]}
<1>1. \A s \in SUBSET S : IsFiniteSet(s) /\ Cardinality(s) \in Nat
                          /\ (Cardinality(s) = 0 <=> s = {})
  BY FS_Subset, FS_CardinalityType, FS_EmptySet
<1>2. \A s \in SUBSET S : s # {} => /\ s \ {Pick(s)} \in SUBSET S
                                    /\ Cardinality(s \ {Pick(s)}) = Cardinality(s) - 1
  BY <1>1, FS_RemoveElement, PickIn
<1>3. bad = {}
  <2> SUFFICES ASSUME bad # {} PROVE FALSE
    OBVIOUS
  <2>1. PICK n \in bad : \A m \in bad : n <= m
    <3> HIDE DEF bad
    <3>1. bad \in SUBSET Nat
      BY DEF bad
    <3> QED
      BY <3>1, SmallestNumber
  <2>2. n \in Nat
    OBVIOUS
  <2>3. CASE n = 0
    <3> DEFINE g == [s \in D(n) |-> 0]
    <3>1. \A s \in D(n) : s = {}
      BY <1>1, <2>3
    <3>2. g = [s \in D(n) |-> Walk(f, g, s)]
      BY <3>1, WalkIs
    <3> QED
      BY <2>1, <3>2
  <2>4. CASE n # 0
    <3>1. n - 1 \in Nat /\ n - 1 \notin bad
      <4> HIDE DEF bad
      <4> QED
        BY <2>1, <2>2, <2>4
    <3>2. PICK h : h = [s \in D(n - 1) |-> Walk(f, h, s)]
      BY <3>1
    <3> DEFINE g == [s \in D(n) |-> Walk(f, h, s)]
    <3>3. ASSUME NEW s \in D(n) PROVE Walk(f, g, s) = Walk(f, h, s)
      <4>1. CASE s = {}
        BY <4>1, WalkIs
      <4>2. CASE s # {}
        <5> DEFINE r == s \ {Pick(s)}
        <5>1. r \in D(n - 1) /\ r \in D(n)
          BY <1>1, <1>2, <2>2, <4>2
        <5>2. g[r] = Walk(f, h, r) /\ h[r] = Walk(f, h, r)
          <6> HIDE DEF D
          <6> QED BY <5>1, <3>2
        <5> HIDE DEF g
        <5> QED
          BY <5>2, WalkIs
      <4> QED
        BY <4>1, <4>2
    <3>4. g = [s \in D(n) |-> Walk(f, g, s)]
      <4>1. \A s \in D(n) : Walk(f, h, s) = Walk(f, g, s)
        BY <3>3
      <4> HIDE DEF D
      <4> QED BY <4>1
    <3> QED
      BY <2>1, <3>4
  <2> QED
    BY <2>3, <2>4
<1>4. D(Cardinality(S)) = SUBSET S
  BY <1>1, FS_Subset
<1>5. PICK g : g = [s \in D(Cardinality(S)) |-> Walk(f, g, s)]
  BY <1>1, <1>3
<1>6. g = [s \in SUBSET S |-> Walk(f, g, s)]
  <2> HIDE DEF D
  <2> QED BY <1>4, <1>5
<1> QED
  BY <1>6 DEF Walks

(***************************************************************************)
(* The fold over S, and that it has the same value on what S and T share.  *)
(***************************************************************************)
Fold(f, S) == CHOOSE g : g = [s \in SUBSET S |-> IF s = {} THEN 0 ELSE f[Pick(s)] + g[s \ {Pick(s)}]]

LEMMA SumIsFold == \A f, S : SumFunctionOnSet(f, S) = Fold(f, S)[S]
  BY DEF SumFunctionOnSet, FoldFunctionOnSet, MapThenFoldSet, Fold, Pick

LEMMA FoldIs ==
    ASSUME NEW f, NEW S, IsFiniteSet(S)
    PROVE  /\ Fold(f, S)[{}] = 0
           /\ \A s \in SUBSET S : s # {} => Fold(f, S)[s] = f[Pick(s)] + Fold(f, S)[s \ {Pick(s)}]
<1>1. \E g : g = [s \in SUBSET S |-> IF s = {} THEN 0 ELSE f[Pick(s)] + g[s \ {Pick(s)}]]
  <2>1. PICK g : Walks(f, g, S)
    BY WalkExists
  <2>2. g = [s \in SUBSET S |-> IF s = {} THEN 0 ELSE f[Pick(s)] + g[s \ {Pick(s)}]]
    BY <2>1, WalkIs DEF Walks
  <2> QED
    BY <2>2
<1>2. Fold(f, S) = [s \in SUBSET S |->
                      IF s = {} THEN 0 ELSE f[Pick(s)] + Fold(f, S)[s \ {Pick(s)}]]
  BY <1>1 DEF Fold
<1> QED
  BY <1>2

LEMMA FoldsAgree ==
    ASSUME NEW f, NEW S, IsFiniteSet(S), NEW T \in SUBSET S
    PROVE  Fold(f, S)[T] = Fold(f, T)[T]
<1> DEFINE bad == {u \in SUBSET T : Fold(f, S)[u] # Fold(f, T)[u]}
<1>1. IsFiniteSet(T)
  BY FS_Subset
<1>2. ASSUME bad # {} PROVE FALSE
  <2>1. PICK u \in bad : \A v \in bad : v \subseteq u => v = u
    <3>1. bad \in SUBSET SUBSET T
      OBVIOUS
    <3> HIDE DEF bad
    <3> QED
      BY <1>1, <1>2, <3>1, SmallestSet
  <2>2. u \in SUBSET T /\ u \in SUBSET S /\ Fold(f, S)[u] # Fold(f, T)[u]
    OBVIOUS
  <2>3. u # {}
    BY <1>1, <2>2, FoldIs
  <2> DEFINE v == u \ {Pick(u)}
  <2>4. v \in SUBSET T /\ v \subseteq u /\ v # u
    BY <2>2, <2>3, PickIn
  <2>5. Fold(f, S)[v] = Fold(f, T)[v]
    BY <2>1, <2>4
  <2>6. Fold(f, S)[u] = f[Pick(u)] + Fold(f, S)[v] /\ Fold(f, T)[u] = f[Pick(u)] + Fold(f, T)[v]
    BY <1>1, <2>2, <2>3, FoldIs
  <2> QED
    BY <2>2, <2>5, <2>6
<1> QED
  BY <1>2

LEMMA SumFirst ==
    ASSUME NEW f, NEW S, IsFiniteSet(S)
    PROVE  /\ SumFunctionOnSet(f, {}) = 0
           /\ S # {} => SumFunctionOnSet(f, S) = f[Pick(S)] + SumFunctionOnSet(f, S \ {Pick(S)})
<1>1. SumFunctionOnSet(f, {}) = 0
  BY FoldIs, SumIsFold, FS_EmptySet
<1>2. ASSUME S # {} PROVE SumFunctionOnSet(f, S) = f[Pick(S)] + SumFunctionOnSet(f, S \ {Pick(S)})
  <2> DEFINE r == S \ {Pick(S)}
  <2>1. Fold(f, S)[S] = f[Pick(S)] + Fold(f, S)[r]
    BY <1>2, FoldIs
  <2>2. r \in SUBSET S
    OBVIOUS
  <2>3. Fold(f, S)[r] = Fold(f, r)[r]
    <3> HIDE DEF r
    <3> QED BY <2>2, FoldsAgree
  <2>4. SumFunctionOnSet(f, S) = Fold(f, S)[S] /\ SumFunctionOnSet(f, r) = Fold(f, r)[r]
    BY SumIsFold
  <2> QED
    BY <2>1, <2>3, <2>4
<1> QED
  BY <1>1, <1>2

(***************************************************************************)
(* A sum of integers is one, and any of them may be taken out first.       *)
(***************************************************************************)
LEMMA SumTyped ==
    ASSUME NEW S, IsFiniteSet(S), NEW f, \A x \in S : f[x] \in Int
    PROVE  SumFunctionOnSet(f, S) \in Int
<1> DEFINE bad == {s \in SUBSET S : SumFunctionOnSet(f, s) \notin Int}
<1>1. ASSUME bad # {} PROVE FALSE
  <2>1. PICK s \in bad : \A t \in bad : t \subseteq s => t = s
    <3>1. bad \in SUBSET SUBSET S
      OBVIOUS
    <3> HIDE DEF bad
    <3> QED
      BY <1>1, <3>1, SmallestSet
  <2>2. s \in SUBSET S /\ SumFunctionOnSet(f, s) \notin Int /\ IsFiniteSet(s)
    BY FS_Subset
  <2>3. s # {}
    BY <2>2, SumFirst
  <2>4. Pick(s) \in s
    BY <2>3, PickIn
  <2> DEFINE r == s \ {Pick(s)}
  <2>5. SumFunctionOnSet(f, r) \in Int
    BY <2>1, <2>2, <2>4
  <2>6. SumFunctionOnSet(f, s) = f[Pick(s)] + SumFunctionOnSet(f, r)
    BY <2>2, <2>3, SumFirst
  <2> QED
    BY <2>2, <2>4, <2>5, <2>6
<1>2. S \notin bad
  BY <1>1
<1> QED
  BY <1>2

LEMMA SumTakeOut ==
    ASSUME NEW S, IsFiniteSet(S), NEW f, \A x \in S : f[x] \in Int, NEW e \in S
    PROVE  SumFunctionOnSet(f, S) = f[e] + SumFunctionOnSet(f, S \ {e})
<1> DEFINE Off(s, x) == SumFunctionOnSet(f, s) # f[x] + SumFunctionOnSet(f, s \ {x})
           bad == {s \in SUBSET S : \E x \in s : Off(s, x)}
<1>1. ASSUME bad # {} PROVE FALSE
  <2>1. PICK s \in bad : \A t \in bad : t \subseteq s => t = s
    <3>1. bad \in SUBSET SUBSET S
      OBVIOUS
    <3> HIDE DEF bad
    <3> QED
      BY <1>1, <3>1, SmallestSet
  <2>2. PICK x \in s : Off(s, x)
    OBVIOUS
  <2>3. s \in SUBSET S /\ IsFiniteSet(s)
    BY FS_Subset
  <2> DEFINE p == Pick(s)
             r == s \ {p}
             q == s \ {x}
             rest == r \ {x}
  <2>4. p \in s
    BY <2>2, PickIn
  <2>5. SumFunctionOnSet(f, s) = f[p] + SumFunctionOnSet(f, r)
    BY <2>2, <2>3, SumFirst
  <2>6. p # x
    BY <2>2, <2>5
  <2>7. ASSUME NEW t \in SUBSET s, t # s, NEW y \in t
        PROVE  SumFunctionOnSet(f, t) = f[y] + SumFunctionOnSet(f, t \ {y})
    <3>1. t \in SUBSET S /\ t \notin bad
      <4> HIDE DEF bad
      <4> QED BY <2>1, <2>3, <2>7
    <3> QED
      BY <3>1
  <2>8. SumFunctionOnSet(f, r) = f[x] + SumFunctionOnSet(f, rest)
    BY <2>2, <2>4, <2>6, <2>7
  <2>9. SumFunctionOnSet(f, q) = f[p] + SumFunctionOnSet(f, rest)
    <3>1. q \ {p} = rest
      OBVIOUS
    <3>2. q \in SUBSET s /\ q # s /\ p \in q
      BY <2>2, <2>4, <2>6
    <3> HIDE DEF q, p, rest, r
    <3> QED
      BY <3>1, <3>2, <2>7
  <2>10. SumFunctionOnSet(f, rest) \in Int
    <3>1. IsFiniteSet(rest) /\ rest \in SUBSET S
      BY <2>3, FS_Subset
    <3> HIDE DEF rest
    <3> QED
      BY <3>1, SumTyped
  <2>11. f[p] \in Int /\ f[x] \in Int
    BY <2>2, <2>3, <2>4
  <2>12. SumFunctionOnSet(f, s) # f[x] + SumFunctionOnSet(f, q)
    BY <2>2
  <2> HIDE DEF p, q, r, rest
  <2> QED
    BY <2>5, <2>8, <2>9, <2>10, <2>11, <2>12
<1>2. S \notin bad
  BY <1>1
<1> QED
  BY <1>2

LEMMA SumAddOne ==
    ASSUME NEW S, IsFiniteSet(S), NEW e, e \notin S, NEW f, \A x \in S \cup {e} : f[x] \in Int
    PROVE  SumFunctionOnSet(f, S \cup {e}) = f[e] + SumFunctionOnSet(f, S)
<1> DEFINE T == S \cup {e}
<1>1. IsFiniteSet(T) /\ e \in T /\ T \ {e} = S
  BY FS_AddElement
<1> QED
  BY <1>1, SumTakeOut

(***************************************************************************)
(* Two sums over one set: equal where the summands are, and one less for   *)
(* every summand that is one less.                                         *)
(***************************************************************************)
LEMMA SumLess ==
    ASSUME NEW S, IsFiniteSet(S), NEW B \in SUBSET S, NEW f, NEW g,
           \A x \in S : f[x] \in Int /\ g[x] = (IF x \in B THEN f[x] - 1 ELSE f[x])
    PROVE  SumFunctionOnSet(g, S) = SumFunctionOnSet(f, S) - Cardinality(B)
<1> DEFINE Off(s) == SumFunctionOnSet(g, s) # SumFunctionOnSet(f, s) - Cardinality(B \cap s)
           bad == {s \in SUBSET S : Off(s)}
<1>1. ASSUME bad # {} PROVE FALSE
  <2>1. PICK s \in bad : \A t \in bad : t \subseteq s => t = s
    <3>1. bad \in SUBSET SUBSET S
      OBVIOUS
    <3> HIDE DEF bad
    <3> QED
      BY <1>1, <3>1, SmallestSet
  <2>2. s \in SUBSET S /\ Off(s) /\ IsFiniteSet(s)
    BY FS_Subset
  <2>3. s # {}
    <3>1. B \cap {} = {} /\ SumFunctionOnSet(f, {}) = 0 /\ SumFunctionOnSet(g, {}) = 0
      BY SumFirst, FS_EmptySet
    <3>2. Cardinality(B \cap {}) = 0
      BY <3>1, FS_EmptySet
    <3>3. ~Off({})
      BY <3>1, <3>2
    <3> HIDE DEF Off
    <3> QED
      BY <2>2, <3>3
  <2> DEFINE p == Pick(s)
             r == s \ {p}
             in == B \cap s
             left == B \cap r
  <2>4. p \in s
    BY <2>3, PickIn
  <2>5. SumFunctionOnSet(f, s) = f[p] + SumFunctionOnSet(f, r)
    BY <2>2, <2>3, SumFirst
  <2>6. SumFunctionOnSet(g, s) = g[p] + SumFunctionOnSet(g, r)
    BY <2>2, <2>3, SumFirst
  <2>7. SumFunctionOnSet(g, r) = SumFunctionOnSet(f, r) - Cardinality(left)
    BY <2>1, <2>2, <2>4
  <2>8. IsFiniteSet(in) /\ IsFiniteSet(left) /\ IsFiniteSet(r) /\ r \in SUBSET S
    BY <2>2, FS_Subset
  <2>9. /\ p \in B => Cardinality(left) = Cardinality(in) - 1
        /\ p \notin B => left = in
    <3>1. p \in B => p \in in /\ left = in \ {p}
      BY <2>4
    <3>2. p \notin B => left = in
      OBVIOUS
    <3> HIDE DEF in, left, p
    <3> QED
      BY <2>8, <3>1, <3>2, FS_RemoveElement
  <2>10. Cardinality(in) \in Nat /\ Cardinality(left) \in Nat
    BY <2>8, FS_CardinalityType
  <2>11. SumFunctionOnSet(f, r) \in Int
    <3> HIDE DEF r
    <3> QED BY <2>8, SumTyped
  <2>12. f[p] \in Int /\ g[p] = (IF p \in B THEN f[p] - 1 ELSE f[p])
    BY <2>2, <2>4
  <2>13. SumFunctionOnSet(g, s) # SumFunctionOnSet(f, s) - Cardinality(in)
    BY <2>2
  <2> HIDE DEF p, r, in, left
  <2> QED
    BY <2>5, <2>6, <2>7, <2>9, <2>10, <2>11, <2>12, <2>13
<1>2. S \notin bad /\ B \cap S = B
  BY <1>1
<1> QED
  BY <1>2

LEMMA SumSame ==
    ASSUME NEW S, IsFiniteSet(S), NEW f, NEW g, \A x \in S : f[x] \in Int /\ g[x] = f[x]
    PROVE  SumFunctionOnSet(g, S) = SumFunctionOnSet(f, S)
<1>1. SumFunctionOnSet(g, S) = SumFunctionOnSet(f, S) - Cardinality({})
  BY SumLess
<1> QED
  BY <1>1, SumTyped, FS_EmptySet

LEMMA SumOfNaturals ==
    ASSUME NEW S, IsFiniteSet(S), NEW f, \A x \in S : f[x] \in Nat
    PROVE  SumFunctionOnSet(f, S) \in Nat
<1> DEFINE bad == {s \in SUBSET S : SumFunctionOnSet(f, s) \notin Nat}
<1>1. ASSUME bad # {} PROVE FALSE
  <2>1. PICK s \in bad : \A t \in bad : t \subseteq s => t = s
    <3>1. bad \in SUBSET SUBSET S
      OBVIOUS
    <3> HIDE DEF bad
    <3> QED
      BY <1>1, <3>1, SmallestSet
  <2>2. s \in SUBSET S /\ SumFunctionOnSet(f, s) \notin Nat /\ IsFiniteSet(s)
    BY FS_Subset
  <2>3. s # {}
    <3>1. SumFunctionOnSet(f, {}) = 0
      BY SumFirst, FS_EmptySet
    <3> QED
      BY <2>2, <3>1
  <2>4. Pick(s) \in s
    BY <2>3, PickIn
  <2> DEFINE r == s \ {Pick(s)}
  <2>5. SumFunctionOnSet(f, r) \in Nat
    BY <2>1, <2>2, <2>4
  <2>6. SumFunctionOnSet(f, s) = f[Pick(s)] + SumFunctionOnSet(f, r)
    BY <2>2, <2>3, SumFirst
  <2> QED
    BY <2>2, <2>4, <2>5, <2>6
<1>2. S \notin bad
  BY <1>1
<1> QED
  BY <1>2

(***************************************************************************)
(* Two functions that differ in one summand.                               *)
(***************************************************************************)
LEMMA SumMoves ==
    ASSUME NEW S, IsFiniteSet(S), NEW e \in S, NEW f, NEW g,
           \A x \in S : f[x] \in Int /\ g[x] \in Int,
           \A x \in S : x # e => g[x] = f[x]
    PROVE  SumFunctionOnSet(g, S) = SumFunctionOnSet(f, S) + (g[e] - f[e])
<1> DEFINE R == S \ {e}
<1>1. IsFiniteSet(R) /\ R \in SUBSET S /\ e \notin R
  BY FS_Subset
<1>2. SumFunctionOnSet(f, S) = f[e] + SumFunctionOnSet(f, R)
  BY SumTakeOut
<1>3. SumFunctionOnSet(g, S) = g[e] + SumFunctionOnSet(g, R)
  BY SumTakeOut
<1>4. SumFunctionOnSet(g, R) = SumFunctionOnSet(f, R) /\ SumFunctionOnSet(f, R) \in Int
  <2> HIDE DEF R
  <2>1. \A x \in R : f[x] \in Int /\ g[x] = f[x]
    BY <1>1
  <2> QED
    BY <1>1, <2>1, SumSame, SumTyped
<1> HIDE DEF R
<1> QED
  BY <1>2, <1>3, <1>4

LEMMA SumIsOnSet == \A f : SumFunction(f) = SumFunctionOnSet(f, DOMAIN f)
  BY DEF SumFunction

(***************************************************************************)
(* Sums over two sets without a common element.                            *)
(***************************************************************************)
LEMMA SumTogether ==
    ASSUME NEW S, IsFiniteSet(S), NEW T, IsFiniteSet(T), S \cap T = {}, NEW f,
           \A x \in S \cup T : f[x] \in Int
    PROVE  SumFunctionOnSet(f, S \cup T) = SumFunctionOnSet(f, S) + SumFunctionOnSet(f, T)
<1> DEFINE Off(t) == SumFunctionOnSet(f, S \cup t) # SumFunctionOnSet(f, S) + SumFunctionOnSet(f, t)
           bad == {t \in SUBSET T : Off(t)}
<1>0. SumFunctionOnSet(f, S) \in Int
  BY SumTyped
<1>1. ASSUME bad # {} PROVE FALSE
  <2>1. PICK t \in bad : \A u \in bad : u \subseteq t => u = t
    <3>1. bad \in SUBSET SUBSET T
      OBVIOUS
    <3> HIDE DEF bad
    <3> QED
      BY <1>1, <3>1, SmallestSet
  <2>2. t \in SUBSET T /\ Off(t) /\ IsFiniteSet(t)
    BY FS_Subset
  <2>3. t # {}
    <3>1. S \cup {} = S /\ SumFunctionOnSet(f, {}) = 0
      BY SumFirst, FS_EmptySet
    <3>2. ~Off({})
      BY <1>0, <3>1
    <3> HIDE DEF Off
    <3> QED
      BY <2>2, <3>2
  <2>4. PICK e : e \in t
    BY <2>3
  <2> DEFINE u == t \ {e}
  <2>5. u \in SUBSET T /\ u \subseteq t /\ u # t
    BY <2>2, <2>4
  <2>6. SumFunctionOnSet(f, S \cup u) = SumFunctionOnSet(f, S) + SumFunctionOnSet(f, u)
    BY <2>1, <2>5
  <2>7. SumFunctionOnSet(f, t) = f[e] + SumFunctionOnSet(f, u)
    BY <2>2, <2>4, SumTakeOut
  <2>8. SumFunctionOnSet(f, S \cup t) = f[e] + SumFunctionOnSet(f, S \cup u)
    <3>1. IsFiniteSet(S \cup t) /\ e \in S \cup t /\ (S \cup t) \ {e} = S \cup u
      BY <2>2, <2>4, FS_Union
    <3>2. \A x \in S \cup t : f[x] \in Int
      BY <2>2
    <3> QED
      BY <3>1, <3>2, SumTakeOut
  <2>9. SumFunctionOnSet(f, u) \in Int /\ f[e] \in Int
    <3>1. IsFiniteSet(u) /\ \A x \in u : f[x] \in Int
      BY <2>2, <2>5, FS_Subset
    <3> HIDE DEF u
    <3> QED
      BY <2>2, <2>4, <3>1, SumTyped
  <2> HIDE DEF u
  <2> QED
    BY <1>0, <2>2, <2>6, <2>7, <2>8, <2>9
<1>2. T \notin bad
  BY <1>1
<1> QED
  BY <1>2

LEMMA SumOfZeros ==
    ASSUME NEW S, IsFiniteSet(S), NEW f, \A x \in S : f[x] = 0
    PROVE  SumFunctionOnSet(f, S) = 0
<1> DEFINE bad == {s \in SUBSET S : SumFunctionOnSet(f, s) # 0}
<1>1. ASSUME bad # {} PROVE FALSE
  <2>1. PICK s \in bad : \A t \in bad : t \subseteq s => t = s
    <3>1. bad \in SUBSET SUBSET S
      OBVIOUS
    <3> HIDE DEF bad
    <3> QED
      BY <1>1, <3>1, SmallestSet
  <2>2. s \in SUBSET S /\ SumFunctionOnSet(f, s) # 0 /\ IsFiniteSet(s)
    BY FS_Subset
  <2>3. s # {}
    BY <2>2, SumFirst
  <2>4. Pick(s) \in s
    BY <2>3, PickIn
  <2> DEFINE r == s \ {Pick(s)}
  <2>5. SumFunctionOnSet(f, r) = 0
    BY <2>1, <2>2, <2>4
  <2>6. SumFunctionOnSet(f, s) = f[Pick(s)] + SumFunctionOnSet(f, r)
    BY <2>2, <2>3, SumFirst
  <2> QED
    BY <2>2, <2>4, <2>5, <2>6
<1>2. S \notin bad
  BY <1>1
<1> QED
  BY <1>2

(***************************************************************************)
(* A sum over more, where what is more adds nothing.                       *)
(***************************************************************************)
LEMMA SumWithZeros ==
    ASSUME NEW S, NEW T, IsFiniteSet(T), S \subseteq T, NEW f, NEW g,
           \A x \in S : f[x] \in Int /\ g[x] = f[x],
           \A x \in T \ S : g[x] = 0
    PROVE  SumFunctionOnSet(g, T) = SumFunctionOnSet(f, S)
<1> DEFINE more == T \ S
<1>1. IsFiniteSet(S) /\ IsFiniteSet(more) /\ S \cap more = {} /\ S \cup more = T
  BY FS_Subset
<1>2. \A x \in more : g[x] = 0
  OBVIOUS
<1>3. \A x \in S \cup more : g[x] \in Int
  BY <1>2
<1> HIDE DEF more
<1>4. SumFunctionOnSet(g, T) = SumFunctionOnSet(g, S) + SumFunctionOnSet(g, more)
  BY <1>1, <1>3, SumTogether
<1>5. SumFunctionOnSet(g, more) = 0
  BY <1>1, <1>2, SumOfZeros
<1>6. SumFunctionOnSet(g, S) = SumFunctionOnSet(f, S)
  BY <1>1, SumSame
<1>7. SumFunctionOnSet(f, S) \in Int
  BY <1>1, SumTyped
<1> QED
  BY <1>4, <1>5, <1>6, <1>7

(***************************************************************************)
(* Summing over positions, each the place of one summand.                  *)
(***************************************************************************)
LEMMA SumOverPlaces ==
    ASSUME NEW K, IsFiniteSet(K), NEW b, \A j, k \in K : b[j] = b[k] => j = k,
           NEW f, NEW g, \A k \in K : g[k] \in Int /\ f[b[k]] = g[k]
    PROVE  SumFunctionOnSet(f, {b[k] : k \in K}) = SumFunctionOnSet(g, K)
<1> DEFINE At(s) == {b[k] : k \in s}
           Off(s) == ~(IsFiniteSet(At(s)) /\ SumFunctionOnSet(f, At(s)) = SumFunctionOnSet(g, s))
           bad == {s \in SUBSET K : Off(s)}
<1>1. ASSUME bad # {} PROVE FALSE
  <2>1. PICK s \in bad : \A t \in bad : t \subseteq s => t = s
    <3>1. bad \in SUBSET SUBSET K
      OBVIOUS
    <3> HIDE DEF bad
    <3> QED
      BY <1>1, <3>1, SmallestSet
  <2>2. s \in SUBSET K /\ Off(s) /\ IsFiniteSet(s)
    BY FS_Subset
  <2>3. s # {}
    <3>1. At({}) = {}
      OBVIOUS
    <3>2. SumFunctionOnSet(f, {}) = 0 /\ SumFunctionOnSet(g, {}) = 0 /\ IsFiniteSet({})
      BY SumFirst, FS_EmptySet
    <3>3. ~Off({})
      <4> HIDE DEF At
      <4> QED BY <3>1, <3>2
    <3> HIDE DEF Off
    <3> QED
      BY <2>2, <3>3
  <2>4. PICK e : e \in s
    BY <2>3
  <2> DEFINE t == s \ {e}
  <2>5. t \in SUBSET K /\ t \subseteq s /\ t # s /\ e \in K /\ IsFiniteSet(t)
    BY <2>2, <2>4, FS_Subset
  <2>6. IsFiniteSet(At(t)) /\ SumFunctionOnSet(f, At(t)) = SumFunctionOnSet(g, t)
    <3>1. t \notin bad
      <4> HIDE DEF bad, t
      <4> QED BY <2>1, <2>5
    <3> HIDE DEF At, t
    <3> QED BY <2>5, <3>1
  <2>7. SumFunctionOnSet(g, s) = g[e] + SumFunctionOnSet(g, t)
    BY <2>2, <2>4, SumTakeOut
  <2>8. At(s) = At(t) \cup {b[e]} /\ b[e] \notin At(t)
    BY <2>4, <2>5
  <2>9. \A x \in At(t) \cup {b[e]} : f[x] \in Int
    BY <2>5
  <2>10. SumFunctionOnSet(f, At(s)) = f[b[e]] + SumFunctionOnSet(f, At(t))
    <3>1. PICK p, u : p = b[e] /\ u = At(t)
      OBVIOUS
    <3>2. SumFunctionOnSet(f, u \cup {p}) = f[p] + SumFunctionOnSet(f, u)
      <4>1. IsFiniteSet(u) /\ p \notin u /\ \A x \in u \cup {p} : f[x] \in Int
        BY <2>6, <2>8, <2>9, <3>1
      <4> QED
        BY <4>1, SumAddOne
    <3> HIDE DEF At, t
    <3> QED
      BY <2>8, <3>1, <3>2
  <2>11. IsFiniteSet(At(s))
    <3> HIDE DEF At, t
    <3> QED
      BY <2>6, <2>8, FS_AddElement
  <2>12. f[b[e]] = g[e]
    BY <2>5
  <2> HIDE DEF At, t
  <2> QED
    BY <2>2, <2>6, <2>7, <2>10, <2>11, <2>12
<1>2. K \notin bad
  BY <1>1
<1> QED
  BY <1>2

(***************************************************************************)
(* Adding two functions adds their sums.                                   *)
(***************************************************************************)
LEMMA SumOfSums ==
    ASSUME NEW S, IsFiniteSet(S), NEW f, NEW g, NEW h,
           \A x \in S : f[x] \in Int /\ g[x] \in Int /\ h[x] = f[x] + g[x]
    PROVE  SumFunctionOnSet(h, S) = SumFunctionOnSet(f, S) + SumFunctionOnSet(g, S)
<1> DEFINE Off(s) == SumFunctionOnSet(h, s) # SumFunctionOnSet(f, s) + SumFunctionOnSet(g, s)
           bad == {s \in SUBSET S : Off(s)}
<1>1. ASSUME bad # {} PROVE FALSE
  <2>1. PICK s \in bad : \A t \in bad : t \subseteq s => t = s
    <3>1. bad \in SUBSET SUBSET S
      OBVIOUS
    <3> HIDE DEF bad
    <3> QED
      BY <1>1, <3>1, SmallestSet
  <2>2. s \in SUBSET S /\ Off(s) /\ IsFiniteSet(s)
    BY FS_Subset
  <2>3. s # {}
    <3>1. /\ SumFunctionOnSet(f, {}) = 0 /\ SumFunctionOnSet(g, {}) = 0
          /\ SumFunctionOnSet(h, {}) = 0
      BY SumFirst, FS_EmptySet
    <3>2. ~Off({})
      BY <3>1
    <3> HIDE DEF Off
    <3> QED
      BY <2>2, <3>2
  <2>4. Pick(s) \in s
    BY <2>3, PickIn
  <2> DEFINE t == s \ {Pick(s)}
  <2>5. t \in SUBSET S /\ t \subseteq s /\ t # s /\ IsFiniteSet(t)
    BY <2>2, <2>4, FS_Subset
  <2>6. SumFunctionOnSet(h, t) = SumFunctionOnSet(f, t) + SumFunctionOnSet(g, t)
    BY <2>1, <2>5
  <2>7. /\ SumFunctionOnSet(h, s) = h[Pick(s)] + SumFunctionOnSet(h, t)
        /\ SumFunctionOnSet(f, s) = f[Pick(s)] + SumFunctionOnSet(f, t)
        /\ SumFunctionOnSet(g, s) = g[Pick(s)] + SumFunctionOnSet(g, t)
    BY <2>2, <2>3, SumFirst
  <2>8. SumFunctionOnSet(f, t) \in Int /\ SumFunctionOnSet(g, t) \in Int
    <3>1. \A x \in t : f[x] \in Int /\ g[x] \in Int
      BY <2>5
    <3> HIDE DEF t
    <3> QED
      BY <2>5, <3>1, SumTyped
  <2>9. /\ f[Pick(s)] \in Int /\ g[Pick(s)] \in Int
        /\ h[Pick(s)] = f[Pick(s)] + g[Pick(s)]
    BY <2>2, <2>4
  <2> HIDE DEF t
  <2> QED
    BY <2>2, <2>6, <2>7, <2>8, <2>9
<1>2. S \notin bad
  BY <1>1
<1> QED
  BY <1>2

LEMMA SumOfOpposites ==
    ASSUME NEW S, IsFiniteSet(S), NEW f, NEW g, \A x \in S : f[x] \in Int /\ g[x] = -f[x]
    PROVE  SumFunctionOnSet(g, S) = -SumFunctionOnSet(f, S)
<1> DEFINE h == [x \in S |-> 0]
<1>1. \A x \in S : g[x] \in Int /\ h[x] = f[x] + g[x]
  OBVIOUS
<1>2. SumFunctionOnSet(h, S) = SumFunctionOnSet(f, S) + SumFunctionOnSet(g, S)
  <2> HIDE DEF h
  <2> QED BY <1>1, SumOfSums
<1>3. SumFunctionOnSet(h, S) = 0
  BY SumOfZeros
<1>4. SumFunctionOnSet(f, S) \in Int /\ SumFunctionOnSet(g, S) \in Int
  BY <1>1, SumTyped
<1> QED
  BY <1>2, <1>3, <1>4

(***************************************************************************)
(* What is not above zero does not sum to more, and naturals that sum to   *)
(* zero are zeros.                                                         *)
(***************************************************************************)
LEMMA SumNotAbove ==
    ASSUME NEW S, IsFiniteSet(S), NEW f, \A x \in S : f[x] \in Int /\ f[x] <= 0
    PROVE  SumFunctionOnSet(f, S) \in Int /\ SumFunctionOnSet(f, S) <= 0
<1> DEFINE g == [x \in S |-> -f[x]]
<1>1. SumFunctionOnSet(g, S) \in Nat
  BY SumOfNaturals
<1>2. SumFunctionOnSet(g, S) = -SumFunctionOnSet(f, S)
  BY SumOfOpposites
<1>3. SumFunctionOnSet(f, S) \in Int
  BY SumTyped
<1> HIDE DEF g
<1> QED
  BY <1>1, <1>2, <1>3

LEMMA SumAbove ==
    ASSUME NEW S, IsFiniteSet(S), NEW f, \A x \in S : f[x] \in Nat, NEW e \in S
    PROVE  SumFunctionOnSet(f, S) >= f[e]
<1>1. SumFunctionOnSet(f, S) = f[e] + SumFunctionOnSet(f, S \ {e})
  BY SumTakeOut
<1>2. SumFunctionOnSet(f, S \ {e}) \in Nat
  <2>1. IsFiniteSet(S \ {e})
    BY FS_RemoveElement
  <2> QED
    BY <2>1, SumOfNaturals
<1> QED
  BY <1>1, <1>2

(***************************************************************************)
(* The elements of a set of numbers, each once.                            *)
(***************************************************************************)
LEMMA AscendingIs ==
    ASSUME NEW S \in SUBSET Nat, IsFiniteSet(S), NEW at, at = Ascending(S)
    PROVE  /\ Cardinality(S) \in Nat /\ DOMAIN at = 1 .. Cardinality(S)
           /\ \A k \in DOMAIN at : at[k] \in S
           /\ \A j, k \in DOMAIN at : at[j] = at[k] => j = k
           /\ \A x \in S : \E k \in DOMAIN at : at[k] = x
<1> DEFINE n == Cardinality(S)
           upTo(x) == {j \in S : j <= x}
           rank == [x \in S |-> Cardinality(upTo(x))]
<1>1. n \in Nat
  BY FS_CardinalityType
<1>2. IsFiniteSet(1 .. n) /\ Cardinality(1 .. n) = n
  BY <1>1, FS_Interval
<1>3. ASSUME NEW x \in S
      PROVE  IsFiniteSet(upTo(x)) /\ rank[x] \in 1 .. n
  <2>1. upTo(x) \in SUBSET S /\ x \in upTo(x)
    OBVIOUS
  <2>2. IsFiniteSet(upTo(x)) /\ Cardinality(upTo(x)) <= n
    <3> HIDE DEF upTo
    <3> QED
      BY <2>1, FS_Subset
  <2>3. Cardinality(upTo(x)) \in Nat /\ Cardinality(upTo(x)) # 0
    <3> HIDE DEF upTo
    <3> QED
      BY <2>1, <2>2, FS_CardinalityType, FS_EmptySet
  <2> HIDE DEF n
  <2> QED
    BY <1>1, <2>2, <2>3
<1>4. ASSUME NEW x \in S, NEW y \in S, x < y PROVE rank[x] # rank[y]
  <2>1. upTo(x) \in SUBSET upTo(y) /\ y \in upTo(y) /\ y \notin upTo(x)
    <3>1. x \in Nat /\ y \in Nat /\ \A j \in S : j \in Nat
      OBVIOUS
    <3>2. \A j \in S : j <= x => j <= y
      BY <1>4, <3>1
    <3>3. y <= y /\ ~(y <= x)
      BY <1>4, <3>1
    <3> QED
      BY <3>2, <3>3
  <2>2. IsFiniteSet(upTo(y))
    BY <1>3
  <2>3. Cardinality(upTo(x)) # Cardinality(upTo(y))
    <3> HIDE DEF upTo
    <3> QED
      BY <2>1, <2>2, FS_Subset
  <2> QED
    BY <2>3
<1>5. \A x, y \in S : rank[x] = rank[y] => x = y
  <2>1. ASSUME NEW x \in S, NEW y \in S, x # y PROVE rank[x] # rank[y]
    <3>1. x < y \/ y < x
      BY <2>1
    <3> HIDE DEF rank
    <3> QED
      BY <1>4, <3>1
  <2> HIDE DEF rank
  <2> QED
    BY <2>1
<1>6. rank \in Surjection(S, 1 .. n)
  <2>1. rank \in [S -> 1 .. n]
    <3>1. rank = [x \in S |-> rank[x]]
      OBVIOUS
    <3> HIDE DEF rank
    <3> QED
      BY <1>3, <3>1
  <2>2. rank \in Injection(S, 1 .. n)
    <3> HIDE DEF rank
    <3> QED
      BY <1>5, <2>1 DEF Injection, IsInjective
  <2> HIDE DEF rank
  <2> QED
    BY <1>2, <2>2, FS_Injection DEF n
<1>7. \A k \in 1 .. n : \E x \in S : rank[x] = k
  <2> HIDE DEF rank
  <2> QED
    BY <1>6 DEF Surjection
<1>8. /\ DOMAIN at = 1 .. n
      /\ \A k \in 1 .. n : at[k] = CHOOSE i \in S : Cardinality(upTo(i)) = k
  BY DEF Ascending
<1>9. ASSUME NEW k \in 1 .. n PROVE at[k] \in S /\ rank[at[k]] = k
  <2>1. \E x \in S : Cardinality(upTo(x)) = k
    BY <1>7
  <2>2. at[k] = CHOOSE i \in S : Cardinality(upTo(i)) = k
    BY <1>8
  <2>3. at[k] \in S /\ Cardinality(upTo(at[k])) = k
    <3> HIDE DEF upTo
    <3> QED
      BY <2>1, <2>2
  <2> QED
    BY <2>3
<1>10. \A x \in S : rank[x] \in 1 .. n /\ at[rank[x]] = x
  <2> HIDE DEF rank
  <2> QED
    BY <1>3, <1>5, <1>9
<1> HIDE DEF rank, n
<1>11. Cardinality(S) = n
  BY DEF n
<1> QED
  BY <1>1, <1>8, <1>9, <1>10, <1>11

(***************************************************************************)
(* Amounts capped at zero and at one another.                              *)
(***************************************************************************)
LEMMA AtLeastZero ==
    ASSUME NEW x \in Int
    PROVE  Max({0, x}) \in Nat /\ Max({0, x}) = IF x > 0 THEN x ELSE 0
<1> DEFINE S == {0, x}
           m == IF x > 0 THEN x ELSE 0
<1>1. m \in S /\ \A y \in S : m >= y
  OBVIOUS
<1>2. ASSUME NEW z \in S, \A y \in S : z >= y PROVE z = m
  BY <1>1, <1>2
<1>3. Max(S) = CHOOSE z \in S : \A y \in S : z >= y
  BY DEF Max
<1>4. Max(S) = m
  <2> HIDE DEF S, m
  <2> QED
    BY <1>1, <1>2, <1>3
<1> QED
  BY <1>4

LEMMA TheLess ==
    ASSUME NEW x \in Int, NEW y \in Int
    PROVE  /\ Min({x, y}) \in Int /\ Min({x, y}) <= x
           /\ Min({x, y}) = IF x < y THEN x ELSE y
<1> DEFINE S == {x, y}
           m == IF x < y THEN x ELSE y
<1>1. m \in S /\ \A z \in S : m <= z
  OBVIOUS
<1>2. ASSUME NEW z \in S, \A u \in S : z <= u PROVE z = m
  BY <1>1, <1>2
<1>3. Min(S) = CHOOSE z \in S : \A u \in S : z <= u
  BY DEF Min
<1>4. Min(S) = m
  <2> HIDE DEF S, m
  <2> QED
    BY <1>1, <1>2, <1>3
<1> QED
  BY <1>4

-----------------------------------------------------------------------------
(***************************************************************************)
(* Tables: a row added, a row saved.                                       *)
(***************************************************************************)
LEMMA RowAdded ==
    ASSUME NEW T, NEW table \in Seq(T), NEW r \in T
    PROVE  /\ Append(table, r) \in Seq(T)
           /\ Len(table) \in Nat /\ Len(Append(table, r)) = Len(table) + 1
           /\ DOMAIN Append(table, r) = DOMAIN table \cup {Len(table) + 1}
           /\ DOMAIN table = 1 .. Len(table) /\ Len(table) + 1 \notin DOMAIN table
           /\ \A i \in DOMAIN table : Append(table, r)[i] = table[i]
           /\ Append(table, r)[Len(table) + 1] = r
  BY AppendProperties, LenProperties

LEMMA RowSaved ==
    ASSUME NEW T, NEW table \in Seq(T), NEW i \in DOMAIN table, NEW r \in T
    PROVE  /\ [table EXCEPT ![i] = r] \in Seq(T)
           /\ DOMAIN [table EXCEPT ![i] = r] = DOMAIN table
           /\ Len([table EXCEPT ![i] = r]) = Len(table)
           /\ \A j \in DOMAIN table : [table EXCEPT ![i] = r][j] = IF j = i THEN r ELSE table[j]
  BY ExceptSeq, LenProperties

(***************************************************************************)
(* A table whose rows are all rewritten in place.                          *)
(***************************************************************************)
LEMMA RowsMapped ==
    ASSUME NEW T, NEW table \in Seq(T), NEW new, DOMAIN new = DOMAIN table, new = [i \in DOMAIN table |-> new[i]],
           \A i \in DOMAIN table : new[i] \in T
    PROVE  new \in Seq(T) /\ Len(new) = Len(table)
<1>1. Len(table) \in Nat /\ DOMAIN table = 1 .. Len(table)
  BY LenProperties
<1>2. new \in [1 .. Len(table) -> T]
  BY <1>1
<1>3. new \in Seq(T)
  BY <1>1, <1>2, SeqDef
<1>4. Len(new) \in Nat /\ DOMAIN new = 1 .. Len(new)
  BY <1>3, LenProperties
<1> QED
  BY <1>1, <1>3, <1>4
=============================================================================
