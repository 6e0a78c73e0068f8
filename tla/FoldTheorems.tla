---------------------------- MODULE FoldTheorems ----------------------------
(***************************************************************************)
(* What the proofs about the algorithms need to know of folds and of sums  *)
(* over finite sets: the community modules define them by a recursive      *)
(* function on the subsets of a set, and the provers have no induction on  *)
(* those.  A smallest counterexample takes its place.  And what they need  *)
(* to know of Lists: the places a rank lists are all of them, in order.    *)
(***************************************************************************)
EXTENDS Integers, Lists, FiniteSetsExt, FiniteSetTheorems, TLAPS

\* A set of naturals that is not empty has a least member.
LEMMA LeastOf ==
  ASSUME NEW B \in SUBSET Nat, B # {}
  PROVE  \E n \in B : \A m \in B : n <= m
<1>1. PICK n \in B : \A m \in B : <<m, n>> \notin OpToRel(<, Nat)
  BY NatLessThanWellFounded, WFMin
<1>2. \A m \in B : ~ (m < n)
  BY <1>1 DEF OpToRel
<1> QED BY <1>2

\* Of the subsets of a finite set in a set of them, one has none below it.
LEMMA SmallestSubset ==
  ASSUME NEW S, IsFiniteSet(S), NEW B \in SUBSET (SUBSET S), B # {}
  PROVE  \E s \in B : \A r \in B : r \subseteq s => r = s
<1>1. B \subseteq FiniteSubsetsOf(S)
  BY FS_FiniteSubsetsOfFinite
<1>2. PICK s \in B : \A r \in B : <<r, s>> \notin StrictSubsetOrdering(S)
  BY <1>1, FS_StrictSubsetOrderingWellFounded, WFMin
<1>3. ASSUME NEW r \in B, r \subseteq s, r # s PROVE FALSE
  BY <1>2, <1>3 DEF StrictSubsetOrdering
<1> QED BY <1>3

\* A fold over a finite set takes pick[s] off a subset s last.
Picks(S, pick) == \A s \in (SUBSET S) \ {{}} : pick[s] \in s
IsFold(S, pick, base, step, t) ==
  t = [s \in SUBSET S |-> IF s = {} THEN base ELSE step[s][t[s \ {pick[s]}]]]
\* Its values are in V if the base is and a step stays there.
Stays(S, pick, base, step, V) ==
  /\ base \in V[{}]
  /\ \A s \in (SUBSET S) \ {{}} : \A v \in V[s \ {pick[s]}] : step[s][v] \in V[s]
FoldsIn(S, pick, base, step, V, t) ==
  \A s \in SUBSET S :
    /\ s = {} => t[s] = base
    /\ s # {} /\ t[s \ {pick[s]}] \in V[s \ {pick[s]}] => t[s] = step[s][t[s \ {pick[s]}]]

LEMMA FoldStays ==
  ASSUME NEW S, IsFiniteSet(S), NEW pick, Picks(S, pick),
         NEW V, NEW base, NEW step, Stays(S, pick, base, step, V),
         NEW t, FoldsIn(S, pick, base, step, V, t)
  PROVE  \A s \in SUBSET S : t[s] \in V[s]
<1> DEFINE B == {s \in SUBSET S : t[s] \notin V[s]}
<1>1. SUFFICES ASSUME B # {} PROVE FALSE
  OBVIOUS
<1>2. B \in SUBSET (SUBSET S)
  OBVIOUS
<1>3. PICK s \in B : \A r \in B : r \subseteq s => r = s
  <2> HIDE DEF B
  <2> QED BY <1>1, <1>2, SmallestSubset
<1>4. s \in SUBSET S /\ t[s] \notin V[s]
  OBVIOUS
<1>5. s # {}
  BY <1>4 DEF Stays, FoldsIn
<1> DEFINE r == s \ {pick[s]}
<1>6. r \in SUBSET S /\ r \subseteq s /\ r # s
  BY <1>4, <1>5 DEF Picks
<1>7. r \notin B
  <2> HIDE DEF B, r
  <2> QED BY <1>3, <1>6
<1>8. t[r] \in V[r]
  BY <1>6, <1>7
<1>9. t[s] = step[s][t[r]]
  BY <1>4, <1>5, <1>8 DEF FoldsIn
<1>10. t[s] \in V[s]
  BY <1>4, <1>5, <1>8, <1>9 DEF Stays
<1> QED BY <1>4, <1>10

\* And there is such a function, for a definition to choose.
LEMMA FoldExists ==
  ASSUME NEW S, IsFiniteSet(S), NEW pick, Picks(S, pick), NEW base, NEW step
  PROVE  \E t : IsFold(S, pick, base, step, t)
<1> DEFINE D(n) == {s \in SUBSET S : Cardinality(s) <= n}
           Fold(n, h) == h = [s \in D(n) |-> IF s = {} THEN base ELSE step[s][h[s \ {pick[s]}]]]
           B == {n \in Nat : ~ \E h : Fold(n, h)}
<1>1. \A s \in SUBSET S : IsFiniteSet(s) /\ Cardinality(s) \in Nat /\ Cardinality(s) <= Cardinality(S)
  BY FS_Subset, FS_CardinalityType
<1>2. \A s \in (SUBSET S) \ {{}} : s \ {pick[s]} \in SUBSET S /\ Cardinality(s \ {pick[s]}) = Cardinality(s) - 1
  BY <1>1, FS_RemoveElement DEF Picks
<1>3. B \subseteq Nat
  OBVIOUS
<1>4. ASSUME NEW n \in B, \A m \in B : n <= m PROVE FALSE
  <2>1. CASE n = 0
    <3> DEFINE h == [s \in D(0) |-> base]
    <3>1. \A s \in D(0) : s = {}
      BY <1>1, FS_EmptySet
    <3>2. Fold(0, h)
      BY <3>1
    <3> QED BY <3>2, <2>1
  <2>2. CASE n # 0
    <3>1. n \in Nat /\ n - 1 \in Nat /\ n - 1 \notin B
      <4> HIDE DEF B
      <4> QED BY <2>2, <1>3, <1>4
    <3>2. PICK g : Fold(n - 1, g)
      BY <3>1
    <3> DEFINE h == [s \in D(n) |-> IF s = {} THEN base ELSE step[s][g[s \ {pick[s]}]]]
    <3>3. \A s \in D(n) \ {{}} : s \ {pick[s]} \in D(n - 1)
      BY <1>1, <1>2, <3>1
    <3>4. \A s \in D(n - 1) : s \in D(n) /\ g[s] = h[s]
      <4>1. \A s \in D(n - 1) : s \in D(n)
        BY <1>1, <3>1
      <4>2. \A s \in D(n - 1) : g[s] = IF s = {} THEN base ELSE step[s][g[s \ {pick[s]}]]
        <5> HIDE DEF D
        <5> QED BY <3>2
      <4>3. \A s \in D(n) : h[s] = IF s = {} THEN base ELSE step[s][g[s \ {pick[s]}]]
        <5> HIDE DEF D
        <5> QED OBVIOUS
      <4> HIDE DEF D, h
      <4> QED BY <4>1, <4>2, <4>3
    <3>5. \A s \in D(n) \ {{}} : g[s \ {pick[s]}] = h[s \ {pick[s]}]
      <4> HIDE DEF D, h
      <4> QED BY <3>3, <3>4
    <3>6. h = [s \in D(n) |-> IF s = {} THEN base ELSE step[s][h[s \ {pick[s]}]]]
      <4>1. \A s \in D(n) : (IF s = {} THEN base ELSE step[s][g[s \ {pick[s]}]])
                              = (IF s = {} THEN base ELSE step[s][h[s \ {pick[s]}]])
        <5> HIDE DEF D, h
        <5> QED BY <3>5
      <4> HIDE DEF D
      <4> QED BY <4>1
    <3> HIDE DEF h
    <3> QED BY <3>6
  <2> QED BY <2>1, <2>2
<1>5. B = {}
  <2> HIDE DEF B
  <2> QED BY <1>3, <1>4, LeastOf
<1>6. PICK h : Fold(Cardinality(S), h)
  <2>1. Cardinality(S) \in Nat
    BY FS_CardinalityType
  <2> QED BY <1>5, <2>1
<1>7. D(Cardinality(S)) = SUBSET S
  BY <1>1
<1> QED BY <1>6, <1>7 DEF IsFold

-----------------------------------------------------------------------------
(* Sums. *)

\* What holds of the empty set and, with a set, of one member more, holds of all.
LEMMA SubsetInduction ==
  ASSUME NEW S, IsFiniteSet(S), NEW P \in SUBSET (SUBSET S), {} \in P,
         \A s \in P : \A x \in S \ s : s \cup {x} \in P
  PROVE  S \in P
<1> DEFINE B == (SUBSET S) \ P
<1>1. SUFFICES ASSUME B # {} PROVE FALSE
  OBVIOUS
<1>2. PICK s \in B : \A r \in B : r \subseteq s => r = s
  <2>1. B \in SUBSET (SUBSET S)
    OBVIOUS
  <2> HIDE DEF B
  <2> QED BY <1>1, <2>1, SmallestSubset
<1>3. s # {}
  OBVIOUS
<1>4. PICK x \in s : TRUE
  BY <1>3
<1>5. s \ {x} \notin B
  <2>1. s \ {x} # s
    BY <1>4
  <2> HIDE DEF B
  <2> QED BY <1>2, <2>1
<1>6. s \ {x} \in P /\ x \in S \ (s \ {x})
  BY <1>4, <1>5
<1>7. (s \ {x}) \cup {x} = s
  BY <1>4
<1> QED BY <1>6, <1>7

\* A finite set of integers has a greatest, so that a fold of a list can pick the
\* last place of any part of it.
LEMMA MaxIn ==
  ASSUME NEW S, IsFiniteSet(S), S \subseteq Int, S # {}
  PROVE  Max(S) \in S
<1> DEFINE Has(s) == \E x \in s : \A y \in s : x >= y
           P == {s \in SUBSET S : s = {} \/ Has(s)}
<1>1. P \in SUBSET (SUBSET S) /\ {} \in P
  OBVIOUS
<1>2. ASSUME NEW s \in P, NEW x \in S \ s PROVE s \cup {x} \in P
  <2>1. s \in SUBSET S /\ x \in Int /\ \A y \in s : y \in Int
    OBVIOUS
  <2>2. CASE s = {}
    <3>1. \A y \in s \cup {x} : x >= y
      BY <2>1, <2>2
    <3> QED BY <2>1, <3>1
  <2>3. CASE s # {}
    <3>1. PICK z \in s : \A y \in s : z >= y
      BY <2>3
    <3>2. CASE x >= z
      <4>1. \A y \in s \cup {x} : x >= y
        BY <2>1, <3>1, <3>2
      <4> QED BY <2>1, <4>1
    <3>3. CASE z >= x
      <4>1. \A y \in s \cup {x} : z >= y
        BY <2>1, <3>1, <3>3
      <4> QED BY <2>1, <3>1, <4>1
    <3> QED BY <2>1, <3>1, <3>2, <3>3
  <2> QED BY <2>2, <2>3
<1>3. S \in P
  <2> HIDE DEF P
  <2> QED BY <1>1, <1>2, SubsetInduction
<1>4. Has(S)
  BY <1>3
<1> QED BY <1>4 DEF Max

LEMMA MaxPicks ==
  ASSUME NEW S, IsFiniteSet(S), S \subseteq Int
  PROVE  Picks(S, [s \in (SUBSET S) \ {{}} |-> Max(s)])
<1>1. \A s \in (SUBSET S) \ {{}} : Max(s) \in s
  BY FS_Subset, MaxIn
<1> QED BY <1>1 DEF Picks

AnyOf(s) == CHOOSE x \in s : TRUE
SumsUp(S, f, t) == t = [s \in SUBSET S |-> IF s = {} THEN 0 ELSE f[AnyOf(s)] + t[s \ {AnyOf(s)}]]

\* The partial sums of a function.
LEMMA SumTable ==
  ASSUME NEW S, IsFiniteSet(S), NEW f \in [S -> Int]
  PROVE  \E t \in [SUBSET S -> Int] : SumsUp(S, f, t)
<1> DEFINE pick == [s \in (SUBSET S) \ {{}} |-> AnyOf(s)]
           V == [s \in SUBSET S |-> Int]
           step == [s \in (SUBSET S) \ {{}} |-> [v \in Int |-> f[AnyOf(s)] + v]]
<1>1. \A s \in (SUBSET S) \ {{}} : AnyOf(s) \in s /\ pick[s] = AnyOf(s) /\ f[AnyOf(s)] \in Int
  BY DEF AnyOf
<1>2. Picks(S, pick)
  BY <1>1 DEF Picks
<1>3. \A s \in (SUBSET S) \ {{}} : \A v \in Int : step[s][v] = f[AnyOf(s)] + v
  OBVIOUS
<1>4. \A s \in SUBSET S : V[s] = Int /\ s \ {pick[s]} \in SUBSET S
  OBVIOUS
<1> HIDE DEF pick, V, step
<1>5. Stays(S, pick, 0, step, V)
  BY <1>1, <1>3, <1>4 DEF Stays
<1>6. PICK t : IsFold(S, pick, 0, step, t)
  BY <1>2, FoldExists
<1>7. FoldsIn(S, pick, 0, step, V, t)
  BY <1>6 DEF IsFold, FoldsIn
<1>8. \A s \in SUBSET S : t[s] \in Int
  BY <1>2, <1>4, <1>5, <1>7, FoldStays
<1>9. t = [s \in SUBSET S |-> IF s = {} THEN 0 ELSE f[AnyOf(s)] + t[s \ {AnyOf(s)}]]
  <2>1. \A s \in (SUBSET S) \ {{}} : step[s][t[s \ {pick[s]}]] = f[AnyOf(s)] + t[s \ {AnyOf(s)}]
    BY <1>1, <1>3, <1>4, <1>8
  <2> QED BY <1>6, <2>1 DEF IsFold
<1> QED BY <1>8, <1>9 DEF SumsUp

\* The sum of a function over a set is its entry in any such table.
LEMMA SumInTable ==
  ASSUME NEW S, IsFiniteSet(S), NEW f, NEW t, SumsUp(S, f, t), NEW s \in SUBSET S
  PROVE  SumFunctionOnSet(f, s) = t[s]
<1> DEFINE u == CHOOSE w : SumsUp(s, f, w)
           w0 == [r \in SUBSET s |-> t[r]]
<1>1. SumsUp(s, f, w0)
  <2>1. \A r \in SUBSET s : r \in SUBSET S /\ r \ {AnyOf(r)} \in SUBSET s
    OBVIOUS
  <2>2. \A r \in SUBSET s : t[r] = IF r = {} THEN 0 ELSE f[AnyOf(r)] + t[r \ {AnyOf(r)}]
    BY <2>1 DEF SumsUp
  <2> QED BY <2>1, <2>2 DEF SumsUp
<1>2. SumsUp(s, f, u)
  <2> HIDE DEF w0
  <2> QED BY <1>1
<1>3. SumFunctionOnSet(f, s) = u[s]
  BY DEF SumFunctionOnSet, FoldFunctionOnSet, MapThenFoldSet, SumsUp, AnyOf
<1> DEFINE B == {r \in SUBSET s : u[r] # t[r]}
<1> HIDE DEF u
<1>4. ASSUME NEW r \in B, \A q \in B : q \subseteq r => q = r PROVE FALSE
  <2>1. r \in SUBSET s /\ r \in SUBSET S /\ u[r] # t[r]
    OBVIOUS
  <2>2. u[r] = (IF r = {} THEN 0 ELSE f[AnyOf(r)] + u[r \ {AnyOf(r)}])
        /\ t[r] = (IF r = {} THEN 0 ELSE f[AnyOf(r)] + t[r \ {AnyOf(r)}])
    BY <1>2, <2>1 DEF SumsUp
  <2>3. r # {}
    BY <2>1, <2>2
  <2>4. AnyOf(r) \in r
    BY <2>3 DEF AnyOf
  <2>5. r \ {AnyOf(r)} \notin B
    <3>1. r \ {AnyOf(r)} # r
      BY <2>4
    <3> HIDE DEF B
    <3> QED BY <1>4, <3>1
  <2>6. u[r \ {AnyOf(r)}] = t[r \ {AnyOf(r)}]
    BY <2>1, <2>5
  <2> QED BY <2>1, <2>2, <2>3, <2>6
<1>5. B = {}
  <2>1. B \in SUBSET (SUBSET s) /\ IsFiniteSet(s)
    BY FS_Subset
  <2> HIDE DEF B
  <2> QED BY <1>4, <2>1, SmallestSubset
<1> QED BY <1>3, <1>5

\* A sum over the empty set is 0, and a member more adds its value.
LEMMA SumEmpty ==
  ASSUME NEW f
  PROVE  SumFunctionOnSet(f, {}) = 0
<1>1. SumsUp({}, f, [s \in {{}} |-> 0])
  BY DEF SumsUp
<1> QED BY <1>1, SumInTable, FS_EmptySet

LEMMA SumAdds ==
  ASSUME NEW S, IsFiniteSet(S), NEW f \in [S -> Int], NEW s \in SUBSET S, NEW x \in S \ s
  PROVE  /\ SumFunctionOnSet(f, s) \in Int
         /\ SumFunctionOnSet(f, s \cup {x}) = SumFunctionOnSet(f, s) + f[x]
<1>1. PICK t \in [SUBSET S -> Int] : SumsUp(S, f, t)
  BY SumTable
<1> DEFINE B == {r \in SUBSET S : \E y \in S \ r : t[r \cup {y}] # t[r] + f[y]}
<1>2. ASSUME NEW r \in B, \A q \in B : q \subseteq r => q = r PROVE FALSE
  <2>1. r \in SUBSET S
    OBVIOUS
  <2>2. PICK y \in S \ r : t[r \cup {y}] # t[r] + f[y]
    OBVIOUS
  <2> DEFINE ry == r \cup {y}
             z == AnyOf(ry)
             q == r \ {z}
  <2>3. z \in ry /\ ry \in SUBSET S
    BY <2>1 DEF AnyOf
  <2>4. t[ry] = f[z] + t[ry \ {z}]
    BY <1>1, <2>3 DEF SumsUp
  <2>5. \A w \in S : f[w] \in Int
    OBVIOUS
  <2>6. \A w \in SUBSET S : t[w] \in Int
    OBVIOUS
  <2>7. CASE z = y
    <3>1. ry \ {z} = r
      BY <2>2, <2>7
    <3>2. t[ry] # t[r] + f[y] /\ y \in S
      BY <2>2
    <3> HIDE DEF z, ry
    <3>3. t[r] \in Int /\ f[y] \in Int
      BY <2>1, <2>5, <2>6, <3>2
    <3>4. t[ry] = f[y] + t[r]
      BY <2>4, <2>7, <3>1, Zenon
    <3> QED BY <3>2, <3>3, <3>4
  <2>8. CASE z # y
    <3>1. z \in r /\ q \in SUBSET S /\ q # r /\ z \in S \ q /\ y \in S \ q
      BY <2>1, <2>2, <2>3, <2>8
    <3>2. q \cup {z} = r /\ ry \ {z} = q \cup {y}
      BY <2>2, <2>8, <3>1
    <3>3. q \notin B
      <4> HIDE DEF B
      <4> QED BY <1>2, <3>1
    <3> HIDE DEF q, z
    <3>4. t[q \cup {z}] = t[q] + f[z] /\ t[q \cup {y}] = t[q] + f[y]
      BY <3>1, <3>3
    <3>5. t[ry] = f[z] + (t[q] + f[y]) /\ t[r] = t[q] + f[z]
      BY <2>4, <3>2, <3>4
    <3>6. t[q] \in Int /\ f[z] \in Int /\ f[y] \in Int
      BY <2>2, <2>5, <2>6, <3>1
    <3> QED BY <2>2, <3>5, <3>6
  <2> QED BY <2>7, <2>8
<1>3. B = {}
  <2>1. B \in SUBSET (SUBSET S)
    OBVIOUS
  <2> HIDE DEF B
  <2> QED BY <1>2, <2>1, SmallestSubset
<1>4. t[s \cup {x}] = t[s] + f[x]
  BY <1>3
<1>5. s \cup {x} \in SUBSET S
  OBVIOUS
<1>6. SumFunctionOnSet(f, s) = t[s] /\ SumFunctionOnSet(f, s \cup {x}) = t[s \cup {x}]
  BY <1>1, <1>5, SumInTable
<1> QED BY <1>4, <1>6

LEMMA SumTyped ==
  ASSUME NEW S, IsFiniteSet(S), NEW f \in [S -> Int], NEW s \in SUBSET S
  PROVE  SumFunctionOnSet(f, s) \in Int
<1>1. PICK t \in [SUBSET S -> Int] : SumsUp(S, f, t)
  BY SumTable
<1>2. SumFunctionOnSet(f, s) = t[s]
  BY <1>1, SumInTable
<1> QED BY <1>2

\* The same, of all the subsets.
AddsUp(S, f) ==
  \A s \in SUBSET S :
    /\ SumFunctionOnSet(f, s) \in Int
    /\ \A x \in S \ s : SumFunctionOnSet(f, s \cup {x}) = SumFunctionOnSet(f, s) + f[x]

LEMMA SumsAddUp ==
  ASSUME NEW S, IsFiniteSet(S), NEW f \in [S -> Int]
  PROVE  AddsUp(S, f)
<1>1. \A s \in SUBSET S : SumFunctionOnSet(f, s) \in Int
  BY SumTyped
<1>2. ASSUME NEW s \in SUBSET S, NEW x \in S \ s
      PROVE  SumFunctionOnSet(f, s \cup {x}) = SumFunctionOnSet(f, s) + f[x]
  BY SumAdds
<1> QED BY <1>1, <1>2 DEF AddsUp

\* Functions that agree on a set have one sum over it.
LEMMA SumAgrees ==
  ASSUME NEW S, IsFiniteSet(S), NEW f \in [S -> Int], NEW T, IsFiniteSet(T), NEW g \in [T -> Int],
         NEW s \in SUBSET S, s \subseteq T, \A x \in s : f[x] = g[x]
  PROVE  SumFunctionOnSet(f, s) = SumFunctionOnSet(g, s)
<1> DEFINE P == {r \in SUBSET s : SumFunctionOnSet(f, r) = SumFunctionOnSet(g, r)}
<1>1. IsFiniteSet(s) /\ P \in SUBSET (SUBSET s)
  BY FS_Subset
<1>2. {} \in P
  BY SumEmpty
<1>3. ASSUME NEW r \in P, NEW x \in s \ r PROVE r \cup {x} \in P
  <2>1. r \in SUBSET S /\ r \in SUBSET T /\ x \in S \ r /\ x \in T \ r
    OBVIOUS
  <2>2. SumFunctionOnSet(f, r \cup {x}) = SumFunctionOnSet(f, r) + f[x]
    BY <2>1, SumAdds
  <2>3. SumFunctionOnSet(g, r \cup {x}) = SumFunctionOnSet(g, r) + g[x]
    BY <2>1, SumAdds
  <2> QED BY <2>2, <2>3
<1> HIDE DEF P
<1>4. s \in P
  BY <1>1, <1>2, <1>3, SubsetInduction
<1> QED BY <1>4 DEF P

\* The sum of the sums.
LEMMA SumPlus ==
  ASSUME NEW S, IsFiniteSet(S), NEW f \in [S -> Int], NEW g \in [S -> Int], NEW h \in [S -> Int],
         \A x \in S : h[x] = f[x] + g[x]
  PROVE  SumFunctionOnSet(h, S) = SumFunctionOnSet(f, S) + SumFunctionOnSet(g, S)
<1> DEFINE F(r) == SumFunctionOnSet(f, r)
           G(r) == SumFunctionOnSet(g, r)
           H(r) == SumFunctionOnSet(h, r)
           P == {r \in SUBSET S : H(r) = F(r) + G(r)}
<1>1. F({}) = 0 /\ G({}) = 0 /\ H({}) = 0
  BY SumEmpty
<1>2. AddsUp(S, f) /\ AddsUp(S, g) /\ AddsUp(S, h)
  BY SumsAddUp
<1>3. ASSUME NEW r \in P, NEW x \in S \ r PROVE r \cup {x} \in P
  <2>1. F(r) \in Int /\ F(r \cup {x}) = F(r) + f[x]
    BY <1>2 DEF AddsUp
  <2>2. G(r) \in Int /\ G(r \cup {x}) = G(r) + g[x]
    BY <1>2 DEF AddsUp
  <2>3. H(r) \in Int /\ H(r \cup {x}) = H(r) + h[x]
    BY <1>2 DEF AddsUp
  <2>4. h[x] = f[x] + g[x] /\ f[x] \in Int /\ g[x] \in Int /\ H(r) = F(r) + G(r) /\ r \cup {x} \in SUBSET S
    OBVIOUS
  <2> HIDE DEF F, G, H
  <2> QED BY <2>1, <2>2, <2>3, <2>4
<1>4. {} \in P
  BY <1>1
<1>5. P \in SUBSET (SUBSET S)
  OBVIOUS
<1> HIDE DEF P
<1>6. S \in P
  BY <1>3, <1>4, <1>5, SubsetInduction
<1> QED BY <1>6 DEF P

\* The sum over a set is that over a part and that over the rest.
LEMMA SumParts ==
  ASSUME NEW S, IsFiniteSet(S), NEW f \in [S -> Int], NEW s \in SUBSET S
  PROVE  SumFunctionOnSet(f, S) = SumFunctionOnSet(f, s) + SumFunctionOnSet(f, S \ s)
<1> DEFINE F(r) == SumFunctionOnSet(f, r)
           rest == S \ s
           P == {r \in SUBSET rest : F(s \cup r) = F(s) + F(r)}
<1>1. AddsUp(S, f)
  BY SumsAddUp
<1>2. IsFiniteSet(rest) /\ P \in SUBSET (SUBSET rest)
  BY FS_Subset
<1>3. {} \in P
  <2>1. F(s) \in Int
    BY SumTyped
  <2>2. s \cup {} = s /\ F({}) = 0
    BY SumEmpty
  <2> HIDE DEF F
  <2> QED BY <2>1, <2>2
<1>4. ASSUME NEW r \in P, NEW x \in rest \ r PROVE r \cup {x} \in P
  <2> DEFINE sr == s \cup r
  <2>1. F(r) \in Int /\ F(r \cup {x}) = F(r) + f[x]
    BY <1>1 DEF AddsUp
  <2>2. sr \in SUBSET S /\ x \in S \ sr /\ sr \cup {x} = s \cup (r \cup {x})
    OBVIOUS
  <2>3. F(sr) = F(s) + F(r) /\ f[x] \in Int /\ r \cup {x} \in SUBSET rest
    OBVIOUS
  <2> HIDE DEF sr
  <2>4. F(sr \cup {x}) = F(sr) + f[x] /\ F(s) \in Int
    BY <1>1, <2>2 DEF AddsUp
  <2> HIDE DEF F
  <2>5. F(sr \cup {x}) = F(s) + F(r \cup {x})
    BY <2>1, <2>3, <2>4
  <2> QED BY <2>2, <2>3, <2>5
<1>5. rest \in P
  <2> HIDE DEF P
  <2> QED BY <1>2, <1>3, <1>4, SubsetInduction
<1>6. s \cup rest = S
  OBVIOUS
<1> QED BY <1>5, <1>6

\* A sum is no more than its number of terms times a bound of each.
LEMMA SumBounded ==
  ASSUME NEW S, IsFiniteSet(S), NEW b \in Nat, NEW f \in [S -> Int], \A x \in S : f[x] \in 0..b
  PROVE  SumFunctionOnSet(f, S) \in 0..(Cardinality(S) * b)
<1> DEFINE F(r) == SumFunctionOnSet(f, r)
           P == {r \in SUBSET S : F(r) \in 0..(Cardinality(r) * b)}
<1>1. {} \in P
  BY SumEmpty, FS_EmptySet
<1>2. ASSUME NEW r \in P, NEW x \in S \ r PROVE r \cup {x} \in P
  <2>1. F(r \cup {x}) = F(r) + f[x]
    BY SumAdds
  <2>2. IsFiniteSet(r)
    BY FS_Subset
  <2>3. Cardinality(r) \in Nat /\ Cardinality(r \cup {x}) = Cardinality(r) + 1
    BY <2>2, FS_AddElement, FS_CardinalityType
  <2>4. F(r) \in 0..(Cardinality(r) * b) /\ f[x] \in 0..b /\ r \cup {x} \in SUBSET S
    OBVIOUS
  <2>5. ASSUME NEW c \in Nat PROVE (c + 1) * b = c * b + b /\ c * b \in Nat
    OBVIOUS
  <2> HIDE DEF F
  <2>6. F(r \cup {x}) \in 0..((Cardinality(r) + 1) * b)
    BY <2>1, <2>3, <2>4, <2>5
  <2> QED BY <2>3, <2>4, <2>6
<1>3. P \in SUBSET (SUBSET S)
  OBVIOUS
<1> HIDE DEF P
<1>4. S \in P
  BY <1>1, <1>2, <1>3, SubsetInduction
<1> QED BY <1>4 DEF P

\* What a function gives on a part of its domain sums up to the same.
Cut(f, S) == [x \in S |-> f[x]]
LEMMA SumCut ==
  ASSUME NEW T, IsFiniteSet(T), NEW f \in [T -> Int], NEW S \in SUBSET T
  PROVE  /\ IsFiniteSet(S) /\ Cut(f, S) \in [S -> Int] /\ \A x \in S : Cut(f, S)[x] = f[x]
         /\ \A s \in SUBSET S : SumFunctionOnSet(Cut(f, S), s) = SumFunctionOnSet(f, s)
<1>1. IsFiniteSet(S)
  BY FS_Subset
<1>2. Cut(f, S) \in [S -> Int] /\ \A x \in S : Cut(f, S)[x] = f[x]
  BY DEF Cut
<1>3. ASSUME NEW s \in SUBSET S PROVE SumFunctionOnSet(Cut(f, S), s) = SumFunctionOnSet(f, s)
  <2>1. s \in SUBSET T /\ s \subseteq S /\ \A x \in s : f[x] = Cut(f, S)[x]
    BY <1>2
  <2> QED BY <1>1, <1>2, <2>1, SumAgrees
<1> QED BY <1>1, <1>2, <1>3

\* A sum of naturals, and of a part of them.
LEMMA SumNat ==
  ASSUME NEW S, IsFiniteSet(S), NEW f \in [S -> Int], \A x \in S : f[x] \in Nat
  PROVE  SumFunctionOnSet(f, S) \in Nat
<1> DEFINE F(r) == SumFunctionOnSet(f, r)
           P == {r \in SUBSET S : F(r) \in Nat}
<1>1. {} \in P
  BY SumEmpty
<1>2. ASSUME NEW r \in P, NEW x \in S \ r PROVE r \cup {x} \in P
  <2>1. F(r \cup {x}) = F(r) + f[x]
    BY SumAdds
  <2>2. F(r) \in Nat /\ f[x] \in Nat /\ r \cup {x} \in SUBSET S
    OBVIOUS
  <2> HIDE DEF F
  <2> QED BY <2>1, <2>2
<1>3. P \in SUBSET (SUBSET S)
  OBVIOUS
<1> HIDE DEF P
<1>4. S \in P
  BY <1>1, <1>2, <1>3, SubsetInduction
<1> QED BY <1>4 DEF P

InParts(f, S, s) ==
  /\ SumFunctionOnSet(f, S) = SumFunctionOnSet(f, s) + SumFunctionOnSet(f, S \ s)
  /\ (\A x \in S \ s : f[x] = 0) => SumFunctionOnSet(f, S) = SumFunctionOnSet(f, s)
  /\ (\A x \in S \ s : f[x] \in Nat) => SumFunctionOnSet(f, s) <= SumFunctionOnSet(f, S)
LEMMA SumPartial ==
  ASSUME NEW T, IsFiniteSet(T), NEW f \in [T -> Int], NEW S \in SUBSET T, NEW s \in SUBSET S
  PROVE  InParts(f, S, s)
<1> DEFINE rest == S \ s
           p == Cut(f, S)
           g == Cut(f, rest)
<1>1. /\ IsFiniteSet(S) /\ p \in [S -> Int] /\ rest \in SUBSET S /\ rest \in SUBSET T /\ S \in SUBSET S
      /\ \A r \in SUBSET S : SumFunctionOnSet(p, r) = SumFunctionOnSet(f, r)
  BY SumCut
<1>2. /\ IsFiniteSet(rest) /\ g \in [rest -> Int] /\ (\A x \in rest : g[x] = f[x]) /\ rest \in SUBSET rest
      /\ \A r \in SUBSET rest : SumFunctionOnSet(g, r) = SumFunctionOnSet(f, r)
  <2> HIDE DEF rest
  <2> QED BY <1>1, SumCut
<1> HIDE DEF g, p
<1>3. SumFunctionOnSet(p, S) = SumFunctionOnSet(p, s) + SumFunctionOnSet(p, rest)
  BY <1>1, SumParts
<1> HIDE DEF rest
<1>4. SumFunctionOnSet(f, S) = SumFunctionOnSet(f, s) + SumFunctionOnSet(f, rest)
  BY <1>1, <1>3
<1>5. SumFunctionOnSet(f, s) \in Int /\ SumFunctionOnSet(f, S) \in Int
  BY SumTyped
<1>6. (\A x \in rest : f[x] \in Nat) => SumFunctionOnSet(f, rest) \in Nat
  BY <1>2, SumNat
<1>7. ASSUME \A x \in rest : f[x] = 0 PROVE SumFunctionOnSet(f, rest) = 0
  <2>1. \A x \in rest : g[x] \in 0..0
    BY <1>2, <1>7
  <2>2. SumFunctionOnSet(g, rest) \in 0..(Cardinality(rest) * 0)
    BY <1>2, <2>1, SumBounded
  <2>3. Cardinality(rest) * 0 = 0
    BY <1>2, FS_CardinalityType
  <2> QED BY <1>2, <2>2, <2>3
<1>8. (\A x \in rest : f[x] = 0) => SumFunctionOnSet(f, S) = SumFunctionOnSet(f, s)
  BY <1>4, <1>5, <1>7
<1>9. (\A x \in rest : f[x] \in Nat) => SumFunctionOnSet(f, s) <= SumFunctionOnSet(f, S)
  BY <1>4, <1>5, <1>6
<1> QED BY <1>4, <1>8, <1>9 DEF rest, InParts

\* The sum over all the members is the sum, over the groups, of each group's sum.
Group(S, key, g) == {x \in S : key[x] = g}
LEMMA SumGroups ==
  ASSUME NEW S, IsFiniteSet(S), NEW f \in [S -> Int], NEW G, IsFiniteSet(G), NEW key \in [S -> G]
  PROVE  /\ \A g \in G : SumFunctionOnSet(f, Group(S, key, g)) \in Int
         /\ SumFunctionOnSet([g \in G |-> SumFunctionOnSet(f, Group(S, key, g))], G) = SumFunctionOnSet(f, S)
<1> DEFINE F(r) == SumFunctionOnSet(f, r)
           Of(r) == {x \in S : key[x] \in r}
           h == [g \in G |-> F(Group(S, key, g))]
           H(r) == SumFunctionOnSet(h, r)
           P == {r \in SUBSET G : H(r) = F(Of(r))}
<1>1. AddsUp(S, f) /\ \A g \in G : Group(S, key, g) \in SUBSET S
  BY SumsAddUp DEF Group
<1>2. h \in [G -> Int]
  BY <1>1 DEF AddsUp
<1>3. AddsUp(G, h)
  <2> HIDE DEF h
  <2> QED BY <1>2, SumsAddUp
<1>4. {} \in P
  <2>1. Of({}) = {}
    OBVIOUS
  <2>2. F({}) = 0 /\ H({}) = 0
    BY SumEmpty
  <2> HIDE DEF F, H, Of
  <2> QED BY <2>1, <2>2
<1>5. ASSUME NEW r \in P, NEW x \in G \ r PROVE r \cup {x} \in P
  <2> DEFINE a == Of(r)
             b == Group(S, key, x)
             c == Of(r \cup {x})
  <2>1. r \in SUBSET G /\ H(r) = F(a)
    OBVIOUS
  <2>2. H(r \cup {x}) = H(r) + h[x] /\ H(r) \in Int
    BY <1>3, <2>1 DEF AddsUp
  <2>3. h[x] = F(b) /\ F(b) \in Int
    BY <1>2
  <2>4. a \in SUBSET c /\ c \in SUBSET S /\ c \ a = b
    BY <2>1 DEF Group
  <2>5. IsFiniteSet(c)
    BY <2>4, FS_Subset
  <2> DEFINE k == [y \in c |-> f[y]]
  <2>6. k \in [c -> Int] /\ c \in SUBSET c /\ b \in SUBSET c /\ b \in SUBSET S /\ a \in SUBSET S
        /\ \A y \in c : f[y] = k[y]
    BY <2>4
  <2> HIDE DEF F, H, h, a, b, c, k
  <2>7. SumFunctionOnSet(k, c) = SumFunctionOnSet(k, a) + SumFunctionOnSet(k, c \ a)
    BY <2>4, <2>5, <2>6, SumParts
  <2>8. F(c) = SumFunctionOnSet(k, c)
    BY <2>4, <2>5, <2>6, SumAgrees DEF F
  <2>9. F(a) = SumFunctionOnSet(k, a)
    BY <2>4, <2>5, <2>6, SumAgrees DEF F
  <2>10. F(b) = SumFunctionOnSet(k, b)
    BY <2>4, <2>5, <2>6, SumAgrees DEF F
  <2>11. F(c) = F(a) + F(b)
    BY <2>4, <2>7, <2>8, <2>9, <2>10
  <2>12. H(r \cup {x}) = F(c)
    BY <2>1, <2>2, <2>3, <2>11
  <2> QED BY <2>1, <2>12 DEF c
<1>6. P \in SUBSET (SUBSET G)
  OBVIOUS
<1>7. G \in P
  <2> HIDE DEF P
  <2> QED BY <1>4, <1>5, <1>6, SubsetInduction
<1>8. Of(G) = S
  OBVIOUS
<1>9. \A g \in G : F(Group(S, key, g)) \in Int
  BY <1>1 DEF AddsUp
<1> QED BY <1>7, <1>8, <1>9

\* A table that counts: where the sets of its keys come from.
Tallies(D) == UNION {[d -> Int] : d \in {e \in SUBSET D : IsFiniteSet(e)}}

\* g is the table f with n more under k.
Tallied(f, k, n, g) ==
  g = [x \in DOMAIN f \cup {k} |-> IF x # k THEN f[x] ELSE IF k \in DOMAIN f THEN f[k] + n ELSE n]

\* It sums up to n more.
LEMMA SumTally ==
  ASSUME NEW D, NEW f \in Tallies(D), NEW k \in D, NEW n \in Int, NEW g, Tallied(f, k, n, g)
  PROVE  /\ g \in Tallies(D) /\ SumFunction(f) \in Int
         /\ SumFunction(g) = SumFunction(f) + n
<1> DEFINE S == DOMAIN f
           T == S \cup {k}
           R == S \ {k}
<1>1. S \in SUBSET D /\ IsFiniteSet(S) /\ f \in [S -> Int]
  BY DEF Tallies
<1>2. T \in SUBSET D /\ IsFiniteSet(T) /\ g \in [T -> Int]
  BY <1>1, FS_AddElement DEF Tallied
<1>3. R \in SUBSET S /\ R \in SUBSET T /\ k \in T \ R /\ R \cup {k} = T /\ \A x \in R : f[x] = g[x]
  BY <1>1 DEF Tallied
<1>4. g[k] = IF k \in S THEN f[k] + n ELSE n
  BY DEF Tallied
<1>5. SumFunction(f) = SumFunctionOnSet(f, S) /\ SumFunction(g) = SumFunctionOnSet(g, T)
  BY <1>2 DEF SumFunction
<1>6. g \in Tallies(D)
  BY <1>2 DEF Tallies
<1>7. k \in S => f[k] \in Int /\ R \cup {k} = S /\ k \in S \ R
  BY <1>1
<1>8. k \notin S => R = S
  OBVIOUS
<1> HIDE DEF S, T, R
<1>9. SumFunctionOnSet(f, R) = SumFunctionOnSet(g, R)
  BY <1>1, <1>2, <1>3, SumAgrees
<1>10. SumFunctionOnSet(g, R \cup {k}) = SumFunctionOnSet(g, R) + g[k]
  BY <1>2, <1>3, SumAdds
<1>11. SumFunctionOnSet(f, R) \in Int
  BY <1>1, <1>3, SumTyped
<1>12. CASE k \in S
  <2>1. SumFunctionOnSet(f, R \cup {k}) = SumFunctionOnSet(f, R) + f[k]
    BY <1>1, <1>3, <1>7, <1>12, SumAdds
  <2>2. SumFunction(f) = SumFunctionOnSet(f, R) + f[k]
    BY <1>5, <1>7, <1>12, <2>1
  <2>3. SumFunction(g) = SumFunctionOnSet(f, R) + (f[k] + n)
    BY <1>3, <1>4, <1>5, <1>9, <1>10, <1>12
  <2>4. f[k] \in Int
    BY <1>7, <1>12
  <2> QED BY <1>6, <1>11, <2>2, <2>3, <2>4
<1>13. CASE k \notin S
  BY <1>3, <1>4, <1>5, <1>6, <1>8, <1>9, <1>10, <1>11, <1>13
<1> QED BY <1>12, <1>13

\* An empty table.
LEMMA SumNothing ==
  ASSUME NEW D
  PROVE  [x \in {} |-> 0] \in Tallies(D) /\ SumFunction([x \in {} |-> 0]) = 0
<1>1. IsFiniteSet({}) /\ {} \in SUBSET D /\ [x \in {} |-> 0] \in [{} -> Int]
  BY FS_EmptySet
<1>2. DOMAIN [x \in {} |-> 0] = {}
  OBVIOUS
<1>3. SumFunction([x \in {} |-> 0]) = SumFunctionOnSet([x \in {} |-> 0], {})
  BY <1>2 DEF SumFunction
<1> QED BY <1>1, <1>3, SumEmpty DEF Tallies

-----------------------------------------------------------------------------
(* Ranks. *)

\* A strict order of a set, as a set of pairs, and what comes before a member.
Orders(S, R) ==
  /\ \A x \in S : <<x, x>> \notin R
  /\ \A x, y, z \in S : <<x, y>> \in R /\ <<y, z>> \in R => <<x, z>> \in R
  /\ \A x, y \in S : x = y \/ <<x, y>> \in R \/ <<y, x>> \in R
Preceding(S, R, x) == {y \in S : <<y, x>> \in R}
\* A list of the members of a set in its order.
Enumerates(S, R, o) ==
  /\ o \in [1..Cardinality(S) -> S]
  /\ \A x \in S : \E n \in 1..Cardinality(S) : o[n] = x
  /\ \A m, n \in 1..Cardinality(S) : m < n <=> <<o[m], o[n]>> \in R

\* The rank of a member is a place of the set, another for each member, and the
\* order of the ranks is that of the members.
LEMMA RankOrders ==
  ASSUME NEW S, IsFiniteSet(S), NEW R, Orders(S, R), NEW x \in S
  PROVE  /\ Cardinality(Preceding(S, R, x)) \in 0..(Cardinality(S) - 1)
         /\ \A y \in S : <<y, x>> \in R => Cardinality(Preceding(S, R, y)) < Cardinality(Preceding(S, R, x))
<1> DEFINE P(z) == Preceding(S, R, z)
<1>1. ASSUME NEW z \in S
      PROVE  IsFiniteSet(P(z)) /\ Cardinality(P(z)) \in Nat /\ z \notin P(z)
  <2>1. P(z) \in SUBSET S /\ z \notin P(z)
    BY <1>1 DEF Preceding, Orders
  <2>2. IsFiniteSet(P(z))
    BY <2>1, FS_Subset
  <2> QED BY <2>1, <2>2, FS_CardinalityType
<1>2. Cardinality(P(x)) \in 0..(Cardinality(S) - 1)
  <2>1. P(x) \cup {x} \in SUBSET S
    BY DEF Preceding
  <2>2. Cardinality(P(x) \cup {x}) = Cardinality(P(x)) + 1
    BY <1>1, FS_AddElement
  <2>3. Cardinality(P(x) \cup {x}) <= Cardinality(S)
    BY <2>1, FS_Subset
  <2>4. Cardinality(S) \in Nat
    BY FS_CardinalityType
  <2> QED BY <1>1, <2>2, <2>3, <2>4
<1>3. ASSUME NEW y \in S, <<y, x>> \in R PROVE Cardinality(P(y)) < Cardinality(P(x))
  <2>1. P(y) \cup {y} \in SUBSET P(x)
    BY <1>3 DEF Preceding, Orders
  <2>2. Cardinality(P(y) \cup {y}) = Cardinality(P(y)) + 1
    BY <1>1, FS_AddElement
  <2>3. Cardinality(P(y) \cup {y}) <= Cardinality(P(x))
    BY <2>1, <1>1, FS_Subset
  <2> QED BY <1>1, <2>2, <2>3
<1> QED BY <1>2, <1>3

\* So each place has its member, and a choice by rank lists them in order.
LEMMA RankLists ==
  ASSUME NEW S, IsFiniteSet(S), NEW R, Orders(S, R), NEW o,
         o = [n \in 1..Cardinality(S) |-> CHOOSE x \in S : Cardinality(Preceding(S, R, x)) = n - 1]
  PROVE  Enumerates(S, R, o) /\ \A x \in S : o[Cardinality(Preceding(S, R, x)) + 1] = x
<1> DEFINE N == Cardinality(S)
           rank == [x \in S |-> Cardinality(Preceding(S, R, x)) + 1]
<1>1. N \in Nat /\ IsFiniteSet(1..N) /\ Cardinality(1..N) = N
  BY FS_CardinalityType, FS_Interval
<1>2. \A x \in S : Cardinality(Preceding(S, R, x)) \in 0..(N - 1)
  BY RankOrders
<1>3. rank \in [S -> 1..N]
  BY <1>1, <1>2
<1>4. \A x, y \in S : <<y, x>> \in R => rank[y] < rank[x]
  BY <1>2, RankOrders
<1>5. \A x, y \in S : rank[x] = rank[y] => x = y
  <2> SUFFICES ASSUME NEW x \in S, NEW y \in S, rank[x] = rank[y], x # y PROVE FALSE
    OBVIOUS
  <2>1. rank[x] \in Int /\ rank[y] \in Int
    BY <1>3
  <2>2. rank[x] < rank[y] \/ rank[y] < rank[x]
    BY <1>4 DEF Orders
  <2> QED BY <2>1, <2>2
<1>6. rank \in Injection(S, 1..N)
  BY <1>3, <1>5 DEF Injection, IsInjective
<1>7. rank \in Surjection(S, 1..N)
  BY <1>1, <1>6, FS_Injection
<1>8. \A n \in 1..N : \E x \in S : rank[x] = n
  BY <1>7 DEF Surjection
<1>9. \A n \in 1..N : o[n] \in S /\ rank[o[n]] = n
  <2> SUFFICES ASSUME NEW n \in 1..N PROVE o[n] \in S /\ rank[o[n]] = n
    OBVIOUS
  <2>1. PICK x \in S : rank[x] = n
    BY <1>8
  <2>2. Cardinality(Preceding(S, R, x)) = n - 1
    BY <1>2, <2>1
  <2>3. o[n] = CHOOSE z \in S : Cardinality(Preceding(S, R, z)) = n - 1
    OBVIOUS
  <2>4. o[n] \in S /\ Cardinality(Preceding(S, R, o[n])) = n - 1
    BY <2>2, <2>3
  <2> QED BY <2>4, <1>1
<1>10. \A x \in S : rank[x] \in 1..N /\ o[rank[x]] = x
  BY <1>3, <1>5, <1>9
<1>11. \A m, n \in 1..N : m < n <=> <<o[m], o[n]>> \in R
  <2> SUFFICES ASSUME NEW m \in 1..N, NEW n \in 1..N PROVE m < n <=> <<o[m], o[n]>> \in R
    OBVIOUS
  <2>1. /\ o[m] \in S /\ o[n] \in S /\ rank[o[m]] = m /\ rank[o[n]] = n
    BY <1>9
  <2>2. <<o[m], o[n]>> \in R => m < n
    BY <1>4, <2>1
  <2>3. <<o[n], o[m]>> \in R => n < m
    BY <1>4, <2>1
  <2>4. o[m] = o[n] => m = n
    BY <2>1
  <2>5. o[m] = o[n] \/ <<o[m], o[n]>> \in R \/ <<o[n], o[m]>> \in R
    BY <2>1 DEF Orders
  <2> QED BY <2>2, <2>3, <2>4, <2>5
<1>12. o \in [1..N -> S]
  BY <1>9
<1> HIDE DEF rank
<1>13. Enumerates(S, R, o)
  BY <1>10, <1>11, <1>12 DEF Enumerates
<1>14. \A x \in S : o[Cardinality(Preceding(S, R, x)) + 1] = x
  BY <1>10 DEF rank
<1> QED BY <1>13, <1>14

\* Those with fewer than `cap` before them are `cap` at most, and whoever is left
\* out comes after as many.
Foremost(S, R, cap) == {x \in S : Cardinality(Preceding(S, R, x)) < cap}
LEMMA RankCut ==
  ASSUME NEW S, IsFiniteSet(S), NEW R, Orders(S, R), NEW cap \in Nat
  PROVE  LET T == Foremost(S, R, cap) IN
         /\ Cardinality(T) <= cap
         /\ \A x \in S \ T : Cardinality(T) = cap /\ \A y \in T : <<y, x>> \in R
<1> DEFINE N == Cardinality(S)
           T == Foremost(S, R, cap)
           rank == [x \in S |-> Cardinality(Preceding(S, R, x)) + 1]
           o == [n \in 1..N |-> CHOOSE x \in S : Cardinality(Preceding(S, R, x)) = n - 1]
           m == IF N < cap THEN N ELSE cap
           f == [x \in T |-> rank[x]]
<1>1. N \in Nat /\ m \in Nat /\ m <= cap /\ m <= N
  BY FS_CardinalityType
<1>2. Enumerates(S, R, o) /\ \A x \in S : o[Cardinality(Preceding(S, R, x)) + 1] = x
  BY RankLists
<1>3. \A x \in S : rank[x] \in 1..N /\ rank[x] = Cardinality(Preceding(S, R, x)) + 1
  BY <1>1, RankOrders
<1>4. \A x \in S : o[rank[x]] = x
  BY <1>2, <1>3
<1>5. \A x \in S : x \in T <=> rank[x] <= cap
  <2>1. \A x \in S : Cardinality(Preceding(S, R, x)) \in Int
    BY RankOrders
  <2> QED BY <1>3, <2>1 DEF Foremost
<1>6. \A x \in S : x \in T <=> rank[x] \in 1..m
  BY <1>1, <1>3, <1>5
<1>7. T \in SUBSET S /\ f \in [T -> 1..m] /\ \A x \in T : f[x] = rank[x]
  BY <1>6 DEF Foremost
<1>8. \A n \in 1..N : o[n] \in S /\ rank[o[n]] = n
  <2> SUFFICES ASSUME NEW n \in 1..N PROVE o[n] \in S /\ rank[o[n]] = n
    OBVIOUS
  <2>1. o[n] \in S
    BY <1>2 DEF Enumerates
  <2> DEFINE k == rank[o[n]]
  <2>2. k \in 1..N /\ o[k] = o[n]
    BY <1>3, <1>4, <2>1
  <2> HIDE DEF k, o
  <2>3. ~ (k < n) /\ ~ (n < k)
    BY <1>2, <2>1, <2>2 DEF Enumerates, Orders
  <2>4. k = n
    BY <1>1, <2>2, <2>3
  <2> QED BY <2>1, <2>4 DEF k
<1> HIDE DEF o, rank, m, f, N, T
<1>9. f \in Bijection(T, 1..m)
  <2>1. \A x, y \in T : f[x] = f[y] => x = y
    BY <1>4, <1>7
  <2>2. ASSUME NEW n \in 1..m PROVE \E x \in T : f[x] = n
    <3>1. n \in 1..N
      BY <1>1
    <3>2. o[n] \in T /\ rank[o[n]] = n
      BY <1>6, <1>8, <3>1
    <3> QED BY <1>7, <3>2
  <2> QED BY <1>7, <2>1, <2>2 DEF Bijection, Injection, Surjection, IsInjective
<1>10. IsFiniteSet(T) /\ Cardinality(T) = m
  <2>1. IsFiniteSet(T)
    BY <1>7, FS_Subset
  <2>2. Cardinality(1..m) = m
    BY <1>1, FS_Interval
  <2>3. ExistsBijection(T, 1..m)
    BY <1>9 DEF ExistsBijection
  <2> QED BY <2>1, <2>2, <2>3, FS_Bijection
<1>11. ASSUME NEW x \in S \ T PROVE m = cap /\ \A y \in T : <<y, x>> \in R
  <2>1. rank[x] \in 1..N /\ cap < rank[x]
    BY <1>1, <1>3, <1>5
  <2>2. m = cap
    BY <1>1, <2>1 DEF m
  <2>3. ASSUME NEW y \in T PROVE <<y, x>> \in R
    <3>1. y \in S /\ rank[y] \in 1..N /\ rank[y] <= cap
      BY <1>3, <1>5, <1>7
    <3>2. rank[y] < rank[x]
      BY <1>1, <2>1, <3>1
    <3>3. <<o[rank[y]], o[rank[x]]>> \in R
      BY <1>2, <2>1, <3>1, <3>2 DEF Enumerates, N
    <3> QED BY <1>4, <3>1, <3>3
  <2> QED BY <2>2, <2>3
<1> QED BY <1>1, <1>10, <1>11 DEF T

\* The integers of a finite set, upwards.
Upwards(I) == {p \in I \X I : p[1] < p[2]}
LEMMA InTurnUp ==
  ASSUME NEW I \in SUBSET Int, IsFiniteSet(I)
  PROVE  /\ InTurn(I) \in [1..Cardinality(I) -> I]
         /\ \A i \in I : \E n \in 1..Cardinality(I) : InTurn(I)[n] = i
         /\ \A m, n \in 1..Cardinality(I) : m < n <=> InTurn(I)[m] < InTurn(I)[n]
         /\ \A i \in I : InTurn(I)[Cardinality({j \in I : j < i}) + 1] = i
<1>1. Orders(I, Upwards(I))
  BY DEF Orders, Upwards
<1>2. \A i \in I : Preceding(I, Upwards(I), i) = {j \in I : j < i}
  BY DEF Preceding, Upwards
<1>3. InTurn(I) = [n \in 1..Cardinality(I) |-> CHOOSE i \in I : Cardinality({j \in I : j < i}) = n - 1]
  BY DEF InTurn, InOrder
<1>4. InTurn(I) = [n \in 1..Cardinality(I) |-> CHOOSE i \in I : Cardinality(Preceding(I, Upwards(I), i)) = n - 1]
  <2>1. \A n : (CHOOSE i \in I : Cardinality(Preceding(I, Upwards(I), i)) = n - 1)
               = (CHOOSE i \in I : Cardinality({j \in I : j < i}) = n - 1)
    BY <1>2, Zenon
  <2> QED BY <1>3, <2>1, Zenon
<1>5. /\ Enumerates(I, Upwards(I), InTurn(I))
      /\ \A i \in I : InTurn(I)[Cardinality(Preceding(I, Upwards(I), i)) + 1] = i
  BY <1>1, <1>4, RankLists, Zenon
<1>6. \A i \in I : InTurn(I)[Cardinality({j \in I : j < i}) + 1] = i
  BY <1>2, <1>5, Zenon
<1>7. /\ InTurn(I) \in [1..Cardinality(I) -> I]
      /\ \A i \in I : \E n \in 1..Cardinality(I) : InTurn(I)[n] = i
  BY <1>5 DEF Enumerates
<1>8. \A m, n \in 1..Cardinality(I) : m < n <=> InTurn(I)[m] < InTurn(I)[n]
  <2>1. \A i, j \in I : <<i, j>> \in Upwards(I) <=> i < j
    BY DEF Upwards
  <2> QED BY <1>5, <1>7, <2>1 DEF Enumerates
<1> QED BY <1>6, <1>7, <1>8

\* The entries of a list at some places are the values there.
LEMMA EntriesOf ==
  ASSUME NEW s, NEW I \in SUBSET Int, IsFiniteSet(I)
  PROVE  /\ DOMAIN Entries(s, I) = 1..Cardinality(I)
         /\ \A n \in 1..Cardinality(I) : InTurn(I)[n] \in I /\ Entries(s, I)[n] = s[InTurn(I)[n]]
         /\ \A i \in I : \E n \in 1..Cardinality(I) : InTurn(I)[n] = i /\ Entries(s, I)[n] = s[i]
<1>1. Entries(s, I) = [n \in 1..Cardinality(I) |-> s[InTurn(I)[n]]]
  BY DEF Entries
<1>2. \A n \in 1..Cardinality(I) : InTurn(I)[n] \in I /\ Entries(s, I)[n] = s[InTurn(I)[n]]
  BY <1>1, InTurnUp
<1>3. \A i \in I : \E n \in 1..Cardinality(I) : InTurn(I)[n] = i
  BY InTurnUp
<1> QED BY <1>1, <1>2, <1>3

\* The places of a set that a rising function carries to another keep their order.
Rises(I, b, J) ==
  /\ b \in [I -> J] /\ \A j \in J : \E i \in I : b[i] = j
  /\ \A i, j \in I : i < j => b[i] < b[j]
LEMMA InTurnMoved ==
  ASSUME NEW I \in SUBSET Int, IsFiniteSet(I), NEW J \in SUBSET Int, NEW b, Rises(I, b, J)
  PROVE  /\ IsFiniteSet(J) /\ Cardinality(J) = Cardinality(I)
         /\ \A n \in 1..Cardinality(I) : InTurn(J)[n] = b[InTurn(I)[n]]
<1>1. /\ b \in [I -> J] /\ \A j \in J : \E i \in I : b[i] = j
      /\ \A i, j \in I : i < j => b[i] < b[j]
  BY DEF Rises
<1>2. \A i, j \in I : i < j <=> b[i] < b[j]
  <2> SUFFICES ASSUME NEW i \in I, NEW j \in I PROVE i < j <=> b[i] < b[j]
    OBVIOUS
  <2>1. i < j \/ j < i \/ i = j
    OBVIOUS
  <2>2. b[i] \in Int /\ b[j] \in Int
    BY <1>1
  <2> QED BY <1>1, <2>1, <2>2
<1>3. ASSUME NEW K \in SUBSET I, NEW L, L = {b[i] : i \in K} PROVE IsFiniteSet(L) /\ Cardinality(L) = Cardinality(K)
  <2> DEFINE c == [i \in K |-> b[i]]
  <2>1. c \in [K -> L] /\ \A i \in K : c[i] = b[i]
    BY <1>3
  <2>2. \A i, j \in K : c[i] = c[j] => i = j
    <3> SUFFICES ASSUME NEW i \in K, NEW j \in K, c[i] = c[j] PROVE i = j
      OBVIOUS
    <3>1. b[i] = b[j] /\ b[i] \in Int
      BY <1>1, <2>1
    <3>2. ~ (i < j) /\ ~ (j < i)
      BY <1>1, <3>1
    <3> QED BY <3>2
  <2>3. c \in Injection(K, L)
    BY <2>1, <2>2 DEF Injection, IsInjective
  <2>4. c \in Surjection(K, L)
    BY <1>3, <2>1 DEF Surjection
  <2>5. IsFiniteSet(K)
    BY FS_Subset
  <2> QED BY <2>3, <2>4, <2>5, FS_Surjection
<1>4. IsFiniteSet(J) /\ Cardinality(J) = Cardinality(I)
  <2>1. J = {b[i] : i \in I} /\ I \in SUBSET I
    BY <1>1
  <2> QED BY <1>3, <2>1
<1>5. ASSUME NEW n \in 1..Cardinality(I), NEW i \in I, i = InTurn(I)[n] PROVE InTurn(J)[n] = b[i]
  <2> DEFINE r == Cardinality({j \in I : j < i})
  <2>1. InTurn(I)[r + 1] = i
    BY InTurnUp
  <2>2. r + 1 \in 1..Cardinality(I)
    <3>1. {j \in I : j < i} \cup {i} \in SUBSET I /\ i \notin {j \in I : j < i}
      OBVIOUS
    <3>2. IsFiniteSet({j \in I : j < i}) /\ r \in Nat
      BY FS_Subset, FS_CardinalityType
    <3>3. Cardinality({j \in I : j < i} \cup {i}) = r + 1
      BY <3>1, <3>2, FS_AddElement
    <3>4. Cardinality({j \in I : j < i} \cup {i}) <= Cardinality(I) /\ Cardinality(I) \in Nat
      BY <3>1, FS_Subset, FS_CardinalityType
    <3> QED BY <3>2, <3>3, <3>4
  <2>3. r + 1 = n
    <3>1. ~ (r + 1 < n) /\ ~ (n < r + 1)
      BY <1>5, <2>1, <2>2, InTurnUp
    <3>2. r + 1 \in Int /\ n \in Int
      BY <2>2, FS_CardinalityType
    <3> HIDE DEF r
    <3> QED BY <3>1, <3>2
  <2> DEFINE k == b[i]
             L == {b[j] : j \in {x \in I : x < i}}
  <2>4. Cardinality({j \in J : j < k}) = r
    <3>1. \A j \in J : j < k => j \in L
      BY <1>1, <1>2
    <3>2. \A j \in L : j \in J /\ j < k
      BY <1>1
    <3>3. {j \in J : j < k} = L
      BY <3>1, <3>2
    <3>4. Cardinality(L) = r
      BY <1>3
    <3> QED BY <3>3, <3>4
  <2>5. k \in J
    BY <1>1
  <2> HIDE DEF k
  <2>6. InTurn(J)[Cardinality({j \in J : j < k}) + 1] = k
    BY <1>4, <2>5, InTurnUp
  <2> HIDE DEF r
  <2> QED BY <2>3, <2>4, <2>6 DEF k
<1>6. \A n \in 1..Cardinality(I) : InTurn(I)[n] \in I
  BY EntriesOf
<1> QED BY <1>4, <1>5, <1>6

\* A list moved by k places has the same entries at the places moved by k.
MovedBy(I, k) == {i + k : i \in I}
LEMMA EntriesShifted ==
  ASSUME NEW s, NEW t, NEW I \in SUBSET Int, IsFiniteSet(I), NEW k \in Int,
         NEW J, J = MovedBy(I, k), \A i \in I : t[i + k] = s[i]
  PROVE  Cardinality(J) = Cardinality(I) /\ Entries(t, J) = Entries(s, I)
<1> DEFINE b == [i \in I |-> i + k]
<1>1. J = {i + k : i \in I} /\ \A i \in I : b[i] = i + k
  BY DEF MovedBy
<1>2. J \in SUBSET Int /\ Rises(I, b, J)
  BY <1>1 DEF Rises
<1> HIDE DEF b
<1>3. Cardinality(J) = Cardinality(I) /\ \A n \in 1..Cardinality(I) : InTurn(J)[n] = b[InTurn(I)[n]]
  BY <1>2, InTurnMoved
<1>4. \A n \in 1..Cardinality(I) : t[InTurn(J)[n]] = s[InTurn(I)[n]]
  <2> SUFFICES ASSUME NEW n \in 1..Cardinality(I) PROVE t[InTurn(J)[n]] = s[InTurn(I)[n]]
    OBVIOUS
  <2>1. InTurn(I)[n] \in I
    BY EntriesOf
  <2> QED BY <1>1, <1>3, <2>1
<1> QED BY <1>3, <1>4 DEF Entries

\* In particular, where two lists agree.
LEMMA EntriesAgree ==
  ASSUME NEW s, NEW t, NEW I \in SUBSET Int, IsFiniteSet(I), \A i \in I : t[i] = s[i]
  PROVE  Entries(t, I) = Entries(s, I)
<1>1. \A n \in 1..Cardinality(I) : InTurn(I)[n] \in I
  BY InTurnUp
<1> QED BY <1>1 DEF Entries

\* Some of the entries of some of a list.
LEMMA EntriesWithin ==
  ASSUME NEW s, NEW I \in SUBSET Int, IsFiniteSet(I), NEW K \in SUBSET I,
         NEW J \in SUBSET (1..Cardinality(I)), \A n \in 1..Cardinality(I) : n \in J <=> InTurn(I)[n] \in K
  PROVE  Entries(Entries(s, I), J) = Entries(s, K)
<1> DEFINE b == [n \in J |-> InTurn(I)[n]]
<1>1. /\ InTurn(I) \in [1..Cardinality(I) -> I] /\ \A i \in I : \E n \in 1..Cardinality(I) : InTurn(I)[n] = i
      /\ \A m, n \in 1..Cardinality(I) : m < n <=> InTurn(I)[m] < InTurn(I)[n]
  BY InTurnUp
<1>2. J \in SUBSET Int /\ IsFiniteSet(J) /\ K \in SUBSET Int
  <2>1. Cardinality(I) \in Nat /\ IsFiniteSet(1..Cardinality(I))
    BY FS_CardinalityType, FS_Interval
  <2>2. IsFiniteSet(J)
    BY <2>1, FS_Subset
  <2> QED BY <2>1, <2>2
<1>3. Rises(J, b, K)
  <2>1. \A k \in K : \E n \in J : b[n] = k
    BY <1>1
  <2> QED BY <1>1, <2>1 DEF Rises
<1>4. \A n \in J : b[n] = InTurn(I)[n] /\ Entries(s, I)[n] = s[b[n]]
  BY EntriesOf
<1> HIDE DEF b
<1>5. Cardinality(K) = Cardinality(J) /\ \A n \in 1..Cardinality(J) : InTurn(K)[n] = b[InTurn(J)[n]]
  BY <1>2, <1>3, InTurnMoved
<1>6. \A n \in 1..Cardinality(J) : Entries(s, I)[InTurn(J)[n]] = s[InTurn(K)[n]]
  <2> SUFFICES ASSUME NEW n \in 1..Cardinality(J) PROVE Entries(s, I)[InTurn(J)[n]] = s[InTurn(K)[n]]
    OBVIOUS
  <2>1. InTurn(J)[n] \in J
    BY <1>2, EntriesOf
  <2> QED BY <1>4, <1>5, <2>1
<1>7. Entries(Entries(s, I), J) = [n \in 1..Cardinality(J) |-> Entries(s, I)[InTurn(J)[n]]]
  BY DEF Entries
<1>8. Entries(s, K) = [n \in 1..Cardinality(J) |-> s[InTurn(K)[n]]]
  BY <1>5 DEF Entries
<1> QED BY <1>6, <1>7, <1>8

\* Places of a list are integers, and not infinitely many.
LEMMA PlacesOf ==
  ASSUME NEW N \in Nat, NEW X \in SUBSET (1..N)
  PROVE  IsFiniteSet(X) /\ X \in SUBSET Int
<1>1. IsFiniteSet(1..N)
  BY FS_Interval
<1>2. IsFiniteSet(X)
  BY <1>1, FS_Subset
<1> QED BY <1>2

\* What Those leaves of what another Those left: J are its places there, Y in the list.
Filters(s, X, J, Y) ==
  /\ X \in SUBSET Int /\ Y \in SUBSET X /\ J \in SUBSET (DOMAIN Entries(s, X))
  /\ \A i \in X : \A n \in DOMAIN Entries(s, X) : Entries(s, X)[n] = s[i] => (n \in J <=> i \in Y)
LEMMA ThoseWithin ==
  ASSUME NEW s, NEW X, IsFiniteSet(X), NEW J, NEW Y, Filters(s, X, J, Y)
  PROVE  Entries(Entries(s, X), J) = Entries(s, Y)
<1>1. X \in SUBSET Int
  BY DEF Filters
<1>2. /\ DOMAIN Entries(s, X) = 1..Cardinality(X)
      /\ \A n \in 1..Cardinality(X) : InTurn(X)[n] \in X /\ Entries(s, X)[n] = s[InTurn(X)[n]]
  BY <1>1, EntriesOf
<1>3. \A n \in 1..Cardinality(X) : n \in J <=> InTurn(X)[n] \in Y
  BY <1>2 DEF Filters
<1>4. J \in SUBSET (1..Cardinality(X)) /\ Y \in SUBSET X
  BY <1>2 DEF Filters
<1> QED BY <1>1, <1>3, <1>4, EntriesWithin

\* A list is its own entries.
LEMMA EntriesAll ==
  ASSUME NEW N \in Nat, NEW s, DOMAIN s = 1..N, NEW V, s \in [1..N -> V]
  PROVE  Entries(s, 1..N) = s
<1>1. IsFiniteSet(1..N) /\ Cardinality(1..N) = N /\ 1..N \in SUBSET Int
  BY FS_Interval
<1>2. \A i \in 1..N : Cardinality({j \in 1..N : j < i}) = i - 1
  <2> SUFFICES ASSUME NEW i \in 1..N PROVE Cardinality({j \in 1..N : j < i}) = i - 1
    OBVIOUS
  <2>1. {j \in 1..N : j < i} = 1..(i - 1)
    OBVIOUS
  <2>2. 1 \in Int /\ i - 1 \in Int /\ Cardinality(1..(i - 1)) = IF 1 > i - 1 THEN 0 ELSE (i - 1) - 1 + 1
    BY FS_Interval
  <2>3. Cardinality({j \in 1..N : j < i}) = Cardinality(1..(i - 1))
    BY <2>1, Zenon
  <2>4. Cardinality(1..(i - 1)) = i - 1
    BY <2>2
  <2> QED BY <2>3, <2>4
<1>3. \A i \in 1..N : InTurn(1..N)[i] = i
  <2> SUFFICES ASSUME NEW i \in 1..N PROVE InTurn(1..N)[i] = i
    OBVIOUS
  <2>1. InTurn(1..N)[Cardinality({j \in 1..N : j < i}) + 1] = i
    BY <1>1, InTurnUp
  <2>2. Cardinality({j \in 1..N : j < i}) + 1 = i
    BY <1>2
  <2> QED BY <2>1, <2>2
<1> QED BY <1>1, <1>3 DEF Entries

\* A relation that orders some pairs of places and leaves the rest equal.
Weakly(D, L) ==
  /\ \A i, j \in D : <<i, j>> \in L => <<j, i>> \notin L
  /\ \A i, j, k \in D : <<i, k>> \in L => <<i, j>> \in L \/ <<j, k>> \in L
\* The order of a sort that leaves equals where they are.
Stably(D, L) == {p \in D \X D : p \in L \/ (<<p[2], p[1]>> \notin L /\ p[1] < p[2])}

LEMMA StablyOrders ==
  ASSUME NEW D \in SUBSET Int, NEW L, Weakly(D, L)
  PROVE  Orders(D, Stably(D, L))
<1>1. \A i, j \in D : <<i, j>> \in Stably(D, L) <=> <<i, j>> \in L \/ (<<j, i>> \notin L /\ i < j)
  BY DEF Stably
<1>2. \A i \in D : <<i, i>> \notin Stably(D, L)
  BY <1>1 DEF Weakly
<1>3. \A i, j \in D : i = j \/ <<i, j>> \in Stably(D, L) \/ <<j, i>> \in Stably(D, L)
  <2> SUFFICES ASSUME NEW i \in D, NEW j \in D, i # j, <<i, j>> \notin Stably(D, L), <<j, i>> \notin Stably(D, L)
               PROVE  FALSE
    OBVIOUS
  <2>1. i \in Int /\ j \in Int /\ (i < j \/ j < i)
    OBVIOUS
  <2> QED BY <1>1, <2>1
<1>4. ASSUME NEW i \in D, NEW j \in D, NEW k \in D,
             <<i, j>> \in Stably(D, L), <<j, k>> \in Stably(D, L)
      PROVE  <<i, k>> \in Stably(D, L)
  <2>1. CASE <<i, k>> \in L
    BY <1>1, <2>1
  <2>2. CASE <<i, k>> \notin L
    <3>1. <<k, i>> \notin L
      <4> SUFFICES ASSUME <<k, i>> \in L PROVE FALSE
        OBVIOUS
      <4>1. <<k, j>> \in L \/ <<j, i>> \in L
        BY DEF Weakly
      <4> QED BY <1>1, <1>4, <4>1 DEF Weakly
    <3>2. <<i, j>> \notin L \/ <<j, k>> \in L
      <4> SUFFICES ASSUME <<i, j>> \in L PROVE <<j, k>> \in L
        OBVIOUS
      <4>1. <<i, k>> \in L \/ <<k, j>> \in L
        BY DEF Weakly
      <4> QED BY <1>1, <1>4, <2>2, <4>1
    <3>3. <<i, j>> \notin L
      <4> SUFFICES ASSUME <<i, j>> \in L PROVE FALSE
        OBVIOUS
      <4>1. <<j, k>> \in L
        BY <3>2
      <4>2. <<i, k>> \in L \/ <<k, j>> \in L
        BY DEF Weakly
      <4> QED BY <2>2, <4>1, <4>2 DEF Weakly
    <3>4. <<j, k>> \notin L
      <4> SUFFICES ASSUME <<j, k>> \in L PROVE FALSE
        OBVIOUS
      <4>1. <<j, i>> \in L \/ <<i, k>> \in L
        BY DEF Weakly
      <4> QED BY <1>1, <1>4, <2>2, <3>3, <4>1
    <3>5. i < j /\ j < k
      BY <1>1, <1>4, <3>3, <3>4
    <3> QED BY <1>1, <3>1, <3>5
  <2> QED BY <2>1, <2>2
<1> QED BY <1>2, <1>3, <1>4 DEF Orders

\* What a sort does: the same entries, each once, and none before a lesser one.
IsSort(s, L, at, t) ==
  LET D == DOMAIN s IN
  /\ at \in [D -> D]
  /\ \A i \in D : \E n \in D : at[n] = i
  /\ \A m, n \in D : at[m] = at[n] => m = n
  /\ \A m, n \in D : m < n => <<at[n], at[m]>> \notin L
  /\ t = [n \in D |-> s[at[n]]]

Ranked(N, L, at) ==
  at = [n \in 1..N |-> CHOOSE i \in 1..N : Cardinality({j \in 1..N : <<j, i>> \in Stably(1..N, L)}) = n - 1]
LEMMA Sorts ==
  ASSUME NEW N \in Nat, NEW s, DOMAIN s = 1..N, NEW L, Weakly(1..N, L), NEW at, Ranked(N, L, at),
         NEW t, t = [n \in 1..N |-> s[at[n]]]
  PROVE  IsSort(s, L, at, t)
<1> DEFINE D == 1..N
           R == Stably(D, L)
<1>1. IsFiniteSet(D) /\ Cardinality(D) = N /\ D \in SUBSET Int
  BY FS_Interval
<1>2. Orders(D, R)
  BY <1>1, StablyOrders
<1>3. Enumerates(D, R, at)
  <2>1. at = [n \in 1..Cardinality(D) |-> CHOOSE i \in D : Cardinality(Preceding(D, R, i)) = n - 1]
    BY <1>1 DEF Preceding, Ranked
  <2> HIDE DEF D, R
  <2> QED BY <1>1, <1>2, <2>1, RankLists
<1>4. /\ at \in [D -> D] /\ \A i \in D : \E n \in D : at[n] = i
      /\ \A m, n \in D : m < n <=> <<at[m], at[n]>> \in R
  BY <1>1, <1>3 DEF Enumerates
<1>5. \A m, n \in D : at[m] = at[n] => m = n
  <2> SUFFICES ASSUME NEW m \in D, NEW n \in D, at[m] = at[n] PROVE m = n
    OBVIOUS
  <2>1. at[m] \in D /\ <<at[m], at[m]>> \notin R
    BY <1>2, <1>4 DEF Orders
  <2>2. ~ (m < n) /\ ~ (n < m)
    BY <1>4, <2>1
  <2> QED BY <2>2
<1>6. \A m, n \in D : m < n => <<at[n], at[m]>> \notin L
  <2> SUFFICES ASSUME NEW m \in D, NEW n \in D, m < n, <<at[n], at[m]>> \in L PROVE FALSE
    OBVIOUS
  <2>1. at[m] \in D /\ at[n] \in D /\ <<at[m], at[n]>> \in R
    BY <1>4
  <2>2. \A i, j \in D : <<i, j>> \in R /\ <<j, i>> \in L => <<i, j>> \in L
    BY DEF Stably
  <2>3. <<at[m], at[n]>> \in L
    BY <2>1, <2>2
  <2> QED BY <2>1, <2>3 DEF Weakly
<1> HIDE DEF R
<1> QED BY <1>4, <1>5, <1>6 DEF IsSort

\* Some list of a finite set has each member once.
LEMMA SomeList ==
  ASSUME NEW S, IsFiniteSet(S)
  PROVE  /\ \E g \in [1..Cardinality(S) -> S] : IsInjective(g)
         /\ \A g \in [1..Cardinality(S) -> S] : IsInjective(g) => \A x \in S : \E n \in 1..Cardinality(S) : g[n] = x
<1> DEFINE N == Cardinality(S)
<1>1. N \in Nat /\ ExistsBijection(1..N, S) /\ IsFiniteSet(1..N) /\ Cardinality(1..N) = N
  BY FS_CardinalityType, FS_Interval
<1>2. \E g \in [1..N -> S] : IsInjective(g)
  BY <1>1 DEF ExistsBijection, Bijection, Injection
<1>3. ASSUME NEW g \in [1..N -> S], IsInjective(g) PROVE \A x \in S : \E n \in 1..N : g[n] = x
  <2>1. g \in Injection(1..N, S)
    BY <1>3 DEF Injection
  <2>2. g \in Surjection(1..N, S)
    BY <1>1, <2>1, FS_Injection
  <2> QED BY <2>2 DEF Surjection
<1> QED BY <1>2, <1>3

\* A sum does not ask what its members are called.
Renames(S, f, T, g, b) ==
  /\ b \in [T -> S] /\ \A x \in S : \E y \in T : b[y] = x
  /\ \A x, y \in T : b[x] = b[y] => x = y
  /\ \A y \in T : g[y] = f[b[y]]
LEMMA SumRenamed ==
  ASSUME NEW S, IsFiniteSet(S), NEW f \in [S -> Int], NEW T, IsFiniteSet(T), NEW g \in [T -> Int],
         NEW b, Renames(S, f, T, g, b)
  PROVE  SumFunctionOnSet(g, T) = SumFunctionOnSet(f, S)
<1>0. /\ b \in [T -> S] /\ \A x \in S : \E y \in T : b[y] = x
      /\ \A x, y \in T : b[x] = b[y] => x = y
      /\ \A y \in T : g[y] = f[b[y]]
  BY DEF Renames
<1>1. SumFunctionOnSet([x \in S |-> SumFunctionOnSet(g, Group(T, b, x))], S) = SumFunctionOnSet(g, T)
  BY <1>0, SumGroups
<1>2. ASSUME NEW x \in S PROVE SumFunctionOnSet(g, Group(T, b, x)) = f[x]
  <2>1. PICK y \in T : b[y] = x
    BY <1>0
  <2>2. Group(T, b, x) = {} \cup {y} /\ y \in T \ {} /\ {} \in SUBSET T
    BY <1>0, <2>1 DEF Group
  <2>3. AddsUp(T, g)
    BY SumsAddUp
  <2>4. SumFunctionOnSet(g, {} \cup {y}) = SumFunctionOnSet(g, {}) + g[y]
    BY <2>2, <2>3 DEF AddsUp
  <2>5. SumFunctionOnSet(g, {}) = 0
    BY SumEmpty
  <2> QED BY <1>0, <2>1, <2>2, <2>4, <2>5
<1>3. [x \in S |-> SumFunctionOnSet(g, Group(T, b, x))] = f
  BY <1>2
<1> QED BY <1>1, <1>3

\* The values on a finite set are finitely many.
AllKeys(X, key, G) == G = {key[i] : i \in X}
LEMMA ValuesFinite ==
  ASSUME NEW X, IsFiniteSet(X), NEW key, NEW G, AllKeys(X, key, G)
  PROVE  IsFiniteSet(G)
<1> DEFINE b == [i \in X |-> key[i]]
<1>1. b \in Surjection(X, G)
  BY DEF Surjection, AllKeys
<1> QED BY <1>1, FS_Surjection

\* A part of what is summed, by a key.
SumsByKey(f, X, key, G, h) == AllKeys(X, key, G) /\ h = [g \in G |-> SumFunctionOnSet(f, {i \in X : key[i] = g})]
SameSum(f, X, h, G) == IsFiniteSet(G) /\ h \in [G -> Int] /\ SumFunctionOnSet(h, G) = SumFunctionOnSet(f, X)
LEMMA SumByKey ==
  ASSUME NEW T, IsFiniteSet(T), NEW f \in [T -> Int], NEW X \in SUBSET T, NEW key, NEW G, NEW h, SumsByKey(f, X, key, G, h)
  PROVE  SameSum(f, X, h, G)
<1> DEFINE p == Cut(f, X)
           k == [i \in X |-> key[i]]
           hh == [g \in G |-> SumFunctionOnSet(p, Group(X, k, g))]
<1>1. /\ IsFiniteSet(X) /\ p \in [X -> Int] /\ X \in SUBSET X
      /\ \A s \in SUBSET X : SumFunctionOnSet(p, s) = SumFunctionOnSet(f, s)
  BY SumCut
<1>2. IsFiniteSet(G)
  BY <1>1, ValuesFinite DEF SumsByKey
<1>3. k \in [X -> G] /\ \A g \in G : Group(X, k, g) = {i \in X : key[i] = g}
  BY DEF Group, SumsByKey, AllKeys
<1> HIDE DEF p, k
<1>4. /\ \A g \in G : SumFunctionOnSet(p, Group(X, k, g)) \in Int
      /\ SumFunctionOnSet(hh, G) = SumFunctionOnSet(p, X)
  BY <1>1, <1>2, <1>3, SumGroups
<1>5. \A g \in G : SumFunctionOnSet(p, Group(X, k, g)) = SumFunctionOnSet(f, {i \in X : key[i] = g})
  <2> SUFFICES ASSUME NEW g \in G PROVE SumFunctionOnSet(p, Group(X, k, g)) = SumFunctionOnSet(f, {i \in X : key[i] = g})
    OBVIOUS
  <2> DEFINE s == {i \in X : key[i] = g}
  <2>1. s \in SUBSET X
    OBVIOUS
  <2> HIDE DEF s
  <2>2. SumFunctionOnSet(p, s) = SumFunctionOnSet(f, s)
    BY <1>1, <2>1
  <2>3. Group(X, k, g) = s
    BY <1>3 DEF s
  <2> QED BY <2>2, <2>3 DEF s
<1>6. h = hh /\ h \in [G -> Int]
  BY <1>4, <1>5 DEF SumsByKey
<1> HIDE DEF hh
<1> QED BY <1>1, <1>2, <1>4, <1>6 DEF SameSum

\* Nor whether it runs over a list's places or over those of a part of the list.
LEMMA SumEntries ==
  ASSUME NEW I \in SUBSET Int, IsFiniteSet(I), NEW f \in [I -> Int]
  PROVE  SumFunctionOnSet([n \in 1..Cardinality(I) |-> f[InTurn(I)[n]]], 1..Cardinality(I)) = SumFunctionOnSet(f, I)
<1> DEFINE N == Cardinality(I)
           g == [n \in 1..N |-> f[InTurn(I)[n]]]
<1>1. N \in Nat /\ IsFiniteSet(1..N)
  BY FS_CardinalityType, FS_Interval
<1>2. InTurn(I) \in [1..N -> I] /\ \A x \in I : \E n \in 1..N : InTurn(I)[n] = x
  BY InTurnUp
<1>3. \A m, n \in 1..N : InTurn(I)[m] = InTurn(I)[n] => m = n
  <2> SUFFICES ASSUME NEW m \in 1..N, NEW n \in 1..N, InTurn(I)[m] = InTurn(I)[n] PROVE m = n
    OBVIOUS
  <2>1. \A i, j \in 1..N : i < j <=> InTurn(I)[i] < InTurn(I)[j]
    BY InTurnUp
  <2>2. InTurn(I)[m] \in Int
    BY <1>2
  <2>3. ~ (m < n) /\ ~ (n < m)
    BY <2>1, <2>2
  <2> QED BY <1>1, <2>3
<1>4. g \in [1..N -> Int] /\ \A n \in 1..N : g[n] = f[InTurn(I)[n]]
  BY <1>2
<1>5. Renames(I, f, 1..N, g, InTurn(I))
  BY <1>2, <1>3, <1>4 DEF Renames
<1> HIDE DEF g, N
<1>6. SumFunctionOnSet(g, 1..N) = SumFunctionOnSet(f, I)
  BY <1>1, <1>4, <1>5, SumRenamed
<1> QED BY <1>6 DEF g, N

\* sorted() of numbers never goes down, and has only what it sorts.
LEMMA SortedUp ==
  ASSUME NEW N \in Nat, NEW s \in [1..N -> Int]
  PROVE  /\ Sorted(s, <) \in [1..N -> Int]
         /\ \A m, n \in 1..N : m <= n => Sorted(s, <)[m] <= Sorted(s, <)[n]
         /\ \A n \in 1..N : \E i \in 1..N : Sorted(s, <)[n] = s[i]
<1> DEFINE D == 1..N
           L == {p \in D \X D : s[p[1]] < s[p[2]]}
           last(n) == CHOOSE i \in D : Cardinality({j \in D : <<j, i>> \in Stably(D, L)}) = n - 1
           first(E, n) == CHOOSE i \in E : Cardinality({j \in E : s[j] < s[i] \/ (~ (s[i] < s[j]) /\ j < i)}) = n - 1
           at == [n \in D |-> last(n)]
           ranks(E) == [n \in 1..Cardinality(E) |-> first(E, n)]
           t == [n \in D |-> s[at[n]]]
<1>1. Sorted(s, <) = [n \in DOMAIN s |-> s[ranks(DOMAIN s)[n]]]
  BY Zenon DEF Sorted, InOrder
<1>2. DOMAIN s = D /\ Cardinality(D) = N
  BY FS_Interval
<1>3. \A i, j \in D : <<i, j>> \in L <=> s[i] < s[j]
  OBVIOUS
<1>4. \A i \in D : {j \in D : s[j] < s[i] \/ (~ (s[i] < s[j]) /\ j < i)} = {j \in D : <<j, i>> \in Stably(D, L)}
  BY <1>3 DEF Stably
<1>5. \A n : first(D, n) = last(n)
  BY <1>4, Zenon
<1>6. Sorted(s, <) = t
  <2>1. ranks(D) = at
    <3>1. ranks(D) = [n \in 1..Cardinality(D) |-> first(D, n)]
      OBVIOUS
    <3> HIDE DEF ranks, first, last
    <3> QED BY <1>2, <1>5, <3>1
  <2> HIDE DEF ranks, at
  <2> QED BY <1>1, <1>2, <2>1
<1>7. Weakly(D, L)
  <2> SUFFICES /\ \A i, j \in D : s[i] < s[j] => ~ (s[j] < s[i])
               /\ \A i, j, k \in D : s[i] < s[k] => s[i] < s[j] \/ s[j] < s[k]
    BY <1>3 DEF Weakly
  <2>1. \A i \in D : s[i] \in Int
    OBVIOUS
  <2> QED BY <2>1
<1>8. IsSort(s, L, at, t)
  <2>1. Ranked(N, L, at)
    BY DEF Ranked
  <2>2. t = [n \in 1..N |-> s[at[n]]]
    OBVIOUS
  <2> HIDE DEF L, at, t
  <2> QED BY <1>2, <1>7, <2>1, <2>2, Sorts
<1>9. /\ at \in [D -> D] /\ \A m, n \in D : m < n => ~ (s[at[n]] < s[at[m]])
      /\ \A n \in D : t[n] = s[at[n]] /\ s[at[n]] \in Int
  <2> HIDE DEF at, L, t
  <2> QED BY <1>2, <1>3, <1>8 DEF IsSort
<1> HIDE DEF at, L
<1>10. \A m, n \in D : m <= n => t[m] <= t[n]
  <2> SUFFICES ASSUME NEW m \in D, NEW n \in D, m <= n PROVE t[m] <= t[n]
    OBVIOUS
  <2>1. m = n \/ m < n
    OBVIOUS
  <2>2. t[m] = s[at[m]] /\ t[n] = s[at[n]] /\ s[at[m]] \in Int /\ s[at[n]] \in Int
    BY <1>9
  <2>3. m < n => ~ (s[at[n]] < s[at[m]])
    BY <1>9
  <2> HIDE DEF t
  <2>4. m = n => t[m] = t[n]
    OBVIOUS
  <2> QED BY <2>1, <2>2, <2>3, <2>4
<1>11. t \in [D -> Int] /\ \A n \in D : at[n] \in D
  BY <1>9
<1> QED BY <1>6, <1>9, <1>10, <1>11

\* A sum of ones counts.
LEMMA SumOnes ==
  ASSUME NEW S, IsFiniteSet(S), NEW f \in [S -> Int], \A x \in S : f[x] = 1, NEW s \in SUBSET S
  PROVE  SumFunctionOnSet(f, s) = Cardinality(s)
<1> DEFINE P == {r \in SUBSET s : SumFunctionOnSet(f, r) = Cardinality(r)}
<1>1. IsFiniteSet(s)
  BY FS_Subset
<1>2. AddsUp(S, f)
  BY SumsAddUp
<1>3. {} \in P
  BY SumEmpty, FS_EmptySet
<1>4. ASSUME NEW r \in P, NEW x \in s \ r PROVE r \cup {x} \in P
  <2>1. r \in SUBSET s /\ r \in SUBSET S /\ x \in S \ r /\ SumFunctionOnSet(f, r) = Cardinality(r) /\ f[x] = 1
    OBVIOUS
  <2>2. IsFiniteSet(r) /\ Cardinality(r) \in Nat /\ Cardinality(r \cup {x}) = Cardinality(r) + 1
    BY <1>1, <2>1, FS_Subset, FS_AddElement, FS_CardinalityType
  <2>3. SumFunctionOnSet(f, r \cup {x}) = SumFunctionOnSet(f, r) + f[x]
    BY <1>2, <2>1 DEF AddsUp
  <2>4. SumFunctionOnSet(f, r \cup {x}) = Cardinality(r \cup {x})
    BY <2>1, <2>2, <2>3
  <2> QED BY <2>1, <2>4
<1>5. s \in P
  <2> HIDE DEF P
  <2>1. P \in SUBSET (SUBSET s)
    BY DEF P
  <2> QED BY <1>1, <1>3, <1>4, <2>1, SubsetInduction
<1> QED BY <1>5

=============================================================================
