------------------------------ MODULE SumProofs -----------------------------
(***************************************************************************)
(* Sums of natural numbers over finite sets.  The meters of the gateway    *)
(* (keyState in limits.go) are compared with what their requests hold and  *)
(* were charged, which the models add up with the fold of the community    *)
(* modules.  That fold is a recursive function; here it is shown to count  *)
(* the cells of a diagram with a column of f[x] cells for each x, and the  *)
(* laws of addition follow from counting.                                  *)
(***************************************************************************)
EXTENDS Integers, Functions, FiniteSetTheorems, WellFoundedInduction, TLAPS

\* The sum the models use (SumOver and Tokens of Limiter, Total of AudioCalls).
SumOn(f, S) == FoldFunctionOnSet(LAMBDA a, b : a + b, 0, f, S)

\* A column of f[x] cells for each x of S.
Cells(f, S) == UNION {{x} \X (1..f[x]) : x \in S}

NatOn(f, S) == \A x \in S : f[x] \in Nat

(***************************************************************************)
(* Induction over the subsets of a finite set, as the existence of a       *)
(* minimal counterexample.                                                 *)
(***************************************************************************)
LEMMA MinimalSubset ==
    ASSUME NEW S, IsFiniteSet(S), NEW B \in SUBSET SUBSET S, B # {}
    PROVE  \E m \in B : \A t \in B : t \subseteq m => t = m
<1>1. B \subseteq FiniteSubsetsOf(S)
  BY FS_Subset DEF FiniteSubsetsOf
<1>2. IsWellFoundedOn(StrictSubsetOrdering(S), FiniteSubsetsOf(S))
  BY FS_StrictSubsetOrderingWellFounded
<1>3. PICK m \in B : \A t \in B : <<t, m>> \notin StrictSubsetOrdering(S)
  BY <1>1, <1>2, WFMin
<1>4. ASSUME NEW t \in B, t \subseteq m, t # m
      PROVE  FALSE
  BY <1>3, <1>4 DEF StrictSubsetOrdering
<1> QED
  BY <1>3, <1>4

\* The diagram is finite.
LEMMA CellsFinite ==
    ASSUME NEW S, IsFiniteSet(S), NEW f, NatOn(f, S)
    PROVE  IsFiniteSet(Cells(f, S)) /\ Cardinality(Cells(f, S)) \in Nat
<1> DEFINE col == [x \in S |-> {x} \X (1..f[x])]
           Cols == {{x} \X (1..f[x]) : x \in S}
<1>1. col \in Surjection(S, Cols)
  BY DEF Surjection
<1>2. IsFiniteSet(Cols)
  BY <1>1, FS_Surjection
<1>3. ASSUME NEW x \in S PROVE IsFiniteSet({x} \X (1..f[x]))
  <2>0. f[x] \in Int
    BY DEF NatOn
  <2>1. f[x] \in Int /\ IsFiniteSet({x})
    BY <2>0, FS_Singleton
  <2>2. IsFiniteSet(1..f[x])
    BY <2>1, FS_Interval
  <2> QED
    BY <2>1, <2>2, FS_Product
<1>4. \A T \in Cols : IsFiniteSet(T)
  BY <1>3
<1> QED
  BY <1>2, <1>4, FS_UNION, FS_CardinalityType DEF Cells

\* The column of x alone has f[x] cells.
LEMMA ColumnCount ==
    ASSUME NEW f, NEW x, f[x] \in Nat
    PROVE  Cardinality(Cells(f, {x})) = f[x]
<1>1. Cells(f, {x}) = {x} \X (1..f[x])
  BY DEF Cells
<1>2. IsFiniteSet({x}) /\ Cardinality({x}) = 1
  BY FS_Singleton
<1>3. IsFiniteSet(1..f[x]) /\ Cardinality(1..f[x]) = f[x]
  BY FS_Interval
<1>4. Cardinality({x} \X (1..f[x])) = Cardinality({x}) * Cardinality(1..f[x])
  BY <1>2, <1>3, FS_Product
<1>5. 1 * f[x] = f[x]
  OBVIOUS
<1>6. Cardinality(Cells(f, {x})) = Cardinality({x} \X (1..f[x]))
  BY <1>1, Zenon
<1> QED
  BY <1>2, <1>3, <1>4, <1>5, <1>6, Zenon

\* The diagrams of disjoint sets are disjoint and make up that of the union.
LEMMA CellsDisjoint ==
    ASSUME NEW S, NEW T, IsFiniteSet(S), IsFiniteSet(T), S \cap T = {},
           NEW f, NatOn(f, S), NatOn(f, T)
    PROVE  Cardinality(Cells(f, S \cup T))
             = Cardinality(Cells(f, S)) + Cardinality(Cells(f, T))
<1>1. Cells(f, S \cup T) = Cells(f, S) \cup Cells(f, T)
  BY DEF Cells
<1>2. Cells(f, S) \cap Cells(f, T) = {}
  BY DEF Cells
<1>3. /\ IsFiniteSet(Cells(f, S)) /\ Cardinality(Cells(f, S)) \in Nat
      /\ IsFiniteSet(Cells(f, T)) /\ Cardinality(Cells(f, T)) \in Nat
  BY CellsFinite
<1>4. Cardinality(Cells(f, S) \cap Cells(f, T)) = 0
  BY <1>2, FS_EmptySet
<1>5. Cardinality(Cells(f, S) \cup Cells(f, T))
        = Cardinality(Cells(f, S)) + Cardinality(Cells(f, T))
            - Cardinality(Cells(f, S) \cap Cells(f, T))
  BY <1>3, FS_Union
<1>6. Cardinality(Cells(f, S \cup T)) = Cardinality(Cells(f, S) \cup Cells(f, T))
  BY <1>1, Zenon
<1> QED
  BY <1>3, <1>4, <1>5, <1>6

-----------------------------------------------------------------------------
(***************************************************************************)
(* The fold counts the cells.  Its function is chosen to satisfy a         *)
(* recursive equation: counting cells satisfies it, so one that does       *)
(* exists, and it agrees with the count on every subset.                   *)
(***************************************************************************)
Some(s) == CHOOSE x \in s : TRUE
SumStep(f, g, s) == IF s = {} THEN 0 ELSE f[Some(s)] + g[s \ {Some(s)}]
Folder(f, S) == CHOOSE g : g = [s \in SUBSET S |-> SumStep(f, g, s)]

\* What the fold of the community modules computes, in these terms.
LEMMA FoldIsFolder ==
    ASSUME NEW f, NEW S
    PROVE  SumOn(f, S) = Folder(f, S)[S]
BY DEF SumOn, FoldFunctionOnSet, MapThenFoldSet, Folder, SumStep, Some

\* Counting cells satisfies the fold's equation at every subset.
LEMMA CellsFold ==
    ASSUME NEW S, IsFiniteSet(S), NEW f, NatOn(f, S), NEW s \in SUBSET S, s # {}
    PROVE  /\ Some(s) \in s
           /\ Cardinality(Cells(f, s)) = f[Some(s)] + Cardinality(Cells(f, s \ {Some(s)}))
<1> DEFINE x == Some(s)
           r == s \ {x}
<1>1. x \in s
  BY DEF Some
<1> HIDE DEF x
<1>2. f[x] \in Nat /\ NatOn(f, {x}) /\ NatOn(f, r)
  BY <1>1 DEF NatOn
<1>3. IsFiniteSet({x}) /\ IsFiniteSet(r)
  BY FS_Singleton, FS_Subset, r \in SUBSET S
<1>4. s = {x} \cup r /\ {x} \cap r = {}
  BY <1>1
<1>5. Cardinality(Cells(f, {x} \cup r)) = Cardinality(Cells(f, {x})) + Cardinality(Cells(f, r))
  BY <1>2, <1>3, <1>4, CellsDisjoint
<1>6. Cardinality(Cells(f, {x})) = f[x]
  BY <1>2, ColumnCount
<1>7. Cardinality(Cells(f, s)) = f[x] + Cardinality(Cells(f, r))
  BY <1>4, <1>5, <1>6, Zenon
<1> QED
  BY <1>1, <1>7 DEF x

\* The fold's function satisfies its equation.
LEMMA FolderEquation ==
    ASSUME NEW S, IsFiniteSet(S), NEW f, NatOn(f, S)
    PROVE  Folder(f, S) = [s \in SUBSET S |-> SumStep(f, Folder(f, S), s)]
<1> DEFINE g == [s \in SUBSET S |-> Cardinality(Cells(f, s))]
<1>1. ASSUME NEW s \in SUBSET S
      PROVE  Cardinality(Cells(f, s)) = SumStep(f, g, s)
  <2>1. CASE s = {}
    <3>1. Cells(f, s) = {}
      BY <2>1 DEF Cells
    <3> QED
      BY <2>1, <3>1, FS_EmptySet DEF SumStep
  <2>2. CASE s # {}
    <3>1. /\ Some(s) \in s
          /\ Cardinality(Cells(f, s)) = f[Some(s)] + Cardinality(Cells(f, s \ {Some(s)}))
      BY <2>2, CellsFold
    <3>2. s \ {Some(s)} \in SUBSET S
      OBVIOUS
    <3>3. g[s \ {Some(s)}] = Cardinality(Cells(f, s \ {Some(s)}))
      BY <3>2
    <3> QED
      BY <2>2, <3>1, <3>3 DEF SumStep
  <2> QED
    BY <2>1, <2>2
<1>2. g = [s \in SUBSET S |-> SumStep(f, g, s)]
  BY <1>1
<1> HIDE DEF g
<1>3. \E h : h = [s \in SUBSET S |-> SumStep(f, h, s)]
  BY <1>2
<1> QED
  BY <1>3 DEF Folder

\* The sum is the number of cells: so whatever the order of the fold.
LEMMA SumIsCells ==
    ASSUME NEW S, IsFiniteSet(S), NEW f, NatOn(f, S)
    PROVE  SumOn(f, S) = Cardinality(Cells(f, S))
<1> DEFINE h == Folder(f, S)
           B == {s \in SUBSET S : h[s] # Cardinality(Cells(f, s))}
<1>1. h = [s \in SUBSET S |-> SumStep(f, h, s)]
  BY FolderEquation
<1> HIDE DEF h
<1>2. ASSUME B # {} PROVE FALSE
  <2>1. PICK m \in B : \A t \in B : t \subseteq m => t = m
    <3>1. B \in SUBSET SUBSET S
      OBVIOUS
    <3> HIDE DEF B
    <3> QED
      BY <1>2, <3>1, MinimalSubset
  <2>2. m \in SUBSET S /\ h[m] # Cardinality(Cells(f, m)) /\ h[m] = SumStep(f, h, m)
    BY <1>1
  <2>3. m # {}
    <3> SUFFICES ASSUME m = {} PROVE FALSE
      OBVIOUS
    <3>1. Cells(f, m) = {}
      BY DEF Cells
    <3> QED
      BY <2>2, <3>1, FS_EmptySet DEF SumStep
  <2>4. /\ Some(m) \in m
        /\ Cardinality(Cells(f, m)) = f[Some(m)] + Cardinality(Cells(f, m \ {Some(m)}))
    BY <2>2, <2>3, CellsFold
  <2>5. m \ {Some(m)} \in SUBSET S /\ m \ {Some(m)} # m
    BY <2>4
  <2>6. h[m \ {Some(m)}] = Cardinality(Cells(f, m \ {Some(m)}))
    BY <2>1, <2>5
  <2> QED
    BY <2>2, <2>3, <2>4, <2>6 DEF SumStep
<1>3. h[S] = Cardinality(Cells(f, S))
  BY <1>2
<1> QED
  BY <1>3, FoldIsFolder DEF h

-----------------------------------------------------------------------------
(* The laws of addition. *)

\* A sum of natural numbers is one.
LEMMA SumType ==
    ASSUME NEW S, IsFiniteSet(S), NEW f, NatOn(f, S)
    PROVE  SumOn(f, S) \in Nat
BY SumIsCells, CellsFinite

\* Nothing adds up to zero.
LEMMA SumEmpty ==
    ASSUME NEW f
    PROVE  SumOn(f, {}) = 0
<1>1. Cells(f, {}) = {} /\ NatOn(f, {}) /\ IsFiniteSet({})
  BY FS_EmptySet DEF Cells, NatOn
<1>2. SumOn(f, {}) = Cardinality(Cells(f, {}))
  BY <1>1, SumIsCells
<1> QED
  BY <1>1, <1>2, FS_EmptySet

\* Zeros add up to zero.
LEMMA SumZero ==
    ASSUME NEW S, IsFiniteSet(S), NEW f, \A x \in S : f[x] = 0
    PROVE  SumOn(f, S) = 0
<1>1. NatOn(f, S)
  BY DEF NatOn
<1>2. Cells(f, S) = {}
  BY DEF Cells
<1> QED
  BY <1>1, <1>2, SumIsCells, FS_EmptySet

\* Sums over disjoint sets add up.
LEMMA SumDisjoint ==
    ASSUME NEW S, NEW T, IsFiniteSet(S), IsFiniteSet(T), S \cap T = {},
           NEW f, NatOn(f, S), NatOn(f, T)
    PROVE  SumOn(f, S \cup T) = SumOn(f, S) + SumOn(f, T)
<1>1. IsFiniteSet(S \cup T) /\ NatOn(f, S \cup T)
  BY FS_Union DEF NatOn
<1>2. SumOn(f, S \cup T) = Cardinality(Cells(f, S \cup T))
  BY <1>1, SumIsCells
<1>3. SumOn(f, S) = Cardinality(Cells(f, S)) /\ SumOn(f, T) = Cardinality(Cells(f, T))
  BY SumIsCells
<1> QED
  BY <1>2, <1>3, CellsDisjoint

\* One element more.
LEMMA SumAdd ==
    ASSUME NEW S, IsFiniteSet(S), NEW x, x \notin S, NEW f, NatOn(f, S), f[x] \in Nat
    PROVE  SumOn(f, S \cup {x}) = SumOn(f, S) + f[x]
<1>1. IsFiniteSet({x}) /\ NatOn(f, {x}) /\ S \cap {x} = {}
  BY FS_Singleton DEF NatOn
<1>2. SumOn(f, {x}) = f[x]
  BY <1>1, SumIsCells, ColumnCount
<1> QED
  BY <1>1, <1>2, SumDisjoint

\* One element less.
LEMMA SumRemove ==
    ASSUME NEW S, IsFiniteSet(S), NEW x \in S, NEW f, NatOn(f, S)
    PROVE  SumOn(f, S) = SumOn(f, S \ {x}) + f[x]
<1>1. IsFiniteSet(S \ {x}) /\ NatOn(f, S \ {x}) /\ f[x] \in Nat /\ x \notin S \ {x}
  BY FS_RemoveElement DEF NatOn
<1>2. SumOn(f, (S \ {x}) \cup {x}) = SumOn(f, S \ {x}) + f[x]
  BY <1>1, SumAdd
<1>3. (S \ {x}) \cup {x} = S
  OBVIOUS
<1> QED
  BY <1>2, <1>3

\* A sum grows with its values.
LEMMA SumMonotone ==
    ASSUME NEW S, IsFiniteSet(S), NEW f, NEW g, NatOn(f, S), NatOn(g, S),
           \A x \in S : f[x] <= g[x]
    PROVE  SumOn(f, S) <= SumOn(g, S)
<1>1. Cells(f, S) \in SUBSET Cells(g, S)
  <2> SUFFICES ASSUME NEW x \in S, NEW c \in {x} \X (1..f[x])
               PROVE  c \in {x} \X (1..g[x])
    BY DEF Cells
  <2>1. f[x] \in Nat /\ g[x] \in Nat /\ f[x] <= g[x]
    BY DEF NatOn
  <2>2. 1..f[x] \subseteq 1..g[x]
    BY <2>1
  <2> QED
    BY <2>2
<1>2. IsFiniteSet(Cells(g, S))
  BY CellsFinite
<1>3. Cardinality(Cells(f, S)) <= Cardinality(Cells(g, S))
  BY <1>1, <1>2, FS_Subset
<1> QED
  BY <1>3, SumIsCells

\* A sum depends on the values alone.
LEMMA SumSame ==
    ASSUME NEW S, IsFiniteSet(S), NEW f, NEW g, NatOn(f, S),
           \A x \in S : f[x] = g[x]
    PROVE  SumOn(f, S) = SumOn(g, S)
<1>1. NatOn(g, S)
  BY DEF NatOn
<1>2. Cells(f, S) = Cells(g, S)
  BY DEF Cells
<1> QED
  BY <1>1, <1>2, SumIsCells

\* Fewer elements add up to no more.
LEMMA SumSubset ==
    ASSUME NEW S, IsFiniteSet(S), NEW T \in SUBSET S, NEW f, NatOn(f, S)
    PROVE  SumOn(f, T) <= SumOn(f, S)
<1>1. IsFiniteSet(T) /\ NatOn(f, T)
  BY FS_Subset DEF NatOn
<1>2. Cells(f, T) \in SUBSET Cells(f, S)
  BY DEF Cells
<1>3. IsFiniteSet(Cells(f, S))
  BY CellsFinite
<1>4. Cardinality(Cells(f, T)) <= Cardinality(Cells(f, S))
  BY <1>2, <1>3, FS_Subset
<1> QED
  BY <1>1, <1>4, SumIsCells

\* The sum of sums.
LEMMA SumPlus ==
    ASSUME NEW S, IsFiniteSet(S), NEW f, NEW g, NEW h, NatOn(f, S), NatOn(g, S),
           \A x \in S : h[x] = f[x] + g[x]
    PROVE  SumOn(h, S) = SumOn(f, S) + SumOn(g, S)
<1> DEFINE B == {s \in SUBSET S : SumOn(h, s) # SumOn(f, s) + SumOn(g, s)}
<1>0. NatOn(h, S)
  BY DEF NatOn
<1>1. ASSUME B # {} PROVE FALSE
  <2>1. PICK m \in B : \A t \in B : t \subseteq m => t = m
    <3>1. B \in SUBSET SUBSET S
      OBVIOUS
    <3> HIDE DEF B
    <3> QED
      BY <1>1, <3>1, MinimalSubset
  <2>2. m # {}
    <3>1. SumOn(f, {}) = 0 /\ SumOn(g, {}) = 0 /\ SumOn(h, {}) = 0
      BY SumEmpty
    <3> QED
      BY <3>1
  <2>3. PICK x \in m : TRUE
    BY <2>2
  <2>4. m \ {x} \in SUBSET S /\ m \ {x} # m /\ m \in SUBSET S /\ x \in S
    BY <2>3
  <2>5. SumOn(h, m \ {x}) = SumOn(f, m \ {x}) + SumOn(g, m \ {x})
    BY <2>1, <2>4
  <2>6. IsFiniteSet(m) /\ IsFiniteSet(m \ {x})
    BY <2>4, FS_Subset
  <2>7. /\ NatOn(f, m) /\ NatOn(g, m) /\ NatOn(h, m)
        /\ NatOn(f, m \ {x}) /\ NatOn(g, m \ {x}) /\ NatOn(h, m \ {x})
    BY <1>0, <2>4 DEF NatOn
  <2>8. /\ SumOn(f, m) = SumOn(f, m \ {x}) + f[x]
        /\ SumOn(g, m) = SumOn(g, m \ {x}) + g[x]
        /\ SumOn(h, m) = SumOn(h, m \ {x}) + h[x]
    BY <2>3, <2>6, <2>7, SumRemove
  <2>9. SumOn(f, m \ {x}) \in Nat /\ SumOn(g, m \ {x}) \in Nat
    BY <2>6, <2>7, SumType
  <2>10. f[x] \in Nat /\ g[x] \in Nat /\ h[x] = f[x] + g[x]
    BY <2>4 DEF NatOn
  <2>11. SumOn(h, m) = SumOn(f, m) + SumOn(g, m)
    BY <2>5, <2>8, <2>9, <2>10
  <2> QED
    BY <2>11
<1> QED
  BY <1>1
\* A sum does not depend on what its terms are called.
LEMMA SumBijection ==
    ASSUME NEW S, IsFiniteSet(S), NEW T, NEW f, NEW g, NEW b \in Bijection(S, T),
           NatOn(f, S), \A x \in S : g[b[x]] = f[x]
    PROVE  SumOn(g, T) = SumOn(f, S)
<1> DEFINE c == [p \in Cells(f, S) |-> <<b[p[1]], p[2]>>]
<1>1. /\ b \in [S -> T]
      /\ \A x, y \in S : b[x] = b[y] => x = y
      /\ \A t \in T : \E x \in S : b[x] = t
  BY DEF Bijection, Injection, Surjection, IsInjective
<1>2. IsFiniteSet(T) /\ NatOn(g, T)
  <2>1. IsFiniteSet(T)
    BY FS_Bijection DEF ExistsBijection
  <2> QED
    BY <2>1, <1>1 DEF NatOn
<1>3. \A p : p \in Cells(f, S) <=> \E x \in S : \E i \in 1..f[x] : p = <<x, i>>
  BY DEF Cells
<1>4. \A p : p \in Cells(g, T) <=> \E x \in T : \E i \in 1..g[x] : p = <<x, i>>
  BY DEF Cells
<1>5. ASSUME NEW p \in Cells(f, S) PROVE <<b[p[1]], p[2]>> \in Cells(g, T)
  <2>a. PICK x \in S : \E i \in 1..f[x] : p = <<x, i>>
    BY <1>3
  <2>1. PICK i \in 1..f[x] : p = <<x, i>>
    BY <2>a
  <2>2. p[1] = x /\ p[2] = i
    BY <2>1
  <2>3. b[x] \in T /\ i \in 1..g[b[x]]
    BY <1>1
  <2> QED
    BY <2>2, <2>3, <1>4
<1>6. c \in [Cells(f, S) -> Cells(g, T)]
  BY <1>5
<1>7. ASSUME NEW p \in Cells(f, S), NEW q \in Cells(f, S), c[p] = c[q] PROVE p = q
  <2>a. PICK x \in S : \E i \in 1..f[x] : p = <<x, i>>
    BY <1>3
  <2>1. PICK i \in 1..f[x] : p = <<x, i>>
    BY <2>a
  <2>b. PICK y \in S : \E j \in 1..f[y] : q = <<y, j>>
    BY <1>3
  <2>2. PICK j \in 1..f[y] : q = <<y, j>>
    BY <2>b
  <2>3. c[p] = <<b[x], i>> /\ c[q] = <<b[y], j>>
    BY <2>1, <2>2
  <2>4. b[x] = b[y] /\ i = j
    BY <1>7, <2>3
  <2> QED
    BY <1>1, <2>1, <2>2, <2>4
<1>8. ASSUME NEW q \in Cells(g, T) PROVE \E p \in Cells(f, S) : c[p] = q
  <2>a. PICK t \in T : \E i \in 1..g[t] : q = <<t, i>>
    BY <1>4
  <2>1. PICK i \in 1..g[t] : q = <<t, i>>
    BY <2>a
  <2>2. PICK x \in S : b[x] = t
    BY <1>1
  <2>3. <<x, i>> \in Cells(f, S)
    BY <1>3, <2>2
  <2>4. c[<<x, i>>] = q
    BY <2>1, <2>2, <2>3
  <2> QED
    BY <2>3, <2>4
<1> HIDE DEF c
<1>9. c \in Bijection(Cells(f, S), Cells(g, T))
  BY <1>6, <1>7, <1>8 DEF Bijection, Injection, Surjection, IsInjective
<1>10. ExistsBijection(Cells(f, S), Cells(g, T))
  BY <1>9 DEF ExistsBijection
<1>11. Cardinality(Cells(g, T)) = Cardinality(Cells(f, S))
  BY <1>10, CellsFinite, FS_Bijection
<1> QED
  BY <1>2, <1>11, SumIsCells

\* Every set of natural numbers but the empty one has a least element.
LEMMA LeastNatural ==
    ASSUME NEW N \in SUBSET Nat, N # {}
    PROVE  \E m \in N : \A n \in N : m <= n
<1>1. PICK m \in N : \A n \in N : <<n, m>> \notin OpToRel(<, Nat)
  BY NatLessThanWellFounded, WFMin
<1>2. \A n \in N : ~(n < m)
  BY <1>1 DEF OpToRel
<1> QED
  BY <1>2

\* When the value or the presence of r alone changes, the sum changes by it.
LEMMA SumChange ==
    ASSUME NEW C, IsFiniteSet(C), NEW r, NEW f, NEW g, NatOn(f, C), NatOn(g, C),
           \A x \in C : x # r => f[x] = g[x],
           NEW S \in SUBSET C, NEW T \in SUBSET C, S \ {r} = T \ {r}
    PROVE  SumOn(g, T) + (IF r \in S THEN f[r] ELSE 0)
             = SumOn(f, S) + (IF r \in T THEN g[r] ELSE 0)
<1> DEFINE R == S \ {r}
<1>1. /\ IsFiniteSet(S) /\ IsFiniteSet(T) /\ IsFiniteSet(R)
      /\ NatOn(f, S) /\ NatOn(g, T) /\ NatOn(f, R) /\ NatOn(g, R)
  <2>1. R \in SUBSET C
    OBVIOUS
  <2> QED
    BY <2>1, FS_Subset DEF NatOn
<1>2. SumOn(f, R) = SumOn(g, R) /\ SumOn(f, R) \in Nat
  BY <1>1, SumSame, SumType
<1>3. SumOn(f, S) = SumOn(f, R) + (IF r \in S THEN f[r] ELSE 0)
  <2>1. CASE r \in S
    BY <1>1, <2>1, SumRemove
  <2>2. CASE r \notin S
    <3>1. R = S
      BY <2>2
    <3> QED
      BY <1>2, <2>2, <3>1
  <2> QED
    BY <2>1, <2>2
<1>4. SumOn(g, T) = SumOn(g, R) + (IF r \in T THEN g[r] ELSE 0)
  <2>0. R = T \ {r}
    OBVIOUS
  <2> HIDE DEF R
  <2>1. CASE r \in T
    BY <1>1, <2>0, <2>1, SumRemove
  <2>2. CASE r \notin T
    <3>1. R = T
      BY <2>0, <2>2
    <3> QED
      BY <1>2, <2>2, <3>1
  <2> QED
    BY <2>1, <2>2
<1>5. r \in S => f[r] \in Nat
  BY DEF NatOn
<1>6. r \in T => g[r] \in Nat
  BY DEF NatOn
<1> HIDE DEF R
<1> QED
  BY <1>2, <1>3, <1>4, <1>5, <1>6

=============================================================================
