----------------------------- MODULE BooksProofs -----------------------------
(***************************************************************************)
(* Proofs about Books, for every chart of accounts, every number of        *)
(* documents, payments and requests, and every bound: the rows are typed   *)
(* and the journal is well formed, the sheets balance, a marked month has  *)
(* its bill, the reports of closed books do not change, documents owe what *)
(* payments leave, and the control accounts show what is owed.             *)
(***************************************************************************)
EXTENDS Books, FiniteSetTheorems, SequenceTheorems, TLAPS

----------------------------------------------------------------------------
(* Sums of integers over finite sets.                                      *)

\* The sum of F over S, and how it is come by, element by element.
Sum(F, S) == SumFunctionOnSet(F, S)

One(S) == CHOOSE x \in S : TRUE
Tallied(F, g, s) == IF s = {} THEN 0 ELSE F[One(s)] + g[s \ {One(s)}]
Tally(F, S, g) == g = [s \in SUBSET S |-> Tallied(F, g, s)]

LEMMA OneIsIn == \A S : S # {} => One(S) \in S
BY DEF One

\* Among subsets of a finite set there is one that has no other below it.
LEMMA MinimalSubset ==
  ASSUME NEW S, IsFiniteSet(S), NEW B, B \subseteq SUBSET S, B # {}
  PROVE  \E s \in B : \A t \in B : t \subseteq s => t = s
<1>1. IsWellFoundedOn(StrictSubsetOrdering(S), SUBSET S)
  <2>1. FiniteSubsetsOf(S) = SUBSET S
    BY FS_FiniteSubsetsOfFinite
  <2> QED BY <2>1, FS_StrictSubsetOrderingWellFounded
<1>2. PICK s \in B : \A t \in B : ~(<<t, s>> \in StrictSubsetOrdering(S))
  <2>1. \E s \in B : \A t \in B : ~(<<t, s>> \in StrictSubsetOrdering(S))
    BY <1>1, WFMin
  <2> QED BY <2>1
<1>3. ASSUME NEW t \in B, t \subseteq s, t # s PROVE FALSE
  <2>1. <<t, s>> \in StrictSubsetOrdering(S)
    BY <1>3 DEF StrictSubsetOrdering
  <2> QED BY <1>2, <2>1
<1> QED BY <1>3

\* What has been tallied for a set has been tallied for its subsets.
LEMMA TalliesAgree ==
  ASSUME NEW F, NEW S, NEW T \in SUBSET S, IsFiniteSet(T),
         NEW g, Tally(F, S, g), NEW h, Tally(F, T, h)
  PROVE  \A s \in SUBSET T : g[s] = h[s]
<1> DEFINE B == {s \in SUBSET T : g[s] # h[s]}
<1> SUFFICES ASSUME B # {} PROVE FALSE
  OBVIOUS
<1> HIDE DEF B
<1>1. PICK s \in B : \A t \in B : t \subseteq s => t = s
  <2>1. B \subseteq SUBSET T
    BY DEF B
  <2> QED BY <2>1, MinimalSubset
<1>2. s \in SUBSET T /\ s \in SUBSET S /\ g[s] # h[s]
  BY DEF B
<1>3. g[s] = Tallied(F, g, s) /\ h[s] = Tallied(F, h, s)
  BY <1>2 DEF Tally
<1>4. s # {}
  BY <1>2, <1>3 DEF Tallied
<1>5. s \ {One(s)} # s /\ s \ {One(s)} \subseteq s
  BY <1>4, OneIsIn
<1>6. g[s \ {One(s)}] = h[s \ {One(s)}]
  BY <1>1, <1>2, <1>5 DEF B
<1> QED BY <1>2, <1>3, <1>6 DEF Tallied

\* A finite set can be tallied.
LEMMA TallyExists ==
  ASSUME NEW F, NEW S, IsFiniteSet(S)
  PROVE  \E g : Tally(F, S, g)
<1> DEFINE B == {t \in SUBSET S : ~ \E g : Tally(F, t, g)}
<1> SUFFICES ASSUME B # {} PROVE FALSE
  OBVIOUS
<1> HIDE DEF B
<1>1. PICK s \in B : \A t \in B : t \subseteq s => t = s
  <2>1. B \subseteq SUBSET S
    BY DEF B
  <2> QED BY <2>1, MinimalSubset
<1>2. s \in SUBSET S /\ ~ \E g : Tally(F, s, g)
  BY DEF B
<1> DEFINE of(t) == CHOOSE g : Tally(F, t, g)
           G(t) == of(t)[t]
<1>3. ASSUME NEW t \in SUBSET s, t # s PROVE Tally(F, t, of(t)) /\ IsFiniteSet(t)
  <2>1. \E g : Tally(F, t, g)
    BY <1>1, <1>2, <1>3 DEF B
  <2>2. Tally(F, t, of(t))
    BY <2>1
  <2> QED BY <1>2, <2>2, FS_Subset
<1> HIDE DEF of
<1> DEFINE g == [t \in SUBSET s |-> IF t = {} THEN 0 ELSE F[One(t)] + G(t \ {One(t)})]
<1>4. ASSUME NEW t \in SUBSET s, t # s PROVE g[t] = G(t)
  <2>1. Tally(F, t, of(t)) /\ IsFiniteSet(t)
    BY <1>3, <1>4
  <2>2. G(t) = Tallied(F, of(t), t)
    <3>1. t \in SUBSET t
      OBVIOUS
    <3> QED BY <2>1, <3>1 DEF Tally
  <2>3. CASE t = {}
    BY <2>2, <2>3 DEF Tallied
  <2>4. CASE t # {}
    <3> DEFINE u == t \ {One(t)}
    <3>1. u \in SUBSET t /\ u \in SUBSET s /\ u # s /\ u \in SUBSET u
      BY <1>4, <2>4, OneIsIn
    <3>2. Tally(F, u, of(u)) /\ IsFiniteSet(u)
      BY <1>3, <3>1
    <3>3. of(t)[u] = of(u)[u]
      <4> HIDE DEF u
      <4> QED BY <2>1, <3>1, <3>2, TalliesAgree
    <3> QED BY <2>2, <2>4, <3>3 DEF Tallied
  <2> QED BY <2>3, <2>4
<1>5. \A t \in SUBSET s : g[t] = Tallied(F, g, t)
  <2> TAKE t \in SUBSET s
  <2>1. CASE t = {}
    BY <2>1 DEF Tallied
  <2>2. CASE t # {}
    <3> DEFINE u == t \ {One(t)}
    <3>1. u \in SUBSET s /\ u # s
      BY <2>2, OneIsIn
    <3>2. g[u] = G(u)
      <4> HIDE DEF u, G, g
      <4> QED BY <3>1, <1>4
    <3>3. g[t] = F[One(t)] + G(u)
      BY <2>2
    <3> QED BY <2>2, <3>2, <3>3 DEF Tallied
  <2> QED BY <2>1, <2>2
<1>6. g = [t \in SUBSET s |-> g[t]]
  OBVIOUS
<1>7. Tally(F, s, g)
  <2> HIDE DEF g
  <2> QED BY <1>5, <1>6 DEF Tally
<1> QED BY <1>2, <1>7

LEMMA SumIsTallied ==
  ASSUME NEW F, NEW S, IsFiniteSet(S)
  PROVE  \E g : Tally(F, S, g) /\ Sum(F, S) = g[S]
<1> DEFINE g == CHOOSE g : g = [s \in SUBSET S |-> Tallied(F, g, s)]
<1>1. \E h : h = [s \in SUBSET S |-> Tallied(F, h, s)]
  BY TallyExists DEF Tally
<1>2. Tally(F, S, g)
  BY <1>1 DEF Tally
<1>3. Sum(F, S) = g[S]
  BY DEF Sum, SumFunctionOnSet, FoldFunctionOnSet, MapThenFoldSet, Tallied, One
<1> QED BY <1>2, <1>3

\* The sum, one element taken.
LEMMA SumOpens ==
  ASSUME NEW F, NEW S, IsFiniteSet(S)
  PROVE  Sum(F, S) = IF S = {} THEN 0 ELSE F[One(S)] + Sum(F, S \ {One(S)})
<1>1. PICK g : Tally(F, S, g) /\ Sum(F, S) = g[S]
  BY SumIsTallied
<1>2. g[S] = Tallied(F, g, S)
  <2>1. S \in SUBSET S
    OBVIOUS
  <2> QED BY <1>1, <2>1 DEF Tally
<1>3. CASE S = {}
  BY <1>1, <1>2, <1>3 DEF Tallied
<1>4. CASE S # {}
  <2> DEFINE T == S \ {One(S)}
  <2>1. T \in SUBSET S /\ T \in SUBSET T /\ IsFiniteSet(T)
    BY FS_Subset
  <2> HIDE DEF T
  <2>2. PICK h : Tally(F, T, h) /\ Sum(F, T) = h[T]
    BY <2>1, SumIsTallied
  <2>3. g[T] = h[T]
    BY <1>1, <2>1, <2>2, TalliesAgree
  <2> QED BY <1>1, <1>2, <1>4, <2>2, <2>3 DEF Tallied, T
<1> QED BY <1>3, <1>4

LEMMA SumIsInteger ==
  ASSUME NEW S, IsFiniteSet(S), NEW F, \A x \in S : F[x] \in Int
  PROVE  Sum(F, S) \in Int
<1> DEFINE B == {s \in SUBSET S : Sum(F, s) \notin Int}
<1> SUFFICES ASSUME B # {} PROVE FALSE
  OBVIOUS
<1> HIDE DEF B
<1>1. PICK s \in B : \A t \in B : t \subseteq s => t = s
  <2>1. B \subseteq SUBSET S
    BY DEF B
  <2> QED BY <2>1, MinimalSubset
<1>2. s \in SUBSET S /\ Sum(F, s) \notin Int /\ IsFiniteSet(s)
  BY FS_Subset DEF B
<1>3. Sum(F, s) = IF s = {} THEN 0 ELSE F[One(s)] + Sum(F, s \ {One(s)})
  BY <1>2, SumOpens
<1>4. s # {}
  BY <1>2, <1>3
<1> DEFINE u == s \ {One(s)}
<1>5. u \in SUBSET S /\ u \subseteq s /\ u # s /\ One(s) \in S
  BY <1>2, <1>4, OneIsIn
<1>6. Sum(F, u) \in Int
  BY <1>1, <1>5 DEF B
<1> QED BY <1>2, <1>3, <1>4, <1>5, <1>6

\* Sums of what is the same are the same.
LEMMA SumSame ==
  ASSUME NEW S, IsFiniteSet(S), NEW F, NEW G, \A x \in S : F[x] = G[x]
  PROVE  Sum(F, S) = Sum(G, S)
<1> DEFINE B == {s \in SUBSET S : Sum(F, s) # Sum(G, s)}
<1> SUFFICES ASSUME B # {} PROVE FALSE
  OBVIOUS
<1> HIDE DEF B
<1>1. PICK s \in B : \A t \in B : t \subseteq s => t = s
  <2>1. B \subseteq SUBSET S
    BY DEF B
  <2> QED BY <2>1, MinimalSubset
<1>2. s \in SUBSET S /\ Sum(F, s) # Sum(G, s) /\ IsFiniteSet(s)
  BY FS_Subset DEF B
<1>3. /\ Sum(F, s) = IF s = {} THEN 0 ELSE F[One(s)] + Sum(F, s \ {One(s)})
      /\ Sum(G, s) = IF s = {} THEN 0 ELSE G[One(s)] + Sum(G, s \ {One(s)})
  BY <1>2, SumOpens
<1>4. s # {}
  BY <1>2, <1>3
<1>5. s \ {One(s)} \in SUBSET S /\ s \ {One(s)} \subseteq s /\ s \ {One(s)} # s /\ One(s) \in S
  BY <1>2, <1>4, OneIsIn
<1>6. Sum(F, s \ {One(s)}) = Sum(G, s \ {One(s)})
  BY <1>1, <1>5 DEF B
<1> QED BY <1>2, <1>3, <1>4, <1>5, <1>6

\* It does not matter which element is taken.
LEMMA SumWithout ==
  ASSUME NEW S, IsFiniteSet(S), NEW F, \A x \in S : F[x] \in Int
  PROVE  \A x \in S : Sum(F, S) = F[x] + Sum(F, S \ {x})
<1> DEFINE B == {s \in SUBSET S : \E x \in s : Sum(F, s) # F[x] + Sum(F, s \ {x})}
<1> SUFFICES ASSUME B # {} PROVE FALSE
  OBVIOUS
<1> HIDE DEF B
<1>1. PICK s \in B : \A t \in B : t \subseteq s => t = s
  <2>1. B \subseteq SUBSET S
    BY DEF B
  <2> QED BY <2>1, MinimalSubset
<1>2. PICK x \in s : Sum(F, s) # F[x] + Sum(F, s \ {x})
  BY DEF B
<1>3. s \in SUBSET S /\ \A t \in SUBSET s : t \in SUBSET S /\ IsFiniteSet(t) /\ Sum(F, t) \in Int
  <2>1. s \in SUBSET S
    BY DEF B
  <2>2. ASSUME NEW t \in SUBSET s PROVE t \in SUBSET S /\ IsFiniteSet(t) /\ Sum(F, t) \in Int
    <3>1. t \in SUBSET S
      BY <2>1
    <3>2. IsFiniteSet(t)
      BY <3>1, FS_Subset
    <3>3. \A y \in t : F[y] \in Int
      BY <3>1
    <3> QED BY <3>1, <3>2, <3>3, SumIsInteger
  <2> QED BY <2>1, <2>2
<1>4. ASSUME NEW t \in SUBSET s, t # {} PROVE One(t) \in t /\ Sum(F, t) = F[One(t)] + Sum(F, t \ {One(t)})
  BY <1>3, <1>4, SumOpens, OneIsIn
<1> DEFINE o == One(s)
<1>5. o \in s /\ Sum(F, s) = F[o] + Sum(F, s \ {o})
  <2>1. s \in SUBSET s /\ s # {}
    OBVIOUS
  <2> QED BY <2>1, <1>4
<1> HIDE DEF o
<1>6. o # x
  BY <1>2, <1>5
\* A smaller set may lose any of its elements.
<1>7. ASSUME NEW y \in s, NEW z \in s \ {y} PROVE Sum(F, s \ {y}) = F[z] + Sum(F, (s \ {y}) \ {z})
  <2>1. s \ {y} \subseteq s /\ s \ {y} # s /\ s \ {y} \in SUBSET S
    BY <1>3
  <2> QED BY <1>1, <1>7, <2>1 DEF B
<1>8. /\ Sum(F, s \ {o}) = F[x] + Sum(F, (s \ {o}) \ {x})
      /\ Sum(F, s \ {x}) = F[o] + Sum(F, (s \ {x}) \ {o})
  BY <1>5, <1>6, <1>7
<1>9. (s \ {o}) \ {x} = (s \ {x}) \ {o} /\ (s \ {x}) \ {o} \in SUBSET s
  OBVIOUS
<1> DEFINE rest == Sum(F, (s \ {x}) \ {o})
           fo == F[o]
           fx == F[x]
<1>10. rest \in Int /\ fo \in Int /\ fx \in Int
  BY <1>3, <1>5, <1>9
<1>11. Sum(F, s) = fo + (fx + rest) /\ Sum(F, s) # fx + (fo + rest)
  BY <1>2, <1>5, <1>8, <1>9
<1> HIDE DEF rest, fo, fx
<1> QED BY ONLY <1>10, <1>11

\* The sum over a part and the sum over the rest.
LEMMA SumOfParts ==
  ASSUME NEW S, IsFiniteSet(S), NEW T \in SUBSET S, NEW F, \A x \in S : F[x] \in Int
  PROVE  Sum(F, S) = Sum(F, T) + Sum(F, S \ T)
<1>0. \A s \in SUBSET S : IsFiniteSet(s) /\ Sum(F, s) \in Int
  BY FS_Subset, SumIsInteger
<1> DEFINE B == {s \in SUBSET T : Sum(F, S) # Sum(F, s) + Sum(F, S \ s)}
<1> SUFFICES ASSUME B # {} PROVE FALSE
  OBVIOUS
<1> HIDE DEF B
<1>1. PICK s \in B : \A t \in B : t \subseteq s => t = s
  <2>1. B \subseteq SUBSET T /\ IsFiniteSet(T)
    BY <1>0 DEF B
  <2> QED BY <2>1, MinimalSubset
<1>2. s \in SUBSET T /\ s \in SUBSET S /\ S \ s \in SUBSET S /\ Sum(F, S) # Sum(F, s) + Sum(F, S \ s)
  BY DEF B
<1>3. CASE s = {}
  <2>1. Sum(F, s) = 0 /\ S \ s = S /\ S \in SUBSET S
    BY <1>0, <1>2, <1>3, SumOpens
  <2>2. Sum(F, S) \in Int
    BY <1>0, <2>1
  <2> QED BY <1>2, <2>1, <2>2
<1>4. ASSUME NEW x \in s PROVE FALSE
  <2> DEFINE t == s \ {x}
  <2>1. t \in SUBSET T /\ t \subseteq s /\ t # s /\ t \in SUBSET S /\ S \ t \in SUBSET S /\ x \in S \ t
    BY <1>2
  <2>2. Sum(F, S) = Sum(F, t) + Sum(F, S \ t)
    BY <1>1, <2>1 DEF B
  <2>3. Sum(F, s) = F[x] + Sum(F, t)
    BY <1>0, <1>2, SumWithout
  <2>4. (S \ t) \ {x} = S \ s
    BY <1>2
  <2>5. \A y \in S \ t : Sum(F, S \ t) = F[y] + Sum(F, (S \ t) \ {y})
    <3> HIDE DEF t
    <3> QED BY <1>0, <2>1, SumWithout
  <2>6. Sum(F, S \ t) = F[x] + Sum(F, S \ s)
    BY <2>1, <2>4, <2>5
  <2>7. {Sum(F, t), Sum(F, S \ s), F[x], Sum(F, S \ t)} \subseteq Int
    BY <1>0, <1>2, <2>1
  <2> HIDE DEF t
  <2> QED BY <1>2, <2>2, <2>3, <2>6, <2>7
<1> QED BY <1>3, <1>4

\* A sum of nothings.
LEMMA SumOfNothing ==
  ASSUME NEW S, IsFiniteSet(S), NEW F, \A x \in S : F[x] = 0
  PROVE  Sum(F, S) = 0
<1> DEFINE B == {s \in SUBSET S : Sum(F, s) # 0}
<1> SUFFICES ASSUME B # {} PROVE FALSE
  OBVIOUS
<1> HIDE DEF B
<1>1. PICK s \in B : \A t \in B : t \subseteq s => t = s
  <2>1. B \subseteq SUBSET S
    BY DEF B
  <2> QED BY <2>1, MinimalSubset
<1>2. s \in SUBSET S /\ Sum(F, s) # 0 /\ IsFiniteSet(s)
  BY FS_Subset DEF B
<1>3. Sum(F, s) = IF s = {} THEN 0 ELSE F[One(s)] + Sum(F, s \ {One(s)})
  BY <1>2, SumOpens
<1>4. s # {}
  BY <1>2, <1>3
<1>5. s \ {One(s)} \in SUBSET S /\ s \ {One(s)} \subseteq s /\ s \ {One(s)} # s /\ One(s) \in S
  BY <1>2, <1>4, OneIsIn
<1>6. Sum(F, s \ {One(s)}) = 0
  BY <1>1, <1>5 DEF B
<1> QED BY <1>2, <1>3, <1>4, <1>5, <1>6

\* Only one element counts.
LEMMA SumOfOne ==
  ASSUME NEW S, IsFiniteSet(S), NEW F, NEW k \in S, F[k] \in Int, \A x \in S \ {k} : F[x] = 0
  PROVE  Sum(F, S) = F[k]
<1>1. \A x \in S : F[x] \in Int
  OBVIOUS
<1>2. Sum(F, S) = F[k] + Sum(F, S \ {k})
  BY <1>1, SumWithout
<1>3. Sum(F, S \ {k}) = 0
  <2>1. IsFiniteSet(S \ {k})
    BY FS_Subset
  <2> QED BY <2>1, SumOfNothing
<1> QED BY <1>2, <1>3

\* Elements that count for nothing may be left out.
LEMMA SumOfSupport ==
  ASSUME NEW S, IsFiniteSet(S), NEW T \in SUBSET S, NEW F, \A x \in S : F[x] \in Int,
         NEW G, \A x \in T : G[x] = F[x], \A x \in S \ T : F[x] = 0
  PROVE  Sum(G, T) = Sum(F, S)
<1>1. IsFiniteSet(T) /\ IsFiniteSet(S \ T)
  BY FS_Subset
<1>2. Sum(F, S) = Sum(F, T) + Sum(F, S \ T)
  BY SumOfParts
<1>3. Sum(F, S \ T) = 0
  BY <1>1, SumOfNothing
<1>4. Sum(G, T) = Sum(F, T)
  BY <1>1, SumSame
<1>5. Sum(F, T) \in Int
  BY <1>1, SumIsInteger
<1> QED BY <1>2, <1>3, <1>4, <1>5

\* One element changes what it counts for.
LEMMA SumChanged ==
  ASSUME NEW S, IsFiniteSet(S), NEW k \in S, NEW F, \A x \in S : F[x] \in Int,
         NEW G, G[k] \in Int, \A x \in S \ {k} : G[x] = F[x]
  PROVE  Sum(G, S) = Sum(F, S) - F[k] + G[k]
<1>1. \A x \in S : G[x] \in Int
  OBVIOUS
<1>2. Sum(F, S) = F[k] + Sum(F, S \ {k}) /\ Sum(G, S) = G[k] + Sum(G, S \ {k})
  BY <1>1, SumWithout
<1>3. IsFiniteSet(S \ {k})
  BY FS_Subset
<1>4. Sum(G, S \ {k}) = Sum(F, S \ {k}) /\ Sum(F, S \ {k}) \in Int
  BY <1>3, SumSame, SumIsInteger
<1> QED BY <1>2, <1>4

\* Sums of amounts are amounts.
LEMMA SumOfAmounts ==
  ASSUME NEW S, IsFiniteSet(S), NEW F, \A x \in S : F[x] \in Nat
  PROVE  Sum(F, S) \in Nat
<1> DEFINE B == {s \in SUBSET S : Sum(F, s) \notin Nat}
<1> SUFFICES ASSUME B # {} PROVE FALSE
  OBVIOUS
<1> HIDE DEF B
<1>1. PICK s \in B : \A t \in B : t \subseteq s => t = s
  <2>1. B \subseteq SUBSET S
    BY DEF B
  <2> QED BY <2>1, MinimalSubset
<1>2. s \in SUBSET S /\ Sum(F, s) \notin Nat /\ IsFiniteSet(s)
  BY FS_Subset DEF B
<1>3. Sum(F, s) = IF s = {} THEN 0 ELSE F[One(s)] + Sum(F, s \ {One(s)})
  BY <1>2, SumOpens
<1>4. s # {}
  BY <1>2, <1>3
<1>5. s \ {One(s)} \in SUBSET S /\ s \ {One(s)} \subseteq s /\ s \ {One(s)} # s /\ One(s) \in S
  BY <1>2, <1>4, OneIsIn
<1>6. Sum(F, s \ {One(s)}) \in Nat
  BY <1>1, <1>5 DEF B
<1> QED BY <1>2, <1>3, <1>4, <1>5, <1>6

LEMMA SumOfPositives ==
  ASSUME NEW S, IsFiniteSet(S), S # {}, NEW F, \A x \in S : F[x] \in Nat \ {0}
  PROVE  Sum(F, S) \in Nat \ {0}
<1>1. PICK k : k \in S
  OBVIOUS
<1>2. Sum(F, S) = F[k] + Sum(F, S \ {k})
  BY <1>1, SumWithout
<1>3. IsFiniteSet(S \ {k})
  BY FS_Subset
<1>4. Sum(F, S \ {k}) \in Nat
  BY <1>3, SumOfAmounts
<1> QED BY <1>1, <1>2, <1>4

\* Sums add up element by element.
LEMMA SumAdds ==
  ASSUME NEW S, IsFiniteSet(S), NEW F, NEW G, NEW H,
         \A x \in S : F[x] \in Int /\ G[x] \in Int /\ H[x] = F[x] + G[x]
  PROVE  Sum(H, S) = Sum(F, S) + Sum(G, S)
<1> DEFINE B == {s \in SUBSET S : Sum(H, s) # Sum(F, s) + Sum(G, s)}
<1> SUFFICES ASSUME B # {} PROVE FALSE
  OBVIOUS
<1> HIDE DEF B
<1>1. PICK s \in B : \A t \in B : t \subseteq s => t = s
  <2>1. B \subseteq SUBSET S
    BY DEF B
  <2> QED BY <2>1, MinimalSubset
<1>2. s \in SUBSET S /\ Sum(H, s) # Sum(F, s) + Sum(G, s) /\ IsFiniteSet(s)
  BY FS_Subset DEF B
<1>3. /\ Sum(F, s) = IF s = {} THEN 0 ELSE F[One(s)] + Sum(F, s \ {One(s)})
      /\ Sum(G, s) = IF s = {} THEN 0 ELSE G[One(s)] + Sum(G, s \ {One(s)})
      /\ Sum(H, s) = IF s = {} THEN 0 ELSE H[One(s)] + Sum(H, s \ {One(s)})
  BY <1>2, SumOpens
<1>4. s # {}
  BY <1>2, <1>3
<1> DEFINE u == s \ {One(s)}
<1>5. u \in SUBSET S /\ u \subseteq s /\ u # s /\ One(s) \in S
  BY <1>2, <1>4, OneIsIn
<1>6. IsFiniteSet(u) /\ (\A x \in u : F[x] \in Int /\ G[x] \in Int)
  BY <1>5, FS_Subset
<1>7. Sum(F, u) \in Int /\ Sum(G, u) \in Int
  <2> HIDE DEF u
  <2> QED BY <1>6, SumIsInteger
<1>8. Sum(H, u) = Sum(F, u) + Sum(G, u)
  BY <1>1, <1>5 DEF B
<1> HIDE DEF u
<1>9. /\ Sum(F, s) = F[One(s)] + Sum(F, u) /\ Sum(G, s) = G[One(s)] + Sum(G, u)
      /\ Sum(H, s) = H[One(s)] + Sum(H, u)
  BY <1>3, <1>4 DEF u
<1>10. F[One(s)] \in Int /\ G[One(s)] \in Int /\ H[One(s)] = F[One(s)] + G[One(s)]
  BY <1>5
<1> QED BY <1>2, <1>7, <1>8, <1>9, <1>10

\* The sum of what is taken off.
LEMMA SumNegated ==
  ASSUME NEW S, IsFiniteSet(S), NEW F, NEW G, \A x \in S : F[x] \in Int /\ G[x] = -F[x]
  PROVE  Sum(G, S) = -Sum(F, S)
<1> DEFINE N == [x \in S |-> 0]
<1>1. \A x \in S : F[x] \in Int /\ G[x] \in Int /\ N[x] = F[x] + G[x]
  OBVIOUS
<1>2. \A x \in S : N[x] = 0
  OBVIOUS
<1> HIDE DEF N
<1>3. Sum(N, S) = Sum(F, S) + Sum(G, S) /\ Sum(N, S) = 0
  BY <1>1, <1>2, SumAdds, SumOfNothing
<1>4. Sum(F, S) \in Int /\ Sum(G, S) \in Int
  BY <1>1, SumIsInteger
<1> QED BY <1>3, <1>4

\* A table is summed by rows or by columns: M[x][y] is what x has in y.
Rows(M, S, T) == [x \in S |-> Sum(M[x], T)]
Columns(M, S, T) == [y \in T |-> Sum([x \in S |-> M[x][y]], S)]

LEMMA SumByRowsOrColumns ==
  ASSUME NEW S, IsFiniteSet(S), NEW T, IsFiniteSet(T), NEW M,
         \A x \in S : \A y \in T : M[x][y] \in Int
  PROVE  Sum(Rows(M, S, T), S) = Sum(Columns(M, S, T), T)
<1> DEFINE Col(y) == [x \in S |-> M[x][y]]
           Cols(s) == [y \in T |-> Sum(Col(y), s)]
           R == Rows(M, S, T)
           B == {s \in SUBSET S : Sum(R, s) # Sum(Cols(s), T)}
<1>0. ASSUME B = {} PROVE Sum(R, S) = Sum(Columns(M, S, T), T)
  <2>1. S \in SUBSET S
    OBVIOUS
  <2>2. Sum(R, S) = Sum(Cols(S), T)
    BY <1>0, <2>1
  <2> QED BY <2>2 DEF Columns
<1> SUFFICES ASSUME B # {} PROVE FALSE
  BY <1>0
<1>a. \A y \in T : \A x \in S : Col(y)[x] = M[x][y]
  OBVIOUS
<1>b. \A s : \A y \in T : Cols(s)[y] = Sum(Col(y), s)
  OBVIOUS
<1>c. \A x \in S : R[x] = Sum(M[x], T)
  BY DEF Rows
<1> HIDE DEF B, Col, Cols, R
<1>1. PICK s \in B : \A t \in B : t \subseteq s => t = s
  <2>1. B \subseteq SUBSET S
    BY DEF B
  <2> QED BY <2>1, MinimalSubset
<1>2. s \in SUBSET S /\ Sum(R, s) # Sum(Cols(s), T) /\ IsFiniteSet(s)
  BY FS_Subset DEF B
<1>3. Sum(R, s) = IF s = {} THEN 0 ELSE R[One(s)] + Sum(R, s \ {One(s)})
  BY <1>2, SumOpens
<1>4. \A y \in T : Sum(Col(y), s) = IF s = {} THEN 0 ELSE Col(y)[One(s)] + Sum(Col(y), s \ {One(s)})
  BY <1>2, SumOpens
<1>5. s # {}
  <2>1. ASSUME s = {} PROVE Sum(R, s) = 0 /\ \A y \in T : Cols(s)[y] = 0
    BY <2>1, <1>3, <1>4, <1>b
  <2>2. ASSUME s = {} PROVE Sum(Cols(s), T) = 0
    BY <2>1, <2>2, SumOfNothing
  <2> QED BY <1>2, <2>1, <2>2
<1>6. PICK x : x = One(s)
  OBVIOUS
<1>7. PICK u : u = s \ {x}
  OBVIOUS
<1>8. u \in SUBSET S /\ u \subseteq s /\ u # s /\ x \in S
  BY <1>2, <1>5, <1>6, <1>7, OneIsIn
<1>9. IsFiniteSet(u)
  BY <1>8, FS_Subset
<1>10. \A y \in T : M[x][y] \in Int /\ Cols(u)[y] \in Int /\ Cols(s)[y] = M[x][y] + Cols(u)[y]
  <2> TAKE y \in T
  <2>1. \A z \in u : Col(y)[z] \in Int
    BY <1>8, <1>a
  <2>2. Sum(Col(y), u) \in Int
    BY <1>9, <2>1, SumIsInteger
  <2>3. Sum(Col(y), s) = Col(y)[x] + Sum(Col(y), u)
    BY <1>4, <1>5, <1>6, <1>7
  <2> QED BY <2>2, <2>3, <1>8, <1>a, <1>b
<1>11. Sum(Cols(s), T) = Sum(M[x], T) + Sum(Cols(u), T)
  BY <1>10, SumAdds
<1>12. Sum(R, u) = Sum(Cols(u), T)
  BY <1>1, <1>8 DEF B
<1>13. Sum(R, s) = R[x] + Sum(R, u)
  BY <1>3, <1>5, <1>6, <1>7
<1> QED BY <1>2, <1>8, <1>11, <1>12, <1>13, <1>c

\* What a sum of the model is.
LEMMA SumFunctionIsSum == \A f : SumFunction(f) = Sum(f, DOMAIN f)
BY DEF SumFunction, Sum

----------------------------------------------------------------------------
(* The inductive invariant.                                                *)

\* s is a sequence (of the elements it has).
AsSeq(s) == s \in Seq({s[n] : n \in DOMAIN s})

\* Lines that name accounts of A, with amounts of V.
LinesIn(A, V) == Seq(A \X V)

AccountsOK == account \in [Accounts -> {"absent", "active", "inactive"}]

JournalOK ==
  /\ AsSeq(journal) /\ Len(journal) <= MaxEntries
  /\ \A n \in DOMAIN journal :
       journal[n].date \in Days /\ journal[n].lines \in LinesIn(Accounts, Int)
  /\ lock \in 0..MaxDay /\ today \in Days /\ edits \in 0..MaxEdits

DocRow == [status : {"absent", "draft", "void"} \cup Live, net : Nat, tax : Nat, paid : Nat, entry : Nat,
           date : Days, account : UserAccounts \cup {"inventory", None}, order : Orders \cup {None},
           template : (Recurring \X Days) \cup {None}]

\* A row points at no more than `n` entries, and at one when it is posted.
Pointing(row, posted, n) == row.entry <= n /\ (row.status \in posted => row.entry >= 1)

DocsOK ==
  /\ doc \in [Docs -> DocRow]
  /\ \A d \in Docs : /\ Pointing(doc[d], Live, Len(journal))
                     /\ doc[d].account # None => account[doc[d].account] # "absent"

PaymentRow == [status : {"absent", "recorded", "void"}, amount : Nat, entry : Nat,
               applied : UNION {[S -> Nat] : S \in SUBSET Docs}]
ExpenseRow == [status : {"absent", "recorded", "void"}, entry : Nat, accounts : SUBSET Accounts]

SpentOK ==
  /\ payment \in [Payments -> PaymentRow] /\ expense \in [Expenses -> ExpenseRow]
  /\ \A p \in Payments :
       /\ Pointing(payment[p], {"recorded"}, Len(journal))
       /\ payment[p].status = "recorded" =>
            \A d \in DOMAIN payment[p].applied : doc[d].status # "absent" /\ doc[d].entry >= 1
  /\ \A e \in Expenses : Pointing(expense[e], {"recorded"}, Len(journal))

TemplateRow == [status : {"absent", "active", "inactive", "deleted"}, amount : Nat,
                account : UserAccounts \cup {None}, last : 0..MaxDay]

TermsOK ==
  /\ template \in [Recurring -> TemplateRow]
  /\ price \in [Orders -> Nat] /\ rate \in {"absent", "active", "inactive"}
  /\ AsSeq(waste) /\ Len(waste) <= MaxWaste

\* A bill was drafted for day t of template r.
Billed(r, t) == \E d \in Bills : doc[d].status # "absent" /\ doc[d].template = <<r, t>>

Request == [op : {"none", "issue", "from_order", "recurring", "purchase"},
            at : {"none", "post", "write", "draft", "mark", "open", "pay"},
            d : Docs \cup {None}, of : Orders \cup Recurring \cup {None}, date : 0..MaxDay,
            paid : BOOLEAN, row : TemplateRow]

\* What a request knows that the rows bear out: a month about to be marked has
\* its bill.
Knows(q) ==
  /\ q.op = "issue" => q.d \in Invoices /\ doc[q.d].status # "absent"
  /\ q.op = "from_order" => /\ q.of \in Orders /\ q.d \in Invoices \cup {None}
                            /\ q.d # None => doc[q.d].status # "absent"
  /\ q.op = "recurring" => q.of \in Recurring /\ q.date \in Days
  /\ q.op = "recurring" /\ q.at = "mark" => Billed(q.of, q.date)
  /\ q.op = "purchase" => q.d \in Bills /\ q.date \in Days /\ doc[q.d].status # "absent"

RequestsOK == req \in [Workers -> Request] /\ \A w \in Workers : Knows(req[w])

MarkedOK == \A r \in Recurring : template[r].last # 0 => Billed(r, template[r].last)

RowsOK == DocsOK /\ SpentOK /\ TermsOK /\ RequestsOK /\ MarkedOK

\* An invoice that is being issued is of a day the books were open on.
IssueOK == \A w \in Workers : req[w].op = "issue" => req[w].date < doc[req[w].d].date

BooksInv == AccountsOK /\ JournalOK /\ EntriesAreSound /\ RowsOK

----------------------------------------------------------------------------
(* Sequences, lines and accounts.                                          *)

\* A function on 1..Len is a sequence.
LEMMA FunctionIsSeq ==
  ASSUME NEW S, NEW s, Len(s) \in Nat, s \in [1..Len(s) -> S]
  PROVE  s \in Seq(S)
BY SeqDef

\* What appending to a sequence gives.
LEMMA Appended ==
  ASSUME NEW s, AsSeq(s), NEW e
  PROVE  /\ Len(s) \in Nat /\ DOMAIN s = 1..Len(s)
         /\ AsSeq(Append(s, e)) /\ Len(Append(s, e)) = Len(s) + 1
         /\ DOMAIN Append(s, e) = 1..Len(s) + 1
         /\ \A i \in 1..Len(s) : Append(s, e)[i] = s[i]
         /\ Append(s, e)[Len(s) + 1] = e
<1> DEFINE S == {s[n] : n \in DOMAIN s} \cup {e}
           t == Append(s, e)
<1>1. s \in Seq(S) /\ e \in S
  <2>1. s \in Seq({s[n] : n \in DOMAIN s})
    BY DEF AsSeq
  <2>2. Len(s) \in Nat /\ s \in [1..Len(s) -> {s[n] : n \in DOMAIN s}]
    BY <2>1, LenProperties
  <2>3. s \in [1..Len(s) -> S]
    BY <2>2
  <2> QED BY <2>2, <2>3, FunctionIsSeq
<1>2. Len(s) \in Nat /\ DOMAIN s = 1..Len(s)
  BY <1>1, LenProperties
<1>3. t \in Seq(S) /\ Len(t) = Len(s) + 1 /\ (\A i \in 1..Len(s) : t[i] = s[i]) /\ t[Len(s) + 1] = e
  BY <1>1, AppendProperties
<1>4. DOMAIN t = 1..Len(t)
  BY <1>3, LenProperties
<1>5. AsSeq(t)
  <2>1. t \in [1..Len(t) -> S] /\ Len(t) \in Nat
    BY <1>3, LenProperties
  <2>2. t \in [1..Len(t) -> {t[n] : n \in DOMAIN t}]
    BY <2>1, <1>4
  <2> HIDE DEF t
  <2> QED BY <2>1, <2>2, FunctionIsSeq DEF AsSeq
<1> QED BY <1>2, <1>3, <1>4, <1>5

LEMMA EmptyIsSeq == AsSeq(<<>>) /\ Len(<<>>) = 0 /\ DOMAIN <<>> = {}
  BY DEF AsSeq

LEMMA LineOfIn ==
  ASSUME NEW A, NEW V, NEW a \in A, NEW x \in V
  PROVE  LineOf(a, x) \in LinesIn(A, V) /\ << <<a, x>> >> \in LinesIn(A, V)
<1>1. << <<a, x>> >> \in LinesIn(A, V)
  BY DEF LinesIn
<1>2. <<>> \in LinesIn(A, V)
  BY DEF LinesIn
<1> QED BY <1>1, <1>2 DEF LineOf

LEMMA TwoLinesIn ==
  ASSUME NEW A, NEW V, NEW a \in A, NEW x \in V, NEW b \in A, NEW y \in V
  PROVE  << <<a, x>>, <<b, y>> >> \in LinesIn(A, V)
BY DEF LinesIn

LEMMA ConcatIn ==
  ASSUME NEW A, NEW V, NEW s \in LinesIn(A, V), NEW t \in LinesIn(A, V)
  PROVE  s \o t \in LinesIn(A, V)
BY ConcatProperties DEF LinesIn

LEMMA NamedIn ==
  ASSUME NEW A, NEW V, NEW s \in LinesIn(A, V)
  PROVE  \A i \in DOMAIN s : s[i][1] \in A /\ s[i][2] \in V
BY DEF LinesIn

\* Lines that name accounts that are on the chart.
LEMMA LinesOnChart ==
  ASSUME NEW A \in SUBSET Accounts, NEW V, NEW s \in LinesIn(A, V)
  PROVE  s \in LinesIn(Accounts, V)
<1>1. A \X V \subseteq Accounts \X V
  OBVIOUS
<1>2. Len(s) \in Nat /\ s \in [1..Len(s) -> A \X V]
  BY LenProperties DEF LinesIn
<1>3. s \in [1..Len(s) -> Accounts \X V]
  BY <1>1, <1>2
<1> QED BY <1>2, <1>3, FunctionIsSeq DEF LinesIn

\* The mirror image of an entry.
LEMMA MirrorIn ==
  ASSUME NEW A, NEW n, journal[n].lines \in LinesIn(A, Int)
  PROVE  Mirror(n) \in LinesIn(A, Int)
<1> DEFINE s == journal[n].lines
<1>1. Len(s) \in Nat /\ DOMAIN s = 1..Len(s) /\ \A i \in DOMAIN s : s[i][1] \in A /\ s[i][2] \in Int
  BY LenProperties, NamedIn DEF LinesIn
<1>2. PICK t : t = Mirror(n)
  OBVIOUS
<1>3. \A i \in DOMAIN s : <<s[i][1], -s[i][2]>> \in A \X Int
  BY <1>1
<1>4. t = [i \in 1..Len(s) |-> <<s[i][1], -s[i][2]>>]
  BY <1>1, <1>2 DEF Mirror
<1> HIDE DEF s
<1>5. t \in [1..Len(s) -> A \X Int]
  BY <1>1, <1>3, <1>4
<1>6. t \in Seq(A \X Int)
  BY <1>1, <1>5, SeqDef
<1> QED BY <1>2, <1>6 DEF LinesIn

\* What the engine seeds stays, and the roles it looked up are there.
LEMMA HealedKeeps ==
  ASSUME AccountsOK, NEW roles
  PROVE  /\ Healed(roles) \in [Accounts -> {"absent", "active", "inactive"}]
         /\ \A a \in Accounts : account[a] # "absent" => Healed(roles)[a] # "absent"
         /\ \A a \in roles \cap SystemAccounts : Healed(roles)[a] # "absent"
BY DEF AccountsOK, Healed, Accounts

LEMMA Roles ==
  {"cash", "accounts_receivable", "inventory", "input_tax_receivable", "vendor_prepayments",
   "accounts_payable", "sales_tax_payable", "customer_credits", "sales", "cogs",
   "operating_expenses", "filament_waste"} = SystemAccounts
BY DEF SystemAccounts, SystemType

LEMMA LineAccountsAre == UserAccounts \cup {"inventory"} \subseteq Accounts
  BY Roles DEF Accounts

\* Half of a price, and the tax on one, are amounts.
LEMMA HalfIsAmount == \A x \in Nat : x \div 2 \in Nat
  OBVIOUS

LEMMA TaxIsAmount == \A x \in Nat : TaxOn(x) \in Nat
<1> TAKE x \in Nat
<1>1. RatePct \in Nat
  BY BooksAssumption
<1>2. x * RatePct \in Nat
  BY <1>1
<1>3. PICK y \in Nat : y = x * RatePct
  BY <1>2
<1>4. (2 * y + 100) \div (2 * 100) \in Nat
  BY <1>3
<1> QED BY <1>3, <1>4 DEF TaxOn, Rounded

\* What a document posts names the roles and the account of its line.
LEMMA DocumentLines ==
  ASSUME TermsOK, NEW row \in DocRow
  PROVE  /\ InvoiceLines(row) \in LinesIn(SystemAccounts \cup ({row.account} \ {None}), Int)
         /\ BillLines(row) \in LinesIn(SystemAccounts \cup ({row.account} \ {None}), Int)
<1> DEFINE A == SystemAccounts \cup ({row.account} \ {None})
<1>1. row.net \in Nat /\ row.tax \in Nat /\ row.order \in Orders \cup {None}
  BY DEF DocRow
<1>2. Total(row) \in Int /\ row.net \in Int /\ row.tax \in Int /\ -row.net \in Int /\ -row.tax \in Int /\ -Total(row) \in Int
  BY <1>1 DEF Total
<1>3. CostOf(row.order) \in Int /\ -CostOf(row.order) \in Int
  <2>1. CostOf(row.order) \in Nat
    BY <1>1, HalfIsAmount DEF CostOf, TermsOK
  <2> QED BY <2>1
<1>4. /\ "accounts_receivable" \in A /\ Or(row.account, "sales") \in A /\ "sales_tax_payable" \in A
      /\ "cogs" \in A /\ "inventory" \in A /\ Or(row.account, "operating_expenses") \in A
      /\ "input_tax_receivable" \in A /\ "accounts_payable" \in A
  BY Roles DEF Or
<1> HIDE DEF A
<1>5. InvoiceLines(row) \in LinesIn(A, Int)
  <2>1. << <<"accounts_receivable", Total(row)>>, <<Or(row.account, "sales"), -row.net>> >> \in LinesIn(A, Int)
    BY <1>2, <1>4, TwoLinesIn
  <2>2. LineOf("sales_tax_payable", -row.tax) \in LinesIn(A, Int)
    BY <1>2, <1>4, LineOfIn
  <2>3. LineOf("cogs", CostOf(row.order)) \in LinesIn(A, Int)
    BY <1>3, <1>4, LineOfIn
  <2>4. LineOf("inventory", -CostOf(row.order)) \in LinesIn(A, Int)
    BY <1>3, <1>4, LineOfIn
  <2>5. << <<"accounts_receivable", Total(row)>>, <<Or(row.account, "sales"), -row.net>> >>
          \o LineOf("sales_tax_payable", -row.tax) \in LinesIn(A, Int)
    BY <2>1, <2>2, ConcatIn
  <2>6. << <<"accounts_receivable", Total(row)>>, <<Or(row.account, "sales"), -row.net>> >>
          \o LineOf("sales_tax_payable", -row.tax) \o LineOf("cogs", CostOf(row.order)) \in LinesIn(A, Int)
    BY <2>5, <2>3, ConcatIn
  <2> QED BY <2>6, <2>4, ConcatIn DEF InvoiceLines
<1>6. BillLines(row) \in LinesIn(A, Int)
  <2>1. << <<Or(row.account, "operating_expenses"), row.net>> >> \in LinesIn(A, Int)
    BY <1>2, <1>4, LineOfIn
  <2>2. LineOf("input_tax_receivable", row.tax) \in LinesIn(A, Int)
    BY <1>2, <1>4, LineOfIn
  <2>3. << <<"accounts_payable", -Total(row)>> >> \in LinesIn(A, Int)
    BY <1>2, <1>4, LineOfIn
  <2>4. << <<Or(row.account, "operating_expenses"), row.net>> >> \o LineOf("input_tax_receivable", row.tax)
          \in LinesIn(A, Int)
    BY <2>1, <2>2, ConcatIn
  <2> QED BY <2>4, <2>3, ConcatIn DEF BillLines
<1> QED BY <1>5, <1>6 DEF A

\* Payments post between roles only.
LEMMA PaymentLinesIn ==
  ASSUME NEW incoming \in BOOLEAN, NEW amount \in Int, NEW applied \in Int
  PROVE  PaymentLines(incoming, amount, applied) \in LinesIn(SystemAccounts, Int)
<1> DEFINE V == Int
<1>1. /\ amount \in V /\ -amount \in V /\ applied \in V /\ -applied \in V
      /\ amount - applied \in V /\ -(amount - applied) \in V
  OBVIOUS
<1> HIDE DEF V
<1>2. /\ "cash" \in SystemAccounts /\ "accounts_receivable" \in SystemAccounts
      /\ "customer_credits" \in SystemAccounts /\ "accounts_payable" \in SystemAccounts
      /\ "vendor_prepayments" \in SystemAccounts
  BY Roles
<1>3. CASE incoming
  <2>1. << <<"cash", amount>> >> \in LinesIn(SystemAccounts, V)
    BY <1>1, <1>2, LineOfIn
  <2>2. LineOf("accounts_receivable", -applied) \in LinesIn(SystemAccounts, V)
    BY <1>1, <1>2, LineOfIn
  <2>3. LineOf("customer_credits", -(amount - applied)) \in LinesIn(SystemAccounts, V)
    BY <1>1, <1>2, LineOfIn
  <2>4. << <<"cash", amount>> >> \o LineOf("accounts_receivable", -applied) \in LinesIn(SystemAccounts, V)
    BY <2>1, <2>2, ConcatIn
  <2>5. PaymentLines(incoming, amount, applied) \in LinesIn(SystemAccounts, V)
    BY <1>3, <2>4, <2>3, ConcatIn DEF PaymentLines
  <2> QED BY <2>5 DEF V
<1>4. CASE ~incoming
  <2>1. LineOf("accounts_payable", applied) \in LinesIn(SystemAccounts, V)
    BY <1>1, <1>2, LineOfIn
  <2>2. LineOf("vendor_prepayments", amount - applied) \in LinesIn(SystemAccounts, V)
    BY <1>1, <1>2, LineOfIn
  <2>3. << <<"cash", -amount>> >> \in LinesIn(SystemAccounts, V)
    BY <1>1, <1>2, LineOfIn
  <2>4. LineOf("accounts_payable", applied) \o LineOf("vendor_prepayments", amount - applied)
          \in LinesIn(SystemAccounts, V)
    BY <2>1, <2>2, ConcatIn
  <2>5. PaymentLines(incoming, amount, applied) \in LinesIn(SystemAccounts, V)
    BY <1>4, <2>4, <2>3, ConcatIn DEF PaymentLines
  <2> QED BY <2>5 DEF V
<1> QED BY <1>3, <1>4

\* A row with its line rewritten.
LEMMA LinedRow ==
  ASSUME NEW row \in DocRow, NEW net \in Nat, NEW a \in UserAccounts \cup {"inventory", None},
         NEW taxed
  PROVE  /\ Lined(row, net, a, taxed) \in DocRow
         /\ Lined(row, net, a, taxed).account = a
         /\ Lined(row, net, a, taxed).status = row.status
         /\ Lined(row, net, a, taxed).entry = row.entry
         /\ Lined(row, net, a, taxed).paid = row.paid
         /\ Lined(row, net, a, taxed).date = row.date
         /\ Lined(row, net, a, taxed).template = row.template
<1>1. PICK t : t = IF taxed THEN TaxOn(net) ELSE 0
  OBVIOUS
<1>2. t \in Nat
  BY <1>1, TaxIsAmount
<1>3. PICK x : x = [row EXCEPT !.net = net]
  OBVIOUS
<1>4. PICK y : y = [x EXCEPT !.account = a]
  OBVIOUS
<1>5. Lined(row, net, a, taxed) = [y EXCEPT !.tax = t]
  BY <1>1, <1>3, <1>4 DEF Lined, DocRow
<1>6. x \in DocRow /\ x.status = row.status /\ x.entry = row.entry /\ x.date = row.date
      /\ x.paid = row.paid
      /\ x.template = row.template
  BY <1>3 DEF DocRow
<1>7. y \in DocRow /\ y.status = row.status /\ y.entry = row.entry /\ y.date = row.date
      /\ y.paid = row.paid
      /\ y.template = row.template /\ y.account = a
  BY <1>4, <1>6 DEF DocRow
<1>8. PICK z : z = [y EXCEPT !.tax = t]
  OBVIOUS
<1>9. z \in DocRow /\ z.status = row.status /\ z.entry = row.entry /\ z.date = row.date
      /\ z.paid = row.paid
      /\ z.template = row.template /\ z.account = a
  BY <1>2, <1>7, <1>8 DEF DocRow
<1> QED BY <1>5, <1>8, <1>9

\* A new draft.
LEMMA NewDraft ==
  ASSUME NEW date \in Days, NEW row, row = [NoDoc EXCEPT !.status = "draft", !.date = date]
  PROVE  /\ row = [status |-> "draft", net |-> 0, tax |-> 0, paid |-> 0, entry |-> 0,
                   date |-> date, account |-> None, order |-> None, template |-> None]
         /\ row \in DocRow
<1>1. PICK x : x = [NoDoc EXCEPT !.status = "draft"]
  OBVIOUS
<1>2. x = [status |-> "draft", net |-> 0, tax |-> 0, paid |-> 0, entry |-> 0,
           date |-> 1, account |-> None, order |-> None, template |-> None]
  BY <1>1 DEF NoDoc
<1>3. [NoDoc EXCEPT !.status = "draft", !.date = date] = [x EXCEPT !.date = date]
  BY <1>1 DEF NoDoc
<1>4. PICK y : y = [x EXCEPT !.date = date]
  OBVIOUS
<1>5. y = [status |-> "draft", net |-> 0, tax |-> 0, paid |-> 0, entry |-> 0,
           date |-> date, account |-> None, order |-> None, template |-> None]
  BY <1>2, <1>4
<1>6. y \in DocRow
  BY <1>5 DEF DocRow
<1> QED BY <1>3, <1>4, <1>5, <1>6

----------------------------------------------------------------------------
(* What a step keeps.                                                      *)

\* Accounts stay, the journal only grows, and documents stay documents.
AccountsKept == \A a \in Accounts : account[a] # "absent" => account'[a] # "absent"
Longer == /\ Len(journal) \in Nat /\ Len(journal') \in Nat /\ Len(journal) <= Len(journal')
          /\ Len(journal') <= MaxEntries
Onward == \A d \in Docs : doc[d].status # "absent" =>
            /\ doc'[d].status # "absent" /\ doc'[d].template = doc[d].template
            /\ doc[d].entry >= 1 => doc'[d].entry >= 1

LedgerInv == AccountsOK /\ JournalOK /\ EntriesAreSound

\* A balanced entry of an open day, on accounts that are there, is added.
LEMMA EntryAdded ==
  ASSUME LedgerInv, NEW e, e.date \in Days, Balanced(e.lines), Len(journal) < MaxEntries,
         journal' = Append(journal, e), AccountsOK', AccountsKept,
         e.lines \in LinesIn(Accounts, Int), \A i \in DOMAIN e.lines : account'[e.lines[i][1]] # "absent",
         UNCHANGED <<lock, today, edits>>
  PROVE  LedgerInv' /\ Longer /\ Len(journal') = Len(journal) + 1
<1>0. /\ AsSeq(journal) /\ Len(journal) <= MaxEntries /\ MaxEntries \in Nat
  BY LedgerAssumption DEF LedgerInv, JournalOK
<1>1. /\ Len(journal) \in Nat /\ DOMAIN journal = 1..Len(journal)
      /\ AsSeq(journal') /\ Len(journal') = Len(journal) + 1
      /\ DOMAIN journal' = 1..Len(journal) + 1
      /\ \A i \in 1..Len(journal) : journal'[i] = journal[i]
      /\ journal'[Len(journal) + 1] = e
  BY <1>0, Appended
<1>2. Longer
  BY <1>0, <1>1 DEF Longer
<1>3. \A n \in DOMAIN journal' : (n \in DOMAIN journal /\ journal'[n] = journal[n]) \/ journal'[n] = e
  BY <1>1
<1>4. JournalOK'
  <2>1. \A n \in DOMAIN journal' :
          journal'[n].date \in Days /\ journal'[n].lines \in LinesIn(Accounts, Int)
    BY <1>3 DEF LedgerInv, JournalOK
  <2>2. AsSeq(journal)' /\ (Len(journal) <= MaxEntries)'
    BY <1>0, <1>1
  <2> QED BY <2>1, <2>2 DEF LedgerInv, JournalOK, AsSeq
<1>5. EntriesAreSound'
  <2>1. \A n \in DOMAIN journal' :
          /\ Balanced(journal'[n].lines)
          /\ \A i \in DOMAIN journal'[n].lines : account'[journal'[n].lines[i][1]] # "absent"
    <3> TAKE n \in DOMAIN journal'
    <3>1. CASE journal'[n] = e
      BY <3>1
    <3>2. CASE n \in DOMAIN journal /\ journal'[n] = journal[n]
      BY <3>2, NamedIn DEF LedgerInv, JournalOK, EntriesAreSound, AccountsKept
    <3> QED BY <1>3, <3>1, <3>2
  <2> QED BY <2>1 DEF EntriesAreSound
<1> QED BY <1>1, <1>2, <1>4, <1>5 DEF LedgerInv

\* The same, for what the engine posts: missing roles are seeded first.
LEMMA PostedStep ==
  ASSUME LedgerInv, NEW date \in Days, NEW source, NEW of, NEW lines,
         Balanced(lines), lines \in LinesIn(Accounts, Int), Len(journal) < MaxEntries,
         journal' = Posted(date, source, of, lines), account' = Healed(Named(lines)),
         UNCHANGED <<lock, today, edits>>,
         \A i \in DOMAIN lines :
           lines[i][1] \in SystemAccounts \/ account[lines[i][1]] # "absent"
  PROVE  LedgerInv' /\ Longer /\ Len(journal') = Len(journal) + 1 /\ AccountsKept
<1>1. PICK e : e = Entry(date, source, of, lines)
  OBVIOUS
<1>2. e.date = date /\ e.lines = lines /\ journal' = Append(journal, e)
  BY <1>1 DEF Entry, Posted
<1>3. /\ AccountsOK' /\ AccountsKept
      /\ \A a \in Named(lines) \cap SystemAccounts : account'[a] # "absent"
  BY HealedKeeps DEF LedgerInv, AccountsOK, AccountsKept
<1>4. \A i \in DOMAIN lines : account'[lines[i][1]] # "absent"
  BY <1>3, NamedIn DEF Named, AccountsKept
<1> QED BY <1>2, <1>3, <1>4, EntryAdded

\* And for the mirror image of an entry.
LEMMA ReversedStep ==
  ASSUME LedgerInv, NEW n \in 1..Len(journal), NEW of, Reversible(n),
         journal' = Reversed(n, of), UNCHANGED <<account, lock, today, edits>>
  PROVE  LedgerInv' /\ Longer /\ Len(journal') = Len(journal) + 1 /\ AccountsKept
<1>1. PICK e : e = [Entry(today, "reversal", of, Mirror(n)) EXCEPT !.reverses = n]
  OBVIOUS
<1>2. e.date = today /\ e.lines = Mirror(n) /\ journal' = Append(journal, e)
  BY <1>1 DEF Entry, Reversed
<1>3. /\ AsSeq(journal) /\ n \in DOMAIN journal /\ today \in Days
  BY Appended DEF LedgerInv, JournalOK
<1>4. DOMAIN e.lines = DOMAIN journal[n].lines
      /\ \A i \in DOMAIN e.lines : e.lines[i][1] = journal[n].lines[i][1]
  BY <1>2 DEF Mirror
<1>5. e.lines \in LinesIn(Accounts, Int)
  BY <1>2, <1>3, MirrorIn DEF LedgerInv, JournalOK
<1>8. \A i \in DOMAIN e.lines : account'[e.lines[i][1]] # "absent"
  BY <1>3, <1>4 DEF LedgerInv, EntriesAreSound
<1>6. Balanced(e.lines) /\ Len(journal) < MaxEntries
  BY <1>2 DEF Reversible, Postable
<1>7. AccountsOK' /\ AccountsKept
  BY DEF LedgerInv, AccountsOK, AccountsKept
<1> QED BY <1>2, <1>3, <1>5, <1>6, <1>7, <1>8, EntryAdded

\* A step that posts nothing.
LEMMA QuietStep ==
  ASSUME LedgerInv, AccountsOK', AccountsKept, journal' = journal,
         lock' \in 0..MaxDay, today' \in Days, edits' \in 0..MaxEdits
  PROVE  LedgerInv' /\ Longer
<1>1. AsSeq(journal) /\ Len(journal) \in Nat /\ Len(journal) <= MaxEntries
  BY Appended DEF LedgerInv, JournalOK
<1>2. JournalOK'
  BY DEF LedgerInv, JournalOK, AsSeq
<1>3. EntriesAreSound'
  BY NamedIn DEF LedgerInv, JournalOK, EntriesAreSound, AccountsKept
<1> QED BY <1>1, <1>2, <1>3 DEF LedgerInv, Longer

LEMMA UntouchedLedger ==
  ASSUME LedgerInv, UNCHANGED ledger
  PROVE  LedgerInv' /\ Longer /\ AccountsKept
<1>1. AccountsOK' /\ AccountsKept /\ journal' = journal /\ lock' \in 0..MaxDay /\ today' \in Days
        /\ edits' \in 0..MaxEdits
  BY DEF LedgerInv, AccountsOK, JournalOK, AccountsKept, ledger
<1> QED BY <1>1, QuietStep

\* One document is written.
LEMMA DocWritten ==
  ASSUME DocsOK, NEW d \in Docs, NEW row \in DocRow, doc' = [doc EXCEPT ![d] = row],
         row.status # "absent", Pointing(row, Live, Len(journal')),
         row.account # None => account'[row.account] # "absent",
         doc[d].status # "absent" => row.template = doc[d].template /\ (doc[d].entry >= 1 => row.entry >= 1),
         Longer, AccountsKept
  PROVE  DocsOK' /\ Onward
<1>1. doc \in [Docs -> DocRow] /\ doc' \in [Docs -> DocRow] /\ doc'[d] = row
      /\ \A x \in Docs \ {d} : doc'[x] = doc[x]
  BY DEF DocsOK
<1>2. Onward
  BY <1>1 DEF Onward
<1>3. \A x \in Docs : /\ Pointing(doc'[x], Live, Len(journal'))
                      /\ doc'[x].account # None => account'[doc'[x].account] # "absent"
  <2> TAKE x \in Docs
  <2>1. CASE x = d
    BY <1>1, <2>1
  <2>2. CASE x # d
    <3>1. doc[x] \in DocRow /\ Pointing(doc[x], Live, Len(journal))
          /\ (doc[x].account # None => account[doc[x].account] # "absent")
      BY <1>1 DEF DocsOK
    <3>2. doc[x].entry \in Nat /\ doc[x].account \in Accounts \cup {None}
      BY <3>1, LineAccountsAre DEF DocRow
    <3>3. Pointing(doc[x], Live, Len(journal'))
      BY <3>1, <3>2 DEF Pointing, Longer
    <3> QED BY <1>1, <2>2, <3>1, <3>2, <3>3 DEF AccountsKept
  <2> QED BY <2>1, <2>2
<1> QED BY <1>1, <1>2, <1>3 DEF DocsOK

LEMMA DocsUntouched ==
  ASSUME DocsOK, doc' = doc, Longer,
         \A d \in Docs : doc[d].account # None => account'[doc[d].account] # "absent"
  PROVE  DocsOK' /\ Onward
<1>1. Onward
  BY DEF Onward
<1>2. \A x \in Docs : Pointing(doc[x], Live, Len(journal'))
  <2> TAKE x \in Docs
  <2>1. doc[x].entry \in Nat /\ Pointing(doc[x], Live, Len(journal))
    BY DEF DocsOK, DocRow
  <2> QED BY <2>1 DEF Pointing, Longer
<1> QED BY <1>1, <1>2 DEF DocsOK

LEMMA AccountsOfDocs ==
  ASSUME DocsOK, AccountsKept
  PROVE  \A d \in Docs : doc[d].account # None => account'[doc[d].account] # "absent"
BY LineAccountsAre DEF DocsOK, DocRow, AccountsKept

\* Payments and expenses are as they were.
LEMMA SpentUntouched ==
  ASSUME SpentOK, UNCHANGED <<payment, expense>>, Longer, Onward
  PROVE  SpentOK'
<1>1. \A p \in Payments : Pointing(payment[p], {"recorded"}, Len(journal'))
  <2> TAKE p \in Payments
  <2>1. payment[p].entry \in Nat /\ Pointing(payment[p], {"recorded"}, Len(journal))
    BY DEF SpentOK, PaymentRow
  <2> QED BY <2>1 DEF Pointing, Longer
<1>2. \A e \in Expenses : Pointing(expense[e], {"recorded"}, Len(journal'))
  <2> TAKE e \in Expenses
  <2>1. expense[e].entry \in Nat /\ Pointing(expense[e], {"recorded"}, Len(journal))
    BY DEF SpentOK, ExpenseRow
  <2> QED BY <2>1 DEF Pointing, Longer
<1>3. \A p \in Payments : payment[p].status = "recorded" =>
         \A d \in DOMAIN payment[p].applied : doc'[d].status # "absent" /\ doc'[d].entry >= 1
  <2> SUFFICES ASSUME NEW p \in Payments, payment[p].status = "recorded",
                      NEW d \in DOMAIN payment[p].applied
               PROVE  doc'[d].status # "absent" /\ doc'[d].entry >= 1
    OBVIOUS
  <2>1. d \in Docs
    BY DEF SpentOK, PaymentRow
  <2> QED BY <2>1 DEF SpentOK, Onward
<1> QED BY <1>1, <1>2, <1>3 DEF SpentOK

\* What a request knows stays true while documents stay documents.
LEMMA StillKnows ==
  ASSUME NEW q \in Request, Knows(q), Onward
  PROVE  Knows(q)'
BY DEF Knows, Billed, Onward, Docs

LEMMA RequestsUntouched ==
  ASSUME RequestsOK, req' = req, Onward
  PROVE  RequestsOK'
<1>1. \A w \in Workers : Knows(req[w])'
  <2> TAKE w \in Workers
  <2>1. PICK q \in Request : q = req[w]
    BY DEF RequestsOK
  <2>2. Knows(q)
    BY <2>1 DEF RequestsOK
  <2>3. Knows(q)'
    BY <2>2, StillKnows
  <2> QED BY <2>1, <2>3 DEF Knows, Billed
<1> QED BY <1>1 DEF RequestsOK

LEMMA RequestSet ==
  ASSUME RequestsOK, NEW w \in Workers, NEW q \in Request, req' = [req EXCEPT ![w] = q], Knows(q)', Onward
  PROVE  RequestsOK'
<1>1. \A v \in Workers : Knows(req[v])'
  <2> TAKE v \in Workers
  <2>1. CASE v = w
    <3>1. req'[v] = q
      BY <2>1 DEF RequestsOK
    <3> QED BY <3>1 DEF Knows, Billed
  <2>2. CASE v # w
    <3>1. PICK r \in Request : r = req[v] /\ r = req'[v]
      BY <2>2 DEF RequestsOK
    <3>2. Knows(r)
      BY <3>1 DEF RequestsOK
    <3>3. Knows(r)'
      BY <3>2, StillKnows
    <3> QED BY <3>1, <3>3 DEF Knows, Billed
  <2> QED BY <2>1, <2>2
<1>2. req' \in [Workers -> Request]
  BY DEF RequestsOK
<1> QED BY <1>1, <1>2 DEF RequestsOK

LEMMA MarksUntouched ==
  ASSUME MarkedOK, TermsOK, template' = template, Onward
  PROVE  MarkedOK'
BY DEF MarkedOK, Billed, Onward, Docs

----------------------------------------------------------------------------
(* The steps.                                                              *)

LEMMA InvParts ==
  BooksInv <=> LedgerInv /\ DocsOK /\ SpentOK /\ TermsOK /\ RequestsOK /\ MarkedOK
BY DEF BooksInv, LedgerInv, RowsOK

\* No row changes.
LEMMA RowsUntouched ==
  ASSUME BooksInv, UNCHANGED <<documents, req>>, LedgerInv', Longer,
         \A d \in Docs : doc[d].account # None => account'[doc[d].account] # "absent"
  PROVE  BooksInv'
<1>1. /\ DocsOK /\ SpentOK /\ TermsOK /\ RequestsOK /\ MarkedOK
      /\ doc' = doc /\ UNCHANGED <<payment, expense>> /\ template' = template /\ req' = req
      /\ UNCHANGED <<price, rate, waste>>
  BY InvParts DEF documents
<1>2. DocsOK' /\ Onward
  BY <1>1, DocsUntouched
<1>3. SpentOK' /\ RequestsOK' /\ MarkedOK'
  BY <1>1, <1>2, SpentUntouched, RequestsUntouched, MarksUntouched
<1>4. TermsOK'
  BY <1>1 DEF TermsOK, AsSeq
<1> QED BY <1>2, <1>3, <1>4 DEF BooksInv, LedgerInv, RowsOK

\* One document changes, and the ledger may have grown.
LEMMA DocStep ==
  ASSUME BooksInv, NEW d \in Docs, NEW row \in DocRow, doc' = [doc EXCEPT ![d] = row], Rest,
         row.status # "absent", Pointing(row, Live, Len(journal')),
         row.account # None => account'[row.account] # "absent",
         doc[d].status # "absent" => row.template = doc[d].template /\ (doc[d].entry >= 1 => row.entry >= 1),
         Longer, AccountsKept
  PROVE  DocsOK' /\ SpentOK' /\ TermsOK' /\ MarkedOK' /\ Onward
<1>1. /\ DocsOK /\ SpentOK /\ TermsOK /\ RequestsOK /\ MarkedOK
      /\ UNCHANGED <<payment, expense>> /\ template' = template /\ UNCHANGED <<price, rate, waste>>
  BY InvParts DEF Rest
<1>2. DocsOK' /\ Onward
  BY <1>1, DocWritten
<1>3. SpentOK' /\ MarkedOK'
  BY <1>1, <1>2, SpentUntouched, MarksUntouched
<1>4. TermsOK'
  BY <1>1 DEF TermsOK, AsSeq
<1> QED BY <1>2, <1>3, <1>4

LEMMA AmountsTyped == Amounts \subseteq Nat /\ Receipts \subseteq Nat
  BY BooksAssumption

LEMMA ChartStep ==
  ASSUME BooksInv, ChartNext
  PROVE  BooksInv'
<1> USE LedgerAssumption DEF Days
<1>0. LedgerInv /\ DocsOK /\ AccountsOK /\ JournalOK
  BY InvParts DEF LedgerInv
<1>1. CASE Chart(Midnight)
  <2>1. /\ UNCHANGED <<documents, req>> /\ account' = account /\ journal' = journal
        /\ lock' = lock /\ edits' = edits /\ today' = today + 1 /\ today < MaxDay
    BY <1>1 DEF Chart, Midnight
  <2>2. AccountsOK' /\ AccountsKept /\ lock' \in 0..MaxDay /\ today' \in Days /\ edits' \in 0..MaxEdits
    BY <2>1, <1>0 DEF AccountsOK, AccountsKept, JournalOK
  <2> QED BY <2>1, <2>2, <1>0, QuietStep, AccountsOfDocs, RowsUntouched
<1>2. ASSUME NEW d \in 0..MaxDay, UpdateSettings(d), UNCHANGED <<documents, req>> PROVE BooksInv'
  <2>1. /\ account' = account /\ journal' = journal /\ today' = today
        /\ edits < MaxEdits /\ edits' = edits + 1 /\ lock' = d
    BY <1>2 DEF UpdateSettings, Edit
  <2>2. AccountsOK' /\ AccountsKept /\ lock' \in 0..MaxDay /\ today' \in Days /\ edits' \in 0..MaxEdits
    BY <2>1, <1>0 DEF AccountsOK, AccountsKept, JournalOK
  <2> QED BY <1>2, <2>1, <2>2, <1>0, QuietStep, AccountsOfDocs, RowsUntouched
<1>3. ASSUME NEW a \in Accounts, Chart(CreateAccount(a)) \/ Chart(UpdateAccount(a)) PROVE BooksInv'
  <2>1. /\ UNCHANGED <<documents, req>> /\ journal' = journal /\ lock' = lock /\ today' = today
        /\ edits < MaxEdits /\ edits' = edits + 1
        /\ account' = [account EXCEPT ![a] = "active"] \/ account' = [account EXCEPT ![a] = "inactive"]
    BY <1>3 DEF Chart, CreateAccount, UpdateAccount, Edit
  <2>2. AccountsOK' /\ AccountsKept
    BY <2>1, <1>0 DEF AccountsOK, AccountsKept
  <2>3. lock' \in 0..MaxDay /\ today' \in Days /\ edits' \in 0..MaxEdits
    BY <2>1, <1>0 DEF JournalOK
  <2> QED BY <2>1, <2>2, <2>3, <1>0, QuietStep, AccountsOfDocs, RowsUntouched
<1>4. ASSUME NEW a \in Accounts, Chart(DeleteAccount(a, Referenced)) PROVE BooksInv'
  <2>1. /\ UNCHANGED <<documents, req>> /\ journal' = journal /\ lock' = lock /\ today' = today
        /\ edits < MaxEdits /\ edits' = edits + 1
        /\ account' = [account EXCEPT ![a] = "absent"] /\ ~HasActivity(a) /\ a \notin Referenced
    BY <1>4 DEF Chart, DeleteAccount, Edit
  <2>2. AccountsOK' /\ \A b \in Accounts \ {a} : account'[b] = account[b]
    BY <2>1, <1>0 DEF AccountsOK
  <2>3. JournalOK'
    BY <2>1, <1>0 DEF JournalOK, AsSeq
  <2>4. EntriesAreSound'
    BY <2>1, <2>2, <1>0, NamedIn DEF LedgerInv, JournalOK, EntriesAreSound, HasActivity
  <2>5. Longer
    <3>1. AsSeq(journal) /\ Len(journal) <= MaxEntries
      BY <1>0 DEF JournalOK
    <3> QED BY <2>1, <3>1, Appended DEF Longer
  <2>6. \A d \in Docs : doc[d].account # None => account'[doc[d].account] # "absent"
    <3> SUFFICES ASSUME NEW d \in Docs, doc[d].account # None PROVE account'[doc[d].account] # "absent"
      OBVIOUS
    <3>1. doc[d].account \in Accounts /\ account[doc[d].account] # "absent"
      BY <1>0, LineAccountsAre DEF DocsOK, DocRow
    <3>2. doc[d].account # a
      BY <2>1 DEF Referenced
    <3> QED BY <3>1, <3>2, <2>2
  <2> QED BY <2>1, <2>2, <2>3, <2>4, <2>5, <2>6, RowsUntouched DEF LedgerInv
<1>5. ASSUME NEW a \in UserAccounts, NEW x \in Amounts, NEW d \in Days,
             Chart(CreateManualEntry(d, << <<a, x>>, <<"cash", -x>> >>))
      PROVE  BooksInv'
  <2>1. PICK lines : lines = << <<a, x>>, <<"cash", -x>> >>
    OBVIOUS
  <2>2. /\ UNCHANGED <<documents, req>> /\ UNCHANGED <<account, lock, today, edits>>
        /\ \A i \in DOMAIN lines : Usable(lines[i][1], Types)
        /\ Postable(d, lines) /\ journal' = Posted(d, "manual", None, lines)
    BY <1>5, <2>1 DEF Chart, CreateManualEntry
  <2>3. PICK e : e = Entry(d, "manual", None, lines)
    OBVIOUS
  <2>4. e.date = d /\ e.lines = lines /\ journal' = Append(journal, e)
    BY <2>2, <2>3 DEF Entry, Posted
  <2>5. lines \in LinesIn(Accounts, Int)
    <3>1. a \in Accounts /\ "cash" \in Accounts /\ x \in Int /\ -x \in Int
      BY Roles, AmountsTyped DEF Accounts
    <3> QED BY <3>1, <2>1, TwoLinesIn
  <2>6. e.lines \in LinesIn(Accounts, Int) /\ \A i \in DOMAIN e.lines : account'[e.lines[i][1]] # "absent"
    BY <2>2, <2>4, <2>5 DEF Usable
  <2>7. AccountsOK' /\ AccountsKept
    BY <2>2, <1>0 DEF AccountsOK, AccountsKept
  <2>8. Balanced(e.lines) /\ Len(journal) < MaxEntries
    BY <2>2, <2>4 DEF Postable
  <2>9. LedgerInv' /\ Longer
    BY <2>2, <2>4, <2>6, <2>7, <2>8, <1>0, EntryAdded
  <2> QED BY <2>2, <2>7, <2>9, <1>0, AccountsOfDocs, RowsUntouched
<1> QED BY <1>1, <1>2, <1>3, <1>4, <1>5 DEF ChartNext

LEMMA LineAccountsTyped == \A d : LineAccounts(d) \subseteq UserAccounts \cup {None}
  BY DEF LineAccounts

\* A document is drafted or rewritten, and nothing else happens.
LEMMA DraftWritten ==
  ASSUME BooksInv, NEW d \in Docs, NEW row \in DocRow, doc' = [doc EXCEPT ![d] = row],
         UNCHANGED ledger, Rest,
         row.status # "absent", row.status \in Live => row.entry >= 1,
         row.entry = 0 \/ row.entry = doc[d].entry,
         row.account # None => account[row.account] # "absent",
         doc[d].status # "absent" => row.template = doc[d].template /\ row.entry = doc[d].entry
  PROVE  LedgerInv' /\ DocsOK' /\ SpentOK' /\ TermsOK' /\ MarkedOK' /\ Onward
<1>1. LedgerInv' /\ Longer /\ AccountsKept
  BY UntouchedLedger, InvParts
<1>2. Pointing(row, Live, Len(journal'))
  <2>1. doc[d].entry <= Len(journal) /\ doc[d].entry \in Nat
    BY InvParts DEF DocsOK, Pointing, DocRow
  <2> QED BY <2>1, <1>1 DEF Pointing, Longer, DocRow
<1>3. row.account # None => account'[row.account] # "absent"
  BY DEF ledger
<1> QED BY <1>1, <1>2, <1>3, DocStep

LEMMA DraftStep ==
  ASSUME BooksInv, DraftNext
  PROVE  BooksInv'
<1>0. /\ RequestsOK /\ doc \in [Docs -> DocRow] /\ \A d \in Docs : Pointing(doc[d], Live, Len(journal))
      /\ \A d \in Docs : doc[d].account # None => account[doc[d].account] # "absent"
  BY InvParts DEF DocsOK
<1>1. ASSUME NEW d \in Docs, NEW net \in Nat, NEW a \in UserAccounts \cup {"inventory", None},
             NEW taxed \in BOOLEAN, NEW date \in Days, Draft(d, net, a, taxed, date) \/ Redraft(d, net, a, taxed, date), OnlyDocs
      PROVE  BooksInv'
  <2>0. UNCHANGED ledger /\ Rest /\ req' = req
    BY <1>1 DEF OnlyDocs, Rest
  <2>1. CASE Draft(d, net, a, taxed, date)
    <3>1. PICK base : base = [NoDoc EXCEPT !.status = "draft", !.date = date]
      OBVIOUS
    <3>0. base \in DocRow /\ base = [status |-> "draft", net |-> 0, tax |-> 0, paid |-> 0, entry |-> 0,
                  date |-> date, account |-> None, order |-> None, template |-> None]
      BY <3>1, NewDraft
    <3>2. base \in DocRow /\ base.status = "draft" /\ base.entry = 0
      BY <3>0
    <3>3. PICK row : row = Lined(base, net, a, taxed)
      OBVIOUS
    <3>4. row \in DocRow /\ row.status = "draft" /\ row.entry = 0 /\ row.account = a
      BY <3>2, <3>3, LinedRow
    <3>5. doc' = [doc EXCEPT ![d] = row] /\ doc[d].status = "absent" /\ LineAllowed(d, a, taxed)
      BY <2>1, <3>1, <3>3 DEF Draft
    <3>6. a # None => account[a] # "absent"
      BY <3>5 DEF LineAllowed, Usable
    <3>7. LedgerInv' /\ DocsOK' /\ SpentOK' /\ TermsOK' /\ MarkedOK' /\ Onward
      BY <2>0, <3>4, <3>5, <3>6, DraftWritten DEF Live
    <3> QED BY <3>7, <2>0, <1>0, RequestsUntouched DEF BooksInv, LedgerInv, RowsOK
  <2>2. CASE Redraft(d, net, a, taxed, date)
    <3>1. PICK base : base = [doc[d] EXCEPT !.date = date]
      OBVIOUS
    <3>2. doc[d] \in DocRow /\ doc[d].status = "draft"
      BY <2>2, <1>0 DEF Redraft
    <3>3. base \in DocRow /\ base.status = "draft" /\ base.entry = doc[d].entry
          /\ base.template = doc[d].template /\ base.account = doc[d].account
      BY <3>1, <3>2 DEF DocRow
    <3>4. PICK row : row = IF net = 0 THEN base ELSE Lined(base, net, a, taxed)
      OBVIOUS
    <3>5. row \in DocRow /\ row.status = "draft" /\ row.entry = doc[d].entry /\ row.template = doc[d].template
          /\ row.account = IF net = 0 THEN doc[d].account ELSE a
      BY <3>3, <3>4, LinedRow
    <3>6. doc' = [doc EXCEPT ![d] = row] /\ (net # 0 => LineAllowed(d, a, taxed))
      BY <2>2, <3>1, <3>4 DEF Redraft
    <3>7. row.account # None => account[row.account] # "absent"
      BY <3>5, <3>6, <1>0 DEF LineAllowed, Usable
    <3>8. LedgerInv' /\ DocsOK' /\ SpentOK' /\ TermsOK' /\ MarkedOK' /\ Onward
      BY <2>0, <3>5, <3>6, <3>7, DraftWritten DEF Live
    <3> QED BY <3>8, <2>0, <1>0, RequestsUntouched DEF BooksInv, LedgerInv, RowsOK
  <2> QED BY <1>1, <2>1, <2>2
<1>2. CASE \E d \in Docs, x \in Amounts, taxed \in BOOLEAN, on \in Days : \E a \in LineAccounts(d) :
             CreateInvoice(d, x, a, taxed, on) \/ CreateBill(d, x, a, taxed, on)
  BY <1>1, <1>2, LineAccountsTyped, AmountsTyped DEF CreateInvoice, CreateBill
<1>3. CASE \E d \in Docs, x \in Amounts \cup {0}, taxed \in BOOLEAN, on \in Days :
             \E a \in LineAccounts(d) :
               UpdateInvoice(d, x, a, taxed, on) \/ UpdateBill(d, x, a, taxed, on)
  BY <1>1, <1>3, LineAccountsTyped, AmountsTyped DEF UpdateInvoice, UpdateBill
<1> QED BY <1>2, <1>3 DEF DraftNext

\* The accounts and the settings are edited, but neither books nor rows.
LEMMA EditStep ==
  ASSUME LedgerInv, Edit, UNCHANGED <<account, journal, lock, today>>
  PROVE  LedgerInv' /\ Longer /\ AccountsKept
<1>1. AccountsOK' /\ AccountsKept /\ journal' = journal
  BY DEF LedgerInv, AccountsOK, AccountsKept
<1>2. lock' \in 0..MaxDay /\ today' \in Days /\ edits' \in 0..MaxEdits
  BY LedgerAssumption DEF LedgerInv, JournalOK, Edit
<1> QED BY <1>1, <1>2, QuietStep

LEMMA TermsStep ==
  ASSUME BooksInv, TermsNext
  PROVE  BooksInv'
<1>0. LedgerInv /\ DocsOK /\ SpentOK /\ TermsOK /\ RequestsOK /\ MarkedOK
  BY InvParts
<1>1. ASSUME Edit, UNCHANGED <<account, journal, lock, today, doc, payment, expense, req>>, TermsOK', MarkedOK'
      PROVE  BooksInv'
  <2>1. LedgerInv' /\ Longer /\ AccountsKept
    BY <1>0, <1>1, EditStep
  <2>2. DocsOK' /\ Onward
    BY <2>1, <1>0, <1>1, AccountsOfDocs, DocsUntouched
  <2>3. SpentOK' /\ RequestsOK'
    BY <2>1, <2>2, <1>0, <1>1, SpentUntouched, RequestsUntouched
  <2> QED BY <2>1, <2>2, <2>3, <1>1 DEF BooksInv, LedgerInv, RowsOK
<1>2. CASE CreateTaxRate \/ UpdateTaxRate
  <2>1. /\ Edit /\ UNCHANGED <<account, journal, lock, today, doc, payment, expense, template, price, waste, req>>
        /\ rate' \in {"active", "inactive"}
    BY <1>2 DEF CreateTaxRate, UpdateTaxRate
  <2>2. TermsOK'
    BY <2>1, <1>0 DEF TermsOK, AsSeq
  <2>3. MarkedOK'
    BY <2>1, <1>0 DEF MarkedOK, Billed
  <2> QED BY <2>1, <2>2, <2>3, <1>1
<1>3. ASSUME NEW r \in Recurring, NEW row \in TemplateRow, SetTemplate(r, row),
             row.last = 0 \/ row.last = template[r].last
      PROVE  BooksInv'
  <2>1. /\ Edit /\ UNCHANGED <<account, journal, lock, today, doc, payment, expense, price, rate, waste, req>>
        /\ template' = [template EXCEPT ![r] = row]
    BY <1>3 DEF SetTemplate
  <2>2. TermsOK'
    BY <2>1, <1>0 DEF TermsOK, AsSeq
  <2>3. MarkedOK'
    BY <2>1, <1>3, <1>0 DEF MarkedOK, Billed, TermsOK
  <2> QED BY <2>1, <2>2, <2>3, <1>1
<1>4. ASSUME NEW r \in Recurring, NEW x \in Amounts, NEW a \in LineAccounts(r), CreateRecurringBill(r, x, a)
      PROVE  BooksInv'
  <2>1. PICK row : row = [status |-> "active", amount |-> x, account |-> a, last |-> 0]
    OBVIOUS
  <2>2. row \in TemplateRow /\ row.last = 0
    BY <2>1, LineAccountsTyped, AmountsTyped, LedgerAssumption DEF TemplateRow
  <2> QED BY <2>1, <2>2, <1>4, <1>3 DEF CreateRecurringBill
<1>5. ASSUME NEW r \in Recurring, NEW x \in Amounts, UpdateRecurringBill(r, x) PROVE BooksInv'
  <2>1. PICK s : s = IF template[r].status = "active" THEN "inactive" ELSE "active"
    OBVIOUS
  <2>2. template[r] \in TemplateRow
    BY <1>0 DEF TermsOK
  <2>3. PICK u : u = [template[r] EXCEPT !.amount = x]
    OBVIOUS
  <2>4. PICK row : row = [u EXCEPT !.status = s]
    OBVIOUS
  <2>5. u \in TemplateRow /\ u.last = template[r].last /\ u.status = template[r].status
    BY <2>2, <2>3, AmountsTyped DEF TemplateRow
  <2>6. row \in TemplateRow /\ row.last = template[r].last
    BY <2>1, <2>4, <2>5 DEF TemplateRow
  <2>7. SetTemplate(r, row)
    BY <1>5, <2>1, <2>2, <2>3, <2>4 DEF UpdateRecurringBill, TemplateRow
  <2> QED BY <2>6, <2>7, <1>3
<1>6. ASSUME NEW r \in Recurring, DeleteRecurringBill(r) PROVE BooksInv'
  <2>1. PICK row : row = [NoTemplate EXCEPT !.status = "deleted"]
    OBVIOUS
  <2>2. row \in TemplateRow /\ row.last = 0
    BY <2>1, LedgerAssumption DEF NoTemplate, TemplateRow
  <2> QED BY <2>1, <2>2, <1>6, <1>3 DEF DeleteRecurringBill
<1>7. ASSUME NEW o \in Orders, NEW x \in Amounts, Reprice(o, x) PROVE BooksInv'
  <2>1. /\ Edit /\ UNCHANGED <<account, journal, lock, today, doc, payment, expense, template, rate, waste, req>>
        /\ price' = [price EXCEPT ![o] = x]
    BY <1>7 DEF Reprice
  <2>2. TermsOK'
    BY <2>1, <1>0, AmountsTyped DEF TermsOK, AsSeq
  <2>3. MarkedOK'
    BY <2>1, <1>0 DEF MarkedOK, Billed
  <2> QED BY <2>1, <2>2, <2>3, <1>1
<1> QED BY <1>2, <1>4, <1>5, <1>6, <1>7 DEF TermsNext

\* A document is posted: by issuing it, opening it or buying stock.
LEMMA WriteStep ==
  ASSUME BooksInv, NEW d \in Docs, doc[d].status # "absent", NEW lines,
         lines \in LinesIn(SystemAccounts \cup ({doc[d].account} \ {None}), Int), Write(d, lines), Rest
  PROVE  LedgerInv' /\ DocsOK' /\ SpentOK' /\ TermsOK' /\ MarkedOK' /\ Onward
<1>0. /\ LedgerInv /\ doc[d] \in DocRow /\ doc \in [Docs -> DocRow]
      /\ doc[d].account # None => account[doc[d].account] # "absent"
  BY InvParts DEF DocsOK
<1>1. PICK date \in Days : date = doc[d].date
  BY <1>0 DEF DocRow
<1>2. PICK n : n = Len(journal) + 1
  OBVIOUS
<1>3. PICK u : u = [doc[d] EXCEPT !.status = "open"]
  OBVIOUS
<1>4. PICK row : row = [u EXCEPT !.entry = n]
  OBVIOUS
<1>5. /\ Balanced(lines) /\ Len(journal) < MaxEntries
      /\ journal' = Posted(date, "document", d, lines) /\ account' = Healed(Named(lines))
      /\ UNCHANGED <<lock, today, edits>>
  BY <1>1 DEF Write
<1>6. doc' = [doc EXCEPT ![d] = row]
  BY <1>2, <1>3, <1>4, <1>0 DEF Write, DocRow
<1>7. /\ lines \in LinesIn(Accounts, Int)
      /\ \A i \in DOMAIN lines : lines[i][1] \in SystemAccounts \/ account[lines[i][1]] # "absent"
  <2>1. \A i \in DOMAIN lines : lines[i][1] \in SystemAccounts \cup ({doc[d].account} \ {None})
    BY NamedIn
  <2>2. SystemAccounts \cup ({doc[d].account} \ {None}) \in SUBSET Accounts
    BY <1>0, LineAccountsAre DEF DocRow, Accounts
  <2> QED BY <2>1, <2>2, <1>0, LinesOnChart
<1>8. LedgerInv' /\ Longer /\ Len(journal') = n /\ AccountsKept
  BY <1>0, <1>1, <1>2, <1>5, <1>7, PostedStep
<1>9. n \in Nat /\ n >= 1
  BY <1>2, <1>8 DEF Longer
<1>10. u \in DocRow /\ u.status = "open" /\ u.account = doc[d].account /\ u.template = doc[d].template
  BY <1>0, <1>3 DEF DocRow, Live
<1>11. row \in DocRow /\ row.status = "open" /\ row.account = doc[d].account
         /\ row.template = doc[d].template /\ row.entry = n
  BY <1>4, <1>9, <1>10 DEF DocRow
<1>12. Pointing(row, Live, Len(journal'))
  BY <1>8, <1>9, <1>11 DEF Pointing
<1>13. row.account # None => account'[row.account] # "absent"
  BY <1>0, <1>8, <1>11, LineAccountsAre DEF AccountsKept, DocRow
<1> QED BY <1>6, <1>8, <1>9, <1>11, <1>12, <1>13, DocStep

\* A request as it begins, field by field.
LEMMA IdleIs ==
  Idle = [op |-> "none", at |-> "none", d |-> None, of |-> None, date |-> 1, paid |-> FALSE, row |-> NoTemplate]
  /\ Idle \in Request /\ Knows(Idle) /\ NoTemplate \in TemplateRow
<1>1. NoTemplate \in TemplateRow
  BY LedgerAssumption DEF NoTemplate, TemplateRow
<1> QED BY <1>1, LedgerAssumption DEF Idle, Request, Knows

LEMMA IssueRequest ==
  \A d, date : [Idle EXCEPT !.op = "issue", !.at = "post", !.d = d, !.date = date]
    = [op |-> "issue", at |-> "post", d |-> d, of |-> None, date |-> date, paid |-> FALSE, row |-> NoTemplate]
<1> TAKE d, date
<1>1. PICK a : a = [Idle EXCEPT !.op = "issue", !.at = "post"]
  OBVIOUS
<1>2. a = [op |-> "issue", at |-> "post", d |-> None, of |-> None, date |-> 1, paid |-> FALSE, row |-> NoTemplate]
  BY <1>1 DEF Idle
<1>3. PICK b : b = [a EXCEPT !.d = d, !.date = date]
  OBVIOUS
<1>4. [Idle EXCEPT !.op = "issue", !.at = "post", !.d = d, !.date = date] = b
  BY <1>1, <1>3 DEF Idle
<1> QED BY <1>2, <1>3, <1>4

StartedAs(a, op, at) == [a EXCEPT !.op = op, !.at = at]

LEMMA Begun ==
  ASSUME NEW a \in Request,
         NEW op \in {"none", "issue", "from_order", "recurring", "purchase"},
         NEW at \in {"none", "post", "write", "draft", "mark", "open", "pay"}
  PROVE  /\ StartedAs(a, op, at) \in Request
         /\ StartedAs(a, op, at).op = op
         /\ StartedAs(a, op, at).at = at
         /\ StartedAs(a, op, at).d = a.d
         /\ StartedAs(a, op, at).of = a.of
         /\ StartedAs(a, op, at).date = a.date
<1>1. PICK b : b = [a EXCEPT !.op = op]
  OBVIOUS
<1>2. PICK q : q = [b EXCEPT !.at = at]
  OBVIOUS
<1>3. b \in Request /\ b.op = op /\ b.d = a.d /\ b.of = a.of /\ b.date = a.date /\ b.row = a.row
      /\ b.paid = a.paid
  BY <1>1 DEF Request
<1>4. q \in Request /\ q.op = op /\ q.at = at /\ q.d = a.d /\ q.of = a.of /\ q.date = a.date
      /\ q.row = a.row /\ q.paid = a.paid
  BY <1>2, <1>3 DEF Request
<1>5. StartedAs(a, op, at) = q
  BY <1>1, <1>2 DEF Request, StartedAs
<1> QED BY <1>4, <1>5

ReadsOrder(o, d) == [Idle EXCEPT !.of = o, !.d = d]

LEMMA OrderRead ==
  ASSUME NEW o \in Orders, NEW d \in Docs \cup {None}
  PROVE  ReadsOrder(o, d) \in Request /\ ReadsOrder(o, d).of = o /\ ReadsOrder(o, d).d = d
<1>1. PICK b : b = [Idle EXCEPT !.of = o]
  OBVIOUS
<1>2. PICK a : a = [b EXCEPT !.d = d]
  OBVIOUS
<1>3. b \in Request /\ b.of = o
  BY <1>1, IdleIs DEF Request
<1>4. a \in Request /\ a.of = o /\ a.d = d
  BY <1>2, <1>3 DEF Request
<1>5. ReadsOrder(o, d) = a
  BY <1>1, <1>2, IdleIs DEF Request, ReadsOrder
<1> QED BY <1>4, <1>5

ReadsTemplate(r, date, row) == [Idle EXCEPT !.of = r, !.date = date, !.row = row]

LEMMA TemplateRead ==
  ASSUME NEW r \in Recurring, NEW date \in Days, NEW row \in TemplateRow
  PROVE  /\ ReadsTemplate(r, date, row) \in Request
         /\ ReadsTemplate(r, date, row).of = r /\ ReadsTemplate(r, date, row).date = date
<1>1. PICK b : b = [Idle EXCEPT !.of = r]
  OBVIOUS
<1>2. PICK c : c = [b EXCEPT !.date = date]
  OBVIOUS
<1>3. PICK a : a = [c EXCEPT !.row = row]
  OBVIOUS
<1>4. b \in Request /\ b.of = r
  BY <1>1, IdleIs DEF Request
<1>5. c \in Request /\ c.of = r /\ c.date = date
  BY <1>2, <1>4 DEF Request, Days
<1>6. a \in Request /\ a.of = r /\ a.date = date /\ a.row = row
  BY <1>3, <1>5 DEF Request
<1>7. ReadsTemplate(r, date, row) = a
  BY <1>1, <1>2, <1>3, IdleIs DEF Request, ReadsTemplate
<1> QED BY <1>6, <1>7

LEMMA PurchaseRequest ==
  \A d, date, paid :
    [Idle EXCEPT !.op = "purchase", !.at = "open", !.d = d, !.date = date, !.paid = paid]
    = [op |-> "purchase", at |-> "open", d |-> d, of |-> None, date |-> date, paid |-> paid, row |-> NoTemplate]
<1> TAKE d, date, paid
<1>1. PICK a : a = [Idle EXCEPT !.op = "purchase", !.at = "open"]
  OBVIOUS
<1>2. a = [op |-> "purchase", at |-> "open", d |-> None, of |-> None, date |-> 1, paid |-> FALSE, row |-> NoTemplate]
  BY <1>1 DEF Idle
<1>3. PICK b : b = [a EXCEPT !.d = d, !.date = date]
  OBVIOUS
<1>4. b = [op |-> "purchase", at |-> "open", d |-> d, of |-> None, date |-> date, paid |-> FALSE, row |-> NoTemplate]
  BY <1>2, <1>3
<1>5. [Idle EXCEPT !.op = "purchase", !.at = "open", !.d = d, !.date = date, !.paid = paid]
        = [b EXCEPT !.paid = paid]
  BY <1>1, <1>3 DEF Idle
<1> QED BY <1>4, <1>5

\* A request reads, or ends, and no row changes.
LEMMA RequestOnly ==
  ASSUME BooksInv, UNCHANGED <<ledger, documents>>, NEW w \in Workers, NEW q \in Request, Knows(q),
         req' = [req EXCEPT ![w] = q]
  PROVE  BooksInv'
<1>1. /\ LedgerInv /\ DocsOK /\ SpentOK /\ TermsOK /\ RequestsOK /\ MarkedOK
      /\ doc' = doc /\ UNCHANGED <<payment, expense>> /\ template' = template
      /\ UNCHANGED <<price, rate, waste>>
  BY InvParts DEF documents
<1>2. LedgerInv' /\ Longer /\ AccountsKept
  BY <1>1, UntouchedLedger
<1>3. DocsOK' /\ Onward
  BY <1>1, <1>2, AccountsOfDocs, DocsUntouched
<1>4. SpentOK' /\ MarkedOK'
  BY <1>1, <1>2, <1>3, SpentUntouched, MarksUntouched
<1>5. Knows(q)'
  BY <1>3, StillKnows
<1>6. RequestsOK'
  BY <1>1, <1>3, <1>5, RequestSet
<1>7. TermsOK'
  BY <1>1 DEF TermsOK, AsSeq
<1> QED BY <1>2, <1>3, <1>4, <1>6, <1>7 DEF BooksInv, LedgerInv, RowsOK

LEMMA IssueStep ==
  ASSUME BooksInv, IssueNext
  PROVE  BooksInv'
<1>0. LedgerInv /\ DocsOK /\ SpentOK /\ TermsOK /\ RequestsOK /\ MarkedOK /\ doc \in [Docs -> DocRow]
  BY InvParts DEF DocsOK
<1>1. ASSUME NEW d \in Docs, IssueInvoice(d) \/ OpenBill(d) PROVE BooksInv'
  <2>1. PICK lines : lines \in {InvoiceLines(doc[d]), BillLines(doc[d])} /\ Post(d, lines) /\ Rest /\ req' = req
    BY <1>1 DEF IssueInvoice, OpenBill
  <2>2. lines \in LinesIn(SystemAccounts \cup ({doc[d].account} \ {None}), Int)
    BY <2>1, <1>0, DocumentLines
  <2>3. Write(d, lines) /\ doc[d].status # "absent"
    BY <2>1 DEF Post
  <2>4. LedgerInv' /\ DocsOK' /\ SpentOK' /\ TermsOK' /\ MarkedOK' /\ Onward
    BY <2>1, <2>2, <2>3, WriteStep
  <2> QED BY <2>1, <2>4, <1>0, RequestsUntouched DEF BooksInv, LedgerInv, RowsOK
<1>2. ASSUME NEW d \in Docs, Void(d) PROVE BooksInv'
  <2>1. /\ doc[d].status \notin {"absent", "void"} /\ doc' = [doc EXCEPT ![d].status = "void"]
        /\ UNCHANGED <<account, lock, today, edits, req>> /\ Rest
    BY <1>2 DEF Void, Voidable
  <2>2. PICK row : row = [doc[d] EXCEPT !.status = "void"]
    OBVIOUS
  <2>3. /\ doc[d] \in DocRow /\ Pointing(doc[d], Live, Len(journal))
        /\ (doc[d].account # None => account[doc[d].account] # "absent")
    BY <1>0 DEF DocsOK
  <2>4. /\ row \in DocRow /\ row.status = "void" /\ row.entry = doc[d].entry /\ row.entry \in Nat
        /\ row.account = doc[d].account /\ row.template = doc[d].template
        /\ doc' = [doc EXCEPT ![d] = row]
    BY <2>1, <2>2, <2>3, <1>0 DEF DocRow
  <2>5. LedgerInv' /\ Longer /\ AccountsKept
    <3>1. CASE doc[d].status = "draft"
      <4>1. UNCHANGED ledger
        BY <3>1, <2>1, <1>2 DEF Void, ledger
      <4> QED BY <4>1, <1>0, UntouchedLedger
    <3>2. CASE doc[d].status # "draft"
      <4>1. Reversible(doc[d].entry) /\ journal' = Reversed(doc[d].entry, d)
        BY <3>2, <1>2 DEF Void
      <4>2. PICK n : n = doc[d].entry
        OBVIOUS
      <4>3. n \in 1..Len(journal)
        <5>1. AsSeq(journal)
          BY <1>0 DEF LedgerInv, JournalOK
        <5>2. Len(journal) \in Nat
          BY <5>1, Appended
        <5>3. doc[d].status \in Live
          BY <2>1, <2>3, <3>2 DEF DocRow
        <5> QED BY <4>2, <5>2, <5>3, <2>3 DEF Pointing, DocRow
      <4> QED BY <4>1, <4>2, <4>3, <2>1, <1>0, ReversedStep
    <3> QED BY <3>1, <3>2
  <2>6. Pointing(row, Live, Len(journal'))
    BY <2>3, <2>4, <2>5 DEF Pointing, Longer, Live
  <2>7. row.account # None => account'[row.account] # "absent"
    BY <2>1, <2>3, <2>4
  <2>8. DocsOK' /\ SpentOK' /\ TermsOK' /\ MarkedOK' /\ Onward
    BY <2>1, <2>4, <2>5, <2>6, <2>7, DocStep
  <2> QED BY <2>1, <2>5, <2>8, <1>0, RequestsUntouched DEF BooksInv, LedgerInv, RowsOK
<1>3. ASSUME NEW w \in Workers, IssueWrite(w) PROVE BooksInv'
  <2>1. PICK d \in Docs : d = req[w].d /\ doc[d].status # "absent"
    BY <1>3, <1>0 DEF IssueWrite, RequestsOK, Knows, Docs
  <2>2. Write(d, InvoiceLines(doc[d])) /\ req' = [req EXCEPT ![w] = Idle] /\ Rest
    BY <1>3, <2>1 DEF IssueWrite
  <2>3. InvoiceLines(doc[d]) \in LinesIn(SystemAccounts \cup ({doc[d].account} \ {None}), Int)
    BY <1>0, DocumentLines
  <2>4. LedgerInv' /\ DocsOK' /\ SpentOK' /\ TermsOK' /\ MarkedOK' /\ Onward
    BY <2>1, <2>2, <2>3, WriteStep
  <2>5. Knows(Idle)' /\ Idle \in Request
    BY <2>4, IdleIs, StillKnows
  <2>6. RequestsOK'
    BY <2>2, <2>4, <2>5, <1>0, RequestSet
  <2> QED BY <2>4, <2>6 DEF BooksInv, LedgerInv, RowsOK
<1>4. ASSUME NEW w \in Workers, NEW d \in Docs, IssueRead(w, d) PROVE BooksInv'
  <2>1. PICK q : q = [Idle EXCEPT !.op = "issue", !.at = "post", !.d = d, !.date = lock]
    OBVIOUS
  <2>2. /\ d \in Invoices /\ doc[d].status = "draft" /\ UNCHANGED <<ledger, documents>>
        /\ req' = [req EXCEPT ![w] = q]
    BY <1>4, <2>1 DEF IssueRead
  <2>3. q = [op |-> "issue", at |-> "post", d |-> d, of |-> None, date |-> lock, paid |-> FALSE, row |-> NoTemplate]
    BY <2>1, IssueRequest
  <2>4. q \in Request
    BY <2>3, <1>0, IdleIs DEF Request, LedgerInv, JournalOK
  <2>5. Knows(q)
    BY <2>3, <2>2 DEF Knows
  <2> QED BY <2>2, <2>4, <2>5, RequestOnly
<1> QED BY <1>1, <1>2, <1>3, <1>4 DEF IssueNext, VoidInvoice, VoidBill

\* Payments settle documents, or let them go: those that change were posted.
LEMMA DocsMoved ==
  ASSUME DocsOK, doc' \in [Docs -> DocRow], Longer, AccountsKept,
         \A d \in Docs : \/ doc'[d] = doc[d]
                         \/ /\ doc'[d].status \in Live /\ doc[d].entry >= 1 /\ doc'[d].entry = doc[d].entry
                            /\ doc'[d].account = doc[d].account /\ doc'[d].template = doc[d].template
  PROVE  DocsOK' /\ Onward
<1>1. Onward
  BY DEF Onward, Live
<1>2. \A x \in Docs : /\ Pointing(doc'[x], Live, Len(journal'))
                      /\ doc'[x].account # None => account'[doc'[x].account] # "absent"
  <2> TAKE x \in Docs
  <2>1. /\ doc[x] \in DocRow /\ Pointing(doc[x], Live, Len(journal))
        /\ doc[x].account # None => account[doc[x].account] # "absent"
    BY DEF DocsOK
  <2>2. doc[x].entry \in Nat /\ doc[x].account \in Accounts \cup {None}
    BY <2>1, LineAccountsAre DEF DocRow
  <2>3. doc'[x].entry = doc[x].entry /\ doc'[x].account = doc[x].account
        /\ (doc'[x].status \in Live => doc[x].entry >= 1)
    BY <2>1 DEF Pointing
  <2>4. Pointing(doc'[x], Live, Len(journal'))
    BY <2>1, <2>2, <2>3 DEF Pointing, Longer
  <2> QED BY <2>1, <2>2, <2>3, <2>4 DEF AccountsKept
<1> QED BY <1>1, <1>2 DEF DocsOK

\* One payment is written.
LEMMA PaymentSet ==
  ASSUME SpentOK, NEW p \in Payments, NEW row \in PaymentRow, payment' = [payment EXCEPT ![p] = row],
         expense' = expense, Longer, Onward, Pointing(row, {"recorded"}, Len(journal')),
         row.status = "recorded" =>
           \A d \in DOMAIN row.applied : doc'[d].status # "absent" /\ doc'[d].entry >= 1
  PROVE  SpentOK'
<1>1. payment' \in [Payments -> PaymentRow] /\ expense' \in [Expenses -> ExpenseRow]
  BY DEF SpentOK
<1>2. \A q \in Payments :
        /\ Pointing(payment'[q], {"recorded"}, Len(journal'))
        /\ payment'[q].status = "recorded" =>
             \A d \in DOMAIN payment'[q].applied : doc'[d].status # "absent" /\ doc'[d].entry >= 1
  <2> TAKE q \in Payments
  <2>1. CASE q = p
    BY <2>1 DEF SpentOK
  <2>2. CASE q # p
    <3>1. /\ payment'[q] = payment[q] /\ payment[q] \in PaymentRow
          /\ Pointing(payment[q], {"recorded"}, Len(journal))
          /\ payment[q].status = "recorded" =>
               \A d \in DOMAIN payment[q].applied : doc[d].status # "absent" /\ doc[d].entry >= 1
      BY <2>2 DEF SpentOK
    <3>2. payment[q].entry \in Nat /\ DOMAIN payment[q].applied \subseteq Docs
      BY <3>1 DEF PaymentRow
    <3>3. Pointing(payment[q], {"recorded"}, Len(journal'))
      BY <3>1, <3>2 DEF Pointing, Longer
    <3> QED BY <3>1, <3>2, <3>3 DEF Onward
  <2> QED BY <2>1, <2>2
<1>3. \A e \in Expenses : Pointing(expense'[e], {"recorded"}, Len(journal'))
  <2> TAKE e \in Expenses
  <2>1. expense[e].entry \in Nat /\ Pointing(expense[e], {"recorded"}, Len(journal)) /\ expense'[e] = expense[e]
    BY DEF SpentOK, ExpenseRow
  <2> QED BY <2>1 DEF Pointing, Longer
<1> QED BY <1>1, <1>2, <1>3 DEF SpentOK

\* A row whose amount_paid and status change.
PaidTo(row, paid, status) == [row EXCEPT !.paid = paid, !.status = status]

LEMMA PaidRow ==
  ASSUME NEW row \in DocRow, NEW paid \in Nat, NEW status \in Live
  PROVE  /\ PaidTo(row, paid, status) \in DocRow
         /\ PaidTo(row, paid, status).status = status
         /\ PaidTo(row, paid, status).entry = row.entry
         /\ PaidTo(row, paid, status).account = row.account
         /\ PaidTo(row, paid, status).template = row.template
         /\ PaidTo(row, paid, status).date = row.date
         /\ PaidTo(row, paid, status).paid = paid
         /\ Total(PaidTo(row, paid, status)) = Total(row)
<1>1. PICK x : x = [row EXCEPT !.paid = paid]
  OBVIOUS
<1>2. PICK y : y = [x EXCEPT !.status = status]
  OBVIOUS
<1>3. x \in DocRow /\ x.entry = row.entry /\ x.account = row.account /\ x.template = row.template
      /\ x.date = row.date /\ x.paid = paid /\ x.net = row.net /\ x.tax = row.tax
  BY <1>1 DEF DocRow
<1>4. y \in DocRow /\ y.status = status /\ y.entry = row.entry /\ y.account = row.account
      /\ y.template = row.template /\ y.date = row.date
      /\ y.paid = paid /\ y.net = row.net /\ y.tax = row.tax
  BY <1>2, <1>3 DEF DocRow
<1>5. PaidTo(row, paid, status) = y
  BY <1>1, <1>2 DEF DocRow, PaidTo
<1> QED BY <1>4, <1>5 DEF Total

\* What a payment applies comes to an amount.
LEMMA AppliedSum ==
  ASSUME NEW S \in SUBSET Docs, NEW applied \in [S -> Nat]
  PROVE  IsFiniteSet(S) /\ SumFunction(applied) = Sum(applied, S) /\ Sum(applied, S) \in Int
<1>1. IsFiniteSet(S) /\ \A d \in S : applied[d] \in Int
  BY RowsAreFinite, FS_Subset
<1>2. Sum(applied, S) \in Int
  BY <1>1, SumIsInteger
<1> QED BY <1>1, <1>2, SumFunctionIsSum

\* Money is recorded against open documents.
LEMMA Paid ==
  ASSUME BooksInv, NEW p \in Payments, NEW incoming \in BOOLEAN, NEW amount \in Nat,
         NEW S \in SUBSET Docs, NEW applied \in [S -> Nat], NEW date \in Days,
         Pay(p, incoming, amount, applied, date)
  PROVE  LedgerInv' /\ DocsOK' /\ SpentOK' /\ TermsOK' /\ MarkedOK' /\ Onward
<1>0. LedgerInv /\ DocsOK /\ SpentOK /\ TermsOK /\ MarkedOK /\ doc \in [Docs -> DocRow]
  BY InvParts DEF DocsOK
<1>1. PICK lines : lines = PaymentLines(incoming, amount, SumFunction(applied))
  OBVIOUS
<1>2. /\ Payable(applied, amount) /\ Postable(date, lines) /\ doc' = Settled(applied)
      /\ journal' = Posted(date, "payment", p, lines) /\ account' = Healed(Named(lines))
      /\ payment' = [payment EXCEPT ![p] = [status |-> "recorded", amount |-> amount,
                                            entry |-> Len(journal) + 1, applied |-> applied]]
      /\ UNCHANGED <<lock, today, edits>> /\ expense' = expense /\ template' = template
      /\ UNCHANGED <<price, rate, waste>>
  BY <1>1 DEF Pay
<1>3. lines \in LinesIn(Accounts, Int) /\ \A i \in DOMAIN lines : lines[i][1] \in SystemAccounts
  <2>1. SumFunction(applied) \in Int
    BY AppliedSum
  <2>2. SystemAccounts \in SUBSET Accounts
    BY DEF Accounts
  <2>3. lines \in LinesIn(SystemAccounts, Int)
    BY <1>1, <2>1, PaymentLinesIn
  <2> QED BY <2>2, <2>3, LinesOnChart, NamedIn
<1>4. LedgerInv' /\ Longer /\ Len(journal') = Len(journal) + 1 /\ AccountsKept
  BY <1>0, <1>2, <1>3, PostedStep DEF Postable
<1>5. \A d \in Docs \ S : doc'[d] = doc[d]
  BY <1>2 DEF Settled
<1>6. \A d \in S : /\ doc'[d] \in DocRow /\ doc'[d].status \in Live /\ doc[d].entry >= 1
                   /\ doc'[d].entry = doc[d].entry /\ doc'[d].account = doc[d].account
                   /\ doc'[d].template = doc[d].template
  <2> TAKE d \in S
  <2>1. /\ doc[d] \in DocRow /\ doc[d].paid \in Nat /\ applied[d] \in Nat
        /\ doc[d].status \in {"open", "partial"} /\ Pointing(doc[d], Live, Len(journal))
    BY <1>0, <1>2 DEF Payable, DocRow, DocsOK
  <2>2. PICK paid : paid = doc[d].paid + applied[d]
    OBVIOUS
  <2>3. PICK status : status = StatusPaid(doc[d], paid)
    OBVIOUS
  <2>4. PICK new : new = PaidTo(doc[d], paid, status)
    OBVIOUS
  <2>5. doc'[d] = new
    BY <1>2, <2>2, <2>3, <2>4 DEF Settled, PaidTo
  <2>6. paid \in Nat /\ status \in Live
    BY <2>1, <2>2, <2>3 DEF StatusPaid, Live
  <2>7. new \in DocRow /\ new.status = status /\ new.entry = doc[d].entry
        /\ new.account = doc[d].account /\ new.template = doc[d].template
    BY <2>1, <2>4, <2>6, PaidRow
  <2>8. doc[d].entry >= 1
    BY <2>1 DEF Pointing, Live
  <2> QED BY <2>5, <2>6, <2>7, <2>8
<1>7. doc' \in [Docs -> DocRow]
  <2>1. \A d \in Docs : doc'[d] \in DocRow
    BY <1>0, <1>5, <1>6
  <2>2. doc' = [d \in Docs |-> doc'[d]]
    BY <1>2 DEF Settled
  <2> QED BY <2>1, <2>2
<1>8. DocsOK' /\ Onward
  BY <1>0, <1>4, <1>5, <1>6, <1>7, DocsMoved
<1>9. PICK n \in Nat : n = Len(journal) + 1 /\ n >= 1
  BY <1>4 DEF Longer
<1>10. PICK row : row = [status |-> "recorded", amount |-> amount, entry |-> n, applied |-> applied]
  OBVIOUS
<1>11. row \in PaymentRow /\ row.status = "recorded" /\ row.applied = applied /\ row.entry = n
  <2>1. applied \in UNION {[T -> Nat] : T \in SUBSET Docs}
    OBVIOUS
  <2> QED BY <2>1, <1>9, <1>10 DEF PaymentRow
<1>12. payment' = [payment EXCEPT ![p] = row] /\ Pointing(row, {"recorded"}, Len(journal'))
  BY <1>2, <1>4, <1>9, <1>10, <1>11 DEF Pointing
<1>13. \A d \in DOMAIN row.applied : doc'[d].status # "absent" /\ doc'[d].entry >= 1
  BY <1>6, <1>11 DEF Live
<1>14. SpentOK'
  BY <1>0, <1>2, <1>4, <1>8, <1>11, <1>12, <1>13, PaymentSet
<1>15. TermsOK' /\ MarkedOK'
  BY <1>0, <1>2, <1>8, MarksUntouched DEF TermsOK, AsSeq
<1> QED BY <1>4, <1>8, <1>14, <1>15

LEMMA PayStep ==
  ASSUME BooksInv, PayNext
  PROVE  BooksInv'
<1>0. LedgerInv /\ DocsOK /\ SpentOK /\ TermsOK /\ RequestsOK /\ MarkedOK /\ doc \in [Docs -> DocRow]
  BY InvParts DEF DocsOK
<1>1. ASSUME NEW p \in Payments, NEW x \in Receipts, NEW incoming \in BOOLEAN, NEW d \in Days,
             NEW applied \in Applications(x), CreatePayment(p, incoming, x, applied, d)
      PROVE  BooksInv'
  <2>1. PICK S \in SUBSET Docs : applied \in [S -> Nat]
    <3>1. PICK S \in (SUBSET Invoices) \cup (SUBSET Bills) : applied \in [S -> 1..x]
      BY DEF Applications
    <3> QED BY <3>1, AmountsTyped DEF Docs
  <2>2. Pay(p, incoming, x, applied, d) /\ req' = req /\ x \in Nat
    BY <1>1, AmountsTyped DEF CreatePayment
  <2>3. LedgerInv' /\ DocsOK' /\ SpentOK' /\ TermsOK' /\ MarkedOK' /\ Onward
    BY <2>1, <2>2, Paid
  <2> QED BY <2>2, <2>3, <1>0, RequestsUntouched DEF BooksInv, LedgerInv, RowsOK
<1>2. ASSUME NEW p \in Payments, VoidPayment(p) PROVE BooksInv'
  <2>1. PICK applied : applied = payment[p].applied
    OBVIOUS
  <2>2. PICK n : n = payment[p].entry
    OBVIOUS
  <2>3. PICK row : row = [payment[p] EXCEPT !.status = "void"]
    OBVIOUS
  <2>4. /\ payment[p].status = "recorded" /\ Reversible(n) /\ doc' = Unsettled(applied)
        /\ journal' = Reversed(n, p) /\ UNCHANGED <<account, lock, today, edits>>
        /\ expense' = expense /\ template' = template /\ UNCHANGED <<price, rate, waste>> /\ req' = req
        /\ payment' = [payment EXCEPT ![p].status = "void"]
    BY <1>2, <2>1, <2>2 DEF VoidPayment
  <2>5. payment[p] \in PaymentRow /\ Pointing(payment[p], {"recorded"}, Len(journal)) /\ payment[p].entry \in Nat
    BY <1>0 DEF SpentOK, PaymentRow
  <2>6. PICK S \in SUBSET Docs : applied \in [S -> Nat]
    BY <2>1, <2>5 DEF PaymentRow
  <2>7. n \in 1..Len(journal)
    <3>1. Len(journal) \in Nat
      BY <1>0, Appended DEF LedgerInv, JournalOK
    <3> QED BY <3>1, <2>2, <2>4, <2>5 DEF Pointing
  <2>8. LedgerInv' /\ Longer /\ AccountsKept
    BY <2>4, <2>7, <1>0, ReversedStep
  <2>9. \A d \in S : doc[d].status # "absent" /\ doc[d].entry >= 1
    BY <1>0, <2>1, <2>4, <2>6 DEF SpentOK
  <2>10. \A d \in Docs \ S : doc'[d] = doc[d]
    BY <2>4, <2>6 DEF Unsettled
  <2>11. \A d \in S : \/ doc'[d] = doc[d]
                      \/ /\ doc'[d] \in DocRow /\ doc'[d].status \in Live
                         /\ doc'[d].entry = doc[d].entry /\ doc'[d].account = doc[d].account
                         /\ doc'[d].template = doc[d].template
    <3> TAKE d \in S
    <3>1. doc[d] \in DocRow /\ doc[d].paid \in Nat /\ applied[d] \in Nat
      BY <1>0, <2>6 DEF DocRow
    <3>2. PICK paid : paid = Monus(doc[d].paid, applied[d])
      OBVIOUS
    <3>3. PICK status : status = IF paid = 0 THEN "open" ELSE "partial"
      OBVIOUS
    <3>4. paid \in Nat /\ status \in Live
      BY <3>1, <3>2, <3>3 DEF Monus, Live
    <3>5. CASE doc[d].status # "void"
      <4>1. PICK new : new = PaidTo(doc[d], paid, status)
        OBVIOUS
      <4>2. doc'[d] = new
        BY <2>4, <2>6, <3>2, <3>3, <3>5, <4>1 DEF Unsettled, PaidTo
      <4>3. new \in DocRow /\ new.status = status /\ new.entry = doc[d].entry
            /\ new.account = doc[d].account /\ new.template = doc[d].template
        BY <3>1, <3>4, <4>1, PaidRow
      <4> QED BY <3>4, <4>2, <4>3
    <3>6. CASE doc[d].status = "void"
      BY <2>4, <2>6, <3>6 DEF Unsettled
    <3> QED BY <3>5, <3>6
  <2>12. doc' \in [Docs -> DocRow]
    <3>1. \A d \in Docs : doc'[d] \in DocRow
      BY <1>0, <2>10, <2>11
    <3>2. doc' = [d \in Docs |-> doc'[d]]
      BY <2>4 DEF Unsettled
    <3> QED BY <3>1, <3>2
  <2>13. DocsOK' /\ Onward
    BY <1>0, <2>8, <2>9, <2>10, <2>11, <2>12, DocsMoved
  <2>14. row \in PaymentRow /\ row.status = "void" /\ row.entry = payment[p].entry
         /\ payment' = [payment EXCEPT ![p] = row]
    BY <2>3, <2>4, <2>5, <1>0 DEF PaymentRow, SpentOK
  <2>15. Pointing(row, {"recorded"}, Len(journal'))
    BY <2>5, <2>8, <2>14 DEF Pointing, Longer
  <2>16. SpentOK'
    BY <1>0, <2>4, <2>8, <2>13, <2>14, <2>15, PaymentSet
  <2>17. TermsOK' /\ MarkedOK' /\ RequestsOK'
    BY <1>0, <2>4, <2>13, MarksUntouched, RequestsUntouched DEF TermsOK, AsSeq
  <2> QED BY <2>8, <2>13, <2>16, <2>17 DEF BooksInv, LedgerInv, RowsOK
<1> QED BY <1>1, <1>2 DEF PayNext

\* Documents, terms and requests, when none of them changes.
LEMMA OnlySpent ==
  ASSUME BooksInv, LedgerInv', Longer, AccountsKept, SpentOK',
         UNCHANGED <<doc, template, price, rate, waste, req>>
  PROVE  BooksInv'
<1>1. /\ DocsOK /\ TermsOK /\ RequestsOK /\ MarkedOK /\ doc' = doc /\ template' = template /\ req' = req
      /\ UNCHANGED <<price, rate, waste>>
  BY InvParts
<1>2. DocsOK' /\ Onward
  BY <1>1, AccountsOfDocs, DocsUntouched
<1>3. RequestsOK' /\ MarkedOK' /\ TermsOK'
  BY <1>1, <1>2, RequestsUntouched, MarksUntouched DEF TermsOK, AsSeq
<1> QED BY <1>2, <1>3 DEF BooksInv, LedgerInv, RowsOK

LEMMA ExpenseSet ==
  ASSUME SpentOK, NEW x \in Expenses, NEW row \in ExpenseRow, expense' = [expense EXCEPT ![x] = row],
         payment' = payment, doc' = doc, Longer, Pointing(row, {"recorded"}, Len(journal'))
  PROVE  SpentOK'
<1>1. payment' \in [Payments -> PaymentRow] /\ expense' \in [Expenses -> ExpenseRow]
  BY DEF SpentOK
<1>2. \A p \in Payments :
        /\ Pointing(payment'[p], {"recorded"}, Len(journal'))
        /\ payment'[p].status = "recorded" =>
             \A d \in DOMAIN payment'[p].applied : doc'[d].status # "absent" /\ doc'[d].entry >= 1
  <2> TAKE p \in Payments
  <2>1. /\ payment'[p] = payment[p] /\ payment[p].entry \in Nat
        /\ Pointing(payment[p], {"recorded"}, Len(journal))
    BY DEF SpentOK, PaymentRow
  <2>2. Pointing(payment[p], {"recorded"}, Len(journal'))
    BY <2>1 DEF Pointing, Longer
  <2> QED BY <2>1, <2>2 DEF SpentOK
<1>3. \A e \in Expenses : Pointing(expense'[e], {"recorded"}, Len(journal'))
  <2> TAKE e \in Expenses
  <2>1. CASE e = x
    BY <2>1 DEF SpentOK
  <2>2. CASE e # x
    <3>1. expense[e].entry \in Nat /\ Pointing(expense[e], {"recorded"}, Len(journal)) /\ expense'[e] = expense[e]
      BY <2>2 DEF SpentOK, ExpenseRow
    <3> QED BY <3>1 DEF Pointing, Longer
  <2> QED BY <2>1, <2>2
<1> QED BY <1>1, <1>2, <1>3 DEF SpentOK

LEMMA ExpenseStep ==
  ASSUME BooksInv, NEW x \in Expenses, NEW a \in UserAccounts, NEW amount \in Int, NEW date \in Days,
         CreateExpense(x, a, amount, date)
  PROVE  BooksInv'
<1>0. LedgerInv /\ SpentOK
  BY InvParts
<1>1. PICK lines : lines = << <<a, amount>>, <<"cash", -amount>> >>
  OBVIOUS
<1>2. PICK e : e = Entry(date, "expense", x, lines)
  OBVIOUS
<1>3. /\ Usable(a, {"expense", "asset"}) /\ Usable("cash", {"asset"}) /\ Postable(date, lines)
      /\ journal' = Posted(date, "expense", x, lines)
      /\ expense' = [expense EXCEPT ![x] = [status |-> "recorded", entry |-> Len(journal) + 1,
                                            accounts |-> {a, "cash"}]]
      /\ UNCHANGED <<account, lock, today, edits>> /\ payment' = payment
      /\ UNCHANGED <<doc, template, price, rate, waste, req>>
  BY <1>1 DEF CreateExpense
<1>4. e.date = date /\ e.lines = lines /\ journal' = Append(journal, e)
  BY <1>2, <1>3 DEF Entry, Posted
<1>5. a \in Accounts /\ "cash" \in Accounts
  BY Roles DEF Accounts
<1>6. \A i \in DOMAIN lines : lines[i][1] \in {a, "cash"}
  BY <1>1
<1>7. e.lines \in LinesIn(Accounts, Int) /\ \A i \in DOMAIN e.lines : account'[e.lines[i][1]] # "absent"
  <2>1. -amount \in Int
    OBVIOUS
  <2>2. lines \in LinesIn(Accounts, Int)
    BY <1>1, <1>5, <2>1, TwoLinesIn
  <2> QED BY <2>2, <1>3, <1>4, <1>6 DEF Usable
<1>8. AccountsOK' /\ AccountsKept /\ Balanced(e.lines) /\ Len(journal) < MaxEntries
  BY <1>0, <1>3, <1>4 DEF LedgerInv, AccountsOK, AccountsKept, Postable
<1>9. LedgerInv' /\ Longer /\ Len(journal') = Len(journal) + 1
  BY <1>0, <1>3, <1>4, <1>7, <1>8, EntryAdded
<1>10. PICK n \in Nat : n = Len(journal) + 1 /\ n >= 1
  BY <1>9 DEF Longer
<1>11. PICK row : row = [status |-> "recorded", entry |-> n, accounts |-> {a, "cash"}]
  OBVIOUS
<1>12. row \in ExpenseRow /\ row.entry = n
  BY <1>5, <1>10, <1>11 DEF ExpenseRow
<1>13. expense' = [expense EXCEPT ![x] = row] /\ Pointing(row, {"recorded"}, Len(journal'))
  BY <1>3, <1>9, <1>10, <1>11, <1>12 DEF Pointing
<1>14. SpentOK'
  BY <1>0, <1>3, <1>9, <1>12, <1>13, ExpenseSet
<1> QED BY <1>3, <1>8, <1>9, <1>14, OnlySpent

LEMMA ExpenseVoided ==
  ASSUME BooksInv, NEW x \in Expenses, VoidExpense(x)
  PROVE  BooksInv'
<1>0. LedgerInv /\ SpentOK
  BY InvParts
<1>1. PICK n : n = expense[x].entry
  OBVIOUS
<1>2. PICK row : row = [expense[x] EXCEPT !.status = "void"]
  OBVIOUS
<1>3. /\ expense[x].status = "recorded" /\ Reversible(n) /\ journal' = Reversed(n, x)
      /\ expense' = [expense EXCEPT ![x].status = "void"]
      /\ UNCHANGED <<account, lock, today, edits>> /\ payment' = payment
      /\ UNCHANGED <<doc, template, price, rate, waste, req>>
  BY <1>1 DEF VoidExpense
<1>4. expense[x] \in ExpenseRow /\ Pointing(expense[x], {"recorded"}, Len(journal)) /\ expense[x].entry \in Nat
  BY <1>0 DEF SpentOK, ExpenseRow
<1>5. n \in 1..Len(journal)
  <2>1. Len(journal) \in Nat
    BY <1>0, Appended DEF LedgerInv, JournalOK
  <2> QED BY <2>1, <1>1, <1>3, <1>4 DEF Pointing
<1>6. LedgerInv' /\ Longer /\ AccountsKept
  BY <1>0, <1>3, <1>5, ReversedStep
<1>7. row \in ExpenseRow /\ row.status = "void" /\ row.entry = expense[x].entry
      /\ expense' = [expense EXCEPT ![x] = row]
  BY <1>2, <1>3, <1>4, <1>0 DEF ExpenseRow, SpentOK
<1>8. Pointing(row, {"recorded"}, Len(journal'))
  BY <1>4, <1>6, <1>7 DEF Pointing, Longer
<1>9. SpentOK'
  BY <1>0, <1>3, <1>6, <1>7, <1>8, ExpenseSet
<1> QED BY <1>3, <1>6, <1>9, OnlySpent

\* What wasted material costs is an amount.
LEMMA RoundedIsAmount == \A x \in Nat, y \in Nat \ {0} : Rounded(x, y) \in Nat
<1> TAKE x \in Nat, y \in Nat \ {0}
<1>1. 2 * x + y \in Nat /\ 2 * y \in Nat \ {0}
  OBVIOUS
<1>2. \A m \in Nat, n \in Nat \ {0} : m \div n \in Nat
  OBVIOUS
<1> QED BY <1>1, <1>2 DEF Rounded

LEMMA CostIsAmount ==
  ASSUME NEW s \in Spools, NEW q \in Nat
  PROVE  CostCents(s, q) \in Nat
<1>1. \A t \in Spools : Stock[t].price \in Nat /\ Stock[t].held \in Nat
  BY BooksAssumption
<1>2. CASE Priced(s)
  <2>1. q * Stock[s].price \in Nat /\ Stock[s].held \in Nat \ {0}
    BY <1>1, <1>2 DEF Priced
  <2> QED BY <1>2, <2>1, RoundedIsAmount DEF CostCents
<1>3. CASE ~Priced(s) /\ Kin(s) # {}
  <2> DEFINE P == [t \in Kin(s) |-> Stock[t].price]
             H == [t \in Kin(s) |-> Stock[t].held]
  <2>1. IsFiniteSet(Kin(s)) /\ \A t \in Kin(s) : P[t] \in Nat /\ H[t] \in Nat \ {0}
    <3>1. Kin(s) \subseteq Spools
      BY DEF Kin
    <3>2. \A t \in Kin(s) : Stock[t].held > 0
      BY DEF Kin, Priced
    <3> QED BY <3>1, <3>2, <1>1, RowsAreFinite, FS_Subset
  <2>2. SumFunction(P) = Sum(P, Kin(s)) /\ SumFunction(H) = Sum(H, Kin(s))
    BY SumFunctionIsSum
  <2>3. CostCents(s, q) = Rounded(q * Sum(P, Kin(s)), Sum(H, Kin(s)))
    BY <1>3, <2>2 DEF CostCents
  <2> HIDE DEF P, H
  <2>4. Sum(P, Kin(s)) \in Nat
    BY <2>1, SumOfAmounts
  <2>5. Sum(H, Kin(s)) \in Nat \ {0}
    BY <1>3, <2>1, SumOfPositives
  <2>6. q * Sum(P, Kin(s)) \in Nat
    BY <2>4
  <2> QED BY <2>3, <2>5, <2>6, RoundedIsAmount
<1>4. CASE ~Priced(s) /\ Kin(s) = {}
  BY <1>4 DEF CostCents
<1> QED BY <1>2, <1>3, <1>4

LEMMA WasteAmounts ==
  ASSUME NEW lost \in Ruined
  PROVE  /\ IsFiniteSet(DOMAIN lost) /\ DOMAIN Costs(lost) = DOMAIN lost
         /\ \A s \in DOMAIN lost : Costs(lost)[s] \in Nat
         /\ WasteTotal(lost) \in Nat
<1>1. DOMAIN lost \subseteq Spools /\ \A s \in DOMAIN lost : lost[s] \in Nat
  BY RowsAreFinite
<1>2. IsFiniteSet(DOMAIN lost)
  BY <1>1, RowsAreFinite, FS_Subset
<1>3. DOMAIN Costs(lost) = DOMAIN lost /\ \A s \in DOMAIN lost : Costs(lost)[s] \in Nat
  BY <1>1, CostIsAmount DEF Costs
<1>4. WasteTotal(lost) = Sum(Costs(lost), DOMAIN lost)
  BY <1>3, SumFunctionIsSum DEF WasteTotal
<1>5. Sum(Costs(lost), DOMAIN lost) \in Nat
  BY <1>2, <1>3, SumOfAmounts
<1> QED BY <1>2, <1>3, <1>4, <1>5

LEMMA WasteStep ==
  ASSUME BooksInv, NEW lost \in Ruined, BookWaste(lost)
  PROVE  BooksInv'
<1>0. LedgerInv /\ DocsOK /\ SpentOK /\ TermsOK /\ RequestsOK /\ MarkedOK
  BY InvParts
<1>1. PICK total : total = WasteTotal(lost)
  OBVIOUS
<1>2. PICK lines : lines = << <<"filament_waste", total>>, <<"inventory", -total>> >>
  OBVIOUS
<1>3. PICK row : waste' = Append(waste, row)
  BY DEF BookWaste
<1>4. /\ Len(waste) < MaxWaste /\ UNCHANGED <<lock, today, edits>> /\ UNCHANGED <<payment, expense>>
      /\ doc' = doc /\ template' = template /\ UNCHANGED <<price, rate>> /\ req' = req
      /\ \/ UNCHANGED <<journal, account>>
         \/ /\ Postable(today, lines) /\ journal' = Posted(today, "waste", None, lines)
            /\ account' = Healed(Named(lines))
  BY <1>1, <1>2 DEF BookWaste
<1>5. LedgerInv' /\ Longer /\ AccountsKept
  <2>1. CASE UNCHANGED <<journal, account>>
    <3>1. UNCHANGED ledger
      BY <2>1, <1>4 DEF ledger
    <3> QED BY <3>1, <1>0, UntouchedLedger
  <2>2. CASE /\ Postable(today, lines) /\ journal' = Posted(today, "waste", None, lines)
             /\ account' = Healed(Named(lines))
    <3>1. lines \in LinesIn(Accounts, Int) /\ \A i \in DOMAIN lines : lines[i][1] \in SystemAccounts
      <4>1. total \in Int /\ -total \in Int
        BY <1>1, WasteAmounts
      <4>2. "filament_waste" \in Accounts /\ "inventory" \in Accounts
        BY Roles DEF Accounts
      <4> QED BY <1>2, <4>1, <4>2, Roles, TwoLinesIn
    <3>2. today \in Days
      BY <1>0 DEF LedgerInv, JournalOK
    <3> QED BY <2>2, <3>1, <3>2, <1>0, <1>4, PostedStep DEF Postable
  <2> QED BY <1>4, <2>1, <2>2
<1>6. DocsOK' /\ Onward
  BY <1>0, <1>4, <1>5, AccountsOfDocs, DocsUntouched
<1>7. SpentOK' /\ RequestsOK' /\ MarkedOK'
  BY <1>0, <1>4, <1>5, <1>6, SpentUntouched, RequestsUntouched, MarksUntouched
<1>8. AsSeq(waste)' /\ Len(waste') <= MaxWaste
  <2>1. AsSeq(waste)
    BY <1>0 DEF TermsOK
  <2>2. AsSeq(Append(waste, row)) /\ Len(Append(waste, row)) = Len(waste) + 1 /\ Len(waste) \in Nat
    BY <2>1, Appended
  <2> QED BY <2>2, <1>3, <1>4, BooksAssumption DEF AsSeq
<1>9. TermsOK'
  BY <1>0, <1>4, <1>8 DEF TermsOK
<1> QED BY <1>5, <1>6, <1>7, <1>9 DEF BooksInv, LedgerInv, RowsOK

LEMMA SpendStep ==
  ASSUME BooksInv, SpendNext
  PROVE  BooksInv'
BY AmountsTyped, ExpenseStep, ExpenseVoided, WasteStep DEF SpendNext, RecordFilamentWaste, RecordResinWaste, RecordPlateWaste

\* The drafts of an order and of a template.
DraftOfOrder(date, o) == [NoDoc EXCEPT !.status = "draft", !.date = date, !.order = o]
DraftOfTemplate(date, t) == [NoDoc EXCEPT !.status = "draft", !.date = date, !.template = t]

LEMMA OrderDraft ==
  ASSUME NEW date \in Days, NEW o \in Orders
  PROVE  /\ DraftOfOrder(date, o) \in DocRow
         /\ DraftOfOrder(date, o).status = "draft"
         /\ DraftOfOrder(date, o).entry = 0 /\ DraftOfOrder(date, o).paid = 0
<1>1. PICK x : x = [NoDoc EXCEPT !.status = "draft", !.date = date]
  OBVIOUS
<1>2. x \in DocRow /\ x.status = "draft" /\ x.entry = 0 /\ x.paid = 0
  <2>1. x = [status |-> "draft", net |-> 0, tax |-> 0, paid |-> 0, entry |-> 0,
             date |-> date, account |-> None, order |-> None, template |-> None]
    BY <1>1 DEF NoDoc
  <2> QED BY <2>1 DEF DocRow
<1>3. PICK y : y = [x EXCEPT !.order = o]
  OBVIOUS
<1>4. y \in DocRow /\ y.status = "draft" /\ y.entry = 0 /\ y.paid = 0
  BY <1>2, <1>3 DEF DocRow
<1>5. DraftOfOrder(date, o) = y
  BY <1>1, <1>3 DEF DraftOfOrder, NoDoc
<1> QED BY <1>4, <1>5

LEMMA TemplateDraft ==
  ASSUME NEW date \in Days, NEW t \in Recurring \X Days
  PROVE  /\ DraftOfTemplate(date, t) \in DocRow
         /\ DraftOfTemplate(date, t).status = "draft"
         /\ DraftOfTemplate(date, t).entry = 0 /\ DraftOfTemplate(date, t).paid = 0
         /\ DraftOfTemplate(date, t).template = t
<1>1. PICK x : x = [NoDoc EXCEPT !.status = "draft", !.date = date]
  OBVIOUS
<1>2. x \in DocRow /\ x.status = "draft" /\ x.entry = 0 /\ x.paid = 0
  <2>1. x = [status |-> "draft", net |-> 0, tax |-> 0, paid |-> 0, entry |-> 0,
             date |-> date, account |-> None, order |-> None, template |-> None]
    BY <1>1 DEF NoDoc
  <2> QED BY <2>1 DEF DocRow
<1>3. PICK y : y = [x EXCEPT !.template = t]
  OBVIOUS
<1>4. y \in DocRow /\ y.status = "draft" /\ y.entry = 0 /\ y.paid = 0 /\ y.template = t
  BY <1>2, <1>3 DEF DocRow
<1>5. DraftOfTemplate(date, t) = y
  BY <1>1, <1>3 DEF DraftOfTemplate, NoDoc
<1> QED BY <1>4, <1>5

\* A request goes away.
LEMMA Ended ==
  ASSUME RequestsOK, NEW w \in Workers, End(w), Onward
  PROVE  RequestsOK'
<1>1. Knows(Idle)' /\ Idle \in Request
  BY IdleIs, StillKnows
<1> QED BY <1>1, RequestSet DEF End

LEMMA OrderStep ==
  ASSUME BooksInv, NEW w \in Workers
  PROVE  /\ \A o \in Orders : FromOrder(w, o) => BooksInv'
         /\ FromOrderTx(w) => BooksInv'
<1>0. LedgerInv /\ DocsOK /\ TermsOK /\ RequestsOK /\ doc \in [Docs -> DocRow]
  BY InvParts DEF DocsOK
<1>1. ASSUME NEW o \in Orders, FromOrder(w, o) PROVE BooksInv'
  <2>1. PICK d \in Invoices \cup {None} :
          /\ d # None => doc[d].status # "absent"
          /\ Begin(w, "from_order", "write", [Idle EXCEPT !.of = o, !.d = d])
    BY <1>1 DEF FromOrder, Prior
  <2>2. PICK a : a = ReadsOrder(o, d)
    OBVIOUS
  <2>3. PICK q : q = StartedAs(a, "from_order", "write")
    OBVIOUS
  <2>4. a \in Request /\ a.of = o /\ a.d = d
    BY <2>2, OrderRead DEF Docs
  <2>5. q \in Request /\ q.op = "from_order" /\ q.of = o /\ q.d = d
    BY <2>3, <2>4, Begun
  <2>6. Knows(q)
    BY <2>1, <2>5 DEF Knows
  <2>7. UNCHANGED <<ledger, documents>> /\ req' = [req EXCEPT ![w] = q]
    BY <2>1, <2>2, <2>3 DEF Begin, ReadsOrder, StartedAs
  <2> QED BY <2>5, <2>6, <2>7, RequestOnly
<1>2. ASSUME FromOrderTx(w) PROVE BooksInv'
  <2>1. PICK o : o = req[w].of
    OBVIOUS
  <2>2. /\ At(w, "from_order", "write") /\ End(w) /\ UNCHANGED ledger /\ Rest
    BY <1>2 DEF FromOrderTx
  <2>3. o \in Orders /\ price[o] \in Nat
    BY <1>0, <2>1, <2>2 DEF RequestsOK, Knows, At, TermsOK
  <2>4. ASSUME NEW d \in Docs, NEW base \in DocRow, base.entry = doc[d].entry \/ base.entry = 0,
               base.status # "absent", base.status \in Live => base.entry >= 1,
               doc[d].status # "absent" => base.template = doc[d].template /\ base.entry = doc[d].entry,
               doc' = [doc EXCEPT ![d] = Lined(base, price[o], None, rate = "active")]
        PROVE  BooksInv'
    <3>1. PICK row : row = Lined(base, price[o], None, rate = "active")
      OBVIOUS
    <3>2. row \in DocRow /\ row.account = None /\ row.status = base.status /\ row.entry = base.entry
          /\ row.template = base.template
      BY <2>3, <3>1, LinedRow
    <3>3. LedgerInv' /\ DocsOK' /\ SpentOK' /\ TermsOK' /\ MarkedOK' /\ Onward
      BY <2>2, <2>4, <3>1, <3>2, DraftWritten, ZenonT(40)
    <3> QED BY <3>3, <2>2, <1>0, Ended DEF BooksInv, LedgerInv, RowsOK
  <2>5. CASE req[w].d = None
    <3>1. PICK d \in Invoices :
            /\ doc[d].status = "absent"
            /\ doc' = [doc EXCEPT ![d] = Lined([NoDoc EXCEPT !.status = "draft", !.date = today, !.order = o],
                                               price[o], None, rate = "active")]
      BY <1>2, <2>1, <2>5 DEF FromOrderTx
    <3>2. PICK base : base = DraftOfOrder(today, o)
      OBVIOUS
    <3>3. base \in DocRow /\ base.status = "draft" /\ base.entry = 0
      BY <3>2, <2>3, <1>0, OrderDraft DEF LedgerInv, JournalOK
    <3>4. doc' = [doc EXCEPT ![d] = Lined(base, price[o], None, rate = "active")]
      BY <3>1, <3>2 DEF DraftOfOrder
    <3> QED BY <3>1, <3>3, <3>4, <2>4 DEF Docs, Live
  <2>6. CASE req[w].d # None
    <3>1. PICK d \in Docs : d = req[w].d /\ doc[d].status # "absent"
      BY <1>0, <2>2, <2>6 DEF RequestsOK, Knows, At, Docs
    <3>2. PICK base : base = doc[d]
      OBVIOUS
    <3>3. doc' = [doc EXCEPT ![d] = Lined(base, price[o], None, rate = "active")]
      BY <1>2, <2>1, <2>6, <3>1, <3>2 DEF FromOrderTx
    <3>4. base \in DocRow /\ (base.status \in Live => base.entry >= 1)
      BY <1>0, <3>2 DEF DocsOK, Pointing
    <3> QED BY <3>1, <3>2, <3>3, <3>4, <2>4
  <2> QED BY <2>5, <2>6
<1> QED BY <1>1, <1>2

LEMMA RecurringStep ==
  ASSUME BooksInv, NEW w \in Workers
  PROVE  /\ \A r \in Recurring : PostRecurringBill(w, r) => BooksInv'
         /\ RecurringDraft(w) => BooksInv'
         /\ RecurringMark(w) => BooksInv'
<1>0. /\ LedgerInv /\ DocsOK /\ SpentOK /\ TermsOK /\ RequestsOK /\ MarkedOK /\ doc \in [Docs -> DocRow]
      /\ today \in Days
  BY InvParts DEF DocsOK, LedgerInv, JournalOK
<1>1. ASSUME NEW r \in Recurring, PostRecurringBill(w, r) PROVE BooksInv'
  <2>1. PICK a : a = ReadsTemplate(r, today, template[r])
    OBVIOUS
  <2>2. PICK q : q = StartedAs(a, "recurring", "draft")
    OBVIOUS
  <2>3. a \in Request /\ a.of = r /\ a.date = today
    BY <2>1, <1>0, TemplateRead DEF TermsOK
  <2>4. q \in Request /\ q.op = "recurring" /\ q.at = "draft" /\ q.of = r /\ q.date = today
    BY <2>2, <2>3, Begun
  <2>5. Knows(q)
    BY <2>4, <1>0 DEF Knows
  <2>6. UNCHANGED <<ledger, documents>> /\ req' = [req EXCEPT ![w] = q]
    BY <1>1, <2>1, <2>2 DEF PostRecurringBill, Begin, ReadsTemplate, StartedAs
  <2> QED BY <2>4, <2>5, <2>6, RequestOnly
<1>2. ASSUME RecurringDraft(w) PROVE BooksInv'
  <2>1. PICK r \in Recurring, t \in Days, terms \in TemplateRow : r = req[w].of /\ t = req[w].date /\ terms = req[w].row
    BY <1>2, <1>0 DEF RecurringDraft, At, RequestsOK, Knows, Request
  <2>2. PICK d \in Bills :
          /\ doc[d].status = "absent" /\ LineAllowed(d, terms.account, FALSE)
          /\ doc' = [doc EXCEPT ![d] = Lined([NoDoc EXCEPT !.status = "draft", !.date = today,
                                                           !.template = <<r, t>>],
                                             terms.amount, terms.account, FALSE)]
    BY <1>2, <2>1 DEF RecurringDraft
  <2>3. UNCHANGED ledger /\ Rest /\ req' = [req EXCEPT ![w].at = "mark"] /\ req[w].op = "recurring"
    BY <1>2 DEF RecurringDraft, At
  <2>4. PICK base : base = DraftOfTemplate(today, <<r, t>>)
    OBVIOUS
  <2>5. base \in DocRow /\ base.status = "draft" /\ base.entry = 0 /\ base.template = <<r, t>>
    BY <2>4, <1>0, TemplateDraft
  <2>5a. PICK taxed : taxed = FALSE
    OBVIOUS
  <2>6. PICK row : row = Lined(base, terms.amount, terms.account, taxed)
    OBVIOUS
  <2>7a. terms.amount \in Nat /\ terms.account \in UserAccounts \cup {None}
    BY DEF TemplateRow
  <2>7. row \in DocRow /\ row.status = "draft" /\ row.entry = 0 /\ row.template = <<r, t>>
        /\ row.account = terms.account
    BY <2>5, <2>6, <2>7a, LinedRow
  <2>8. doc' = [doc EXCEPT ![d] = row] /\ d \in Docs
    BY <2>2, <2>4, <2>6, <2>5a DEF DraftOfTemplate, Docs
  <2>9. row.account # None => account[row.account] # "absent"
    BY <2>2, <2>7 DEF LineAllowed, Usable
  <2>10. LedgerInv' /\ DocsOK' /\ SpentOK' /\ TermsOK' /\ MarkedOK' /\ Onward
    BY <2>2, <2>3, <2>7, <2>8, <2>9, DraftWritten DEF Live
  <2>11. Billed(r, t)'
    BY <2>7, <2>8, <2>2, <1>0 DEF Billed
  <2>12. PICK q : q = [req[w] EXCEPT !.at = "mark"]
    OBVIOUS
  <2>13. /\ q \in Request /\ q.op = "recurring" /\ q.of = r /\ q.date = t
         /\ req' = [req EXCEPT ![w] = q]
    BY <2>1, <2>3, <2>12, <1>0 DEF RequestsOK, Request
  <2>14. Knows(q)'
    BY <2>11, <2>13 DEF Knows
  <2>15. RequestsOK'
    BY <1>0, <2>10, <2>13, <2>14, RequestSet
  <2> QED BY <2>10, <2>15 DEF BooksInv, LedgerInv, RowsOK
<1>3. ASSUME RecurringMark(w) PROVE BooksInv'
  <2>1. PICK r \in Recurring, t \in Days : r = req[w].of /\ t = req[w].date /\ Billed(r, t)
    BY <1>3, <1>0 DEF RecurringMark, At, RequestsOK, Knows
  <2>2. PICK last : last = IF template[r].status = "deleted" THEN template[r].last ELSE t
    OBVIOUS
  <2>3. PICK row : row = [template[r] EXCEPT !.last = last]
    OBVIOUS
  <2>4. template[r] \in TemplateRow
    BY <1>0 DEF TermsOK
  <2>5. last \in 0..MaxDay
    BY <2>2, <2>4 DEF TemplateRow, Days
  <2>6. row \in TemplateRow /\ row.last = last
    BY <2>3, <2>4, <2>5 DEF TemplateRow
  <2>7. /\ template' = [template EXCEPT ![r] = row] /\ End(w) /\ UNCHANGED ledger
        /\ doc' = doc /\ UNCHANGED <<payment, expense>> /\ UNCHANGED <<price, rate, waste>>
    BY <1>3, <1>0, <2>1, <2>2, <2>3, <2>4 DEF RecurringMark, TemplateRow, TermsOK
  <2>8. LedgerInv' /\ Longer /\ AccountsKept
    BY <1>0, <2>7, UntouchedLedger
  <2>9. DocsOK' /\ Onward
    BY <1>0, <2>7, <2>8, AccountsOfDocs, DocsUntouched
  <2>10. SpentOK' /\ RequestsOK'
    BY <1>0, <2>7, <2>8, <2>9, SpentUntouched, Ended
  <2>11. TermsOK'
    BY <1>0, <2>6, <2>7 DEF TermsOK, AsSeq
  <2>12. MarkedOK'
    <3>1. row.last # 0 => Billed(r, row.last)
      BY <1>0, <2>1, <2>2, <2>6 DEF MarkedOK
    <3>2. \A x \in Recurring : template'[x].last # 0 => Billed(x, template'[x].last)
      BY <1>0, <3>1, <2>7 DEF MarkedOK, TermsOK
    <3> QED BY <3>2, <2>7 DEF MarkedOK, Billed
  <2> QED BY <2>8, <2>9, <2>10, <2>11, <2>12 DEF BooksInv, LedgerInv, RowsOK
<1> QED BY <1>1, <1>2, <1>3

LEMMA PurchaseStep ==
  ASSUME BooksInv, NEW w \in Workers
  PROVE  /\ \A x \in Amounts, date \in Days, paid \in BOOLEAN :
              RecordInventoryPurchase(w, x, date, paid) => BooksInv'
         /\ PurchaseOpen(w) => BooksInv'
         /\ PurchasePay(w) => BooksInv'
<1>0. /\ LedgerInv /\ DocsOK /\ SpentOK /\ TermsOK /\ RequestsOK /\ MarkedOK /\ doc \in [Docs -> DocRow]
  BY InvParts DEF DocsOK
<1>1. ASSUME NEW x \in Amounts, NEW date \in Days, NEW paid \in BOOLEAN,
             RecordInventoryPurchase(w, x, date, paid)
      PROVE  BooksInv'
  <2>1. PICK d \in Docs :
          /\ d \in Bills /\ doc[d].status = "absent"
          /\ doc' = [doc EXCEPT ![d] = Lined([NoDoc EXCEPT !.status = "draft", !.date = date],
                                             x, "inventory", rate = "active")]
          /\ account' = Healed({"inventory", "operating_expenses", "cash"})
          /\ req' = [req EXCEPT ![w] = [Idle EXCEPT !.op = "purchase", !.at = "open", !.d = d,
                                                    !.date = date, !.paid = paid]]
          /\ UNCHANGED <<journal, lock, today, edits>> /\ Rest
    BY <1>1 DEF RecordInventoryPurchase, Docs
  <2>2. PICK roles : roles = {"inventory", "operating_expenses", "cash"}
    OBVIOUS
  <2>3. account' = Healed(roles) /\ "inventory" \in roles \cap SystemAccounts /\ "inventory" \in Accounts
    BY <2>1, <2>2, Roles DEF Accounts
  <2>4. AccountsOK' /\ AccountsKept /\ account'["inventory"] # "absent"
    BY <1>0, <2>3, HealedKeeps DEF LedgerInv, AccountsOK, AccountsKept
  <2>5. LedgerInv' /\ Longer
    BY <1>0, <2>1, <2>4, QuietStep DEF LedgerInv, JournalOK
  <2>6. PICK base : base = [NoDoc EXCEPT !.status = "draft", !.date = date]
    OBVIOUS
  <2>7. base = [status |-> "draft", net |-> 0, tax |-> 0, paid |-> 0, entry |-> 0,
                date |-> date, account |-> None, order |-> None, template |-> None]
    BY <2>6 DEF NoDoc
  <2>8. base \in DocRow /\ base.status = "draft" /\ base.entry = 0
    BY <2>7 DEF DocRow
  <2>9. PICK row : row = Lined(base, x, "inventory", rate = "active")
    OBVIOUS
  <2>10. row \in DocRow /\ row.status = "draft" /\ row.entry = 0 /\ row.account = "inventory"
    BY <2>3, <2>8, <2>9, AmountsTyped, LinedRow
  <2>11. doc' = [doc EXCEPT ![d] = row]
    BY <2>1, <2>6, <2>9
  <2>12. Pointing(row, Live, Len(journal'))
    BY <2>5, <2>10 DEF Pointing, Longer, Live
  <2>13. DocsOK' /\ SpentOK' /\ TermsOK' /\ MarkedOK' /\ Onward
    BY <2>1, <2>4, <2>5, <2>10, <2>11, <2>12, DocStep
  <2>14. PICK q : q = [Idle EXCEPT !.op = "purchase", !.at = "open", !.d = d, !.date = date, !.paid = paid]
    OBVIOUS
  <2>15. q = [op |-> "purchase", at |-> "open", d |-> d, of |-> None, date |-> date, paid |-> paid, row |-> NoTemplate]
    BY <2>14, PurchaseRequest
  <2>16. q \in Request /\ q.op = "purchase" /\ q.d = d /\ q.date = date
    BY <2>15, IdleIs DEF Request, Days
  <2>17. Knows(q)'
    BY <2>1, <2>10, <2>11, <2>16, <1>0 DEF Knows
  <2>18. RequestsOK'
    BY <1>0, <2>1, <2>13, <2>14, <2>16, <2>17, RequestSet
  <2> QED BY <2>5, <2>13, <2>18 DEF BooksInv, LedgerInv, RowsOK
<1>2. ASSUME PurchaseOpen(w) PROVE BooksInv'
  <2>1. PICK d \in Bills : d = req[w].d /\ doc[d].status # "absent"
    BY <1>2, <1>0 DEF PurchaseOpen, At, RequestsOK, Knows
  <2>2. Write(d, BillLines(doc[d])) /\ Rest /\ d \in Docs
    BY <1>2, <2>1 DEF PurchaseOpen, Post, Docs
  <2>3. BillLines(doc[d]) \in LinesIn(SystemAccounts \cup ({doc[d].account} \ {None}), Int)
    BY <1>0, <2>2, DocumentLines
  <2>4. LedgerInv' /\ DocsOK' /\ SpentOK' /\ TermsOK' /\ MarkedOK' /\ Onward
    BY <2>1, <2>2, <2>3, WriteStep
  <2>5. RequestsOK'
    <3>1. CASE End(w)
      BY <3>1, <1>0, <2>4, Ended
    <3>2. CASE req' = [req EXCEPT ![w].at = "pay"]
      <4>1. PICK r : r = req[w]
        OBVIOUS
      <4>2. PICK q : q = [r EXCEPT !.at = "pay"]
        OBVIOUS
      <4>3. r \in Request /\ Knows(r) /\ r.op = "purchase"
        BY <4>1, <1>0, <1>2 DEF RequestsOK, PurchaseOpen, At
      <4>4. q \in Request /\ q.op = "purchase" /\ q.d = r.d /\ q.date = r.date
            /\ req' = [req EXCEPT ![w] = q]
        BY <4>1, <4>2, <4>3, <3>2 DEF Request
      <4>5. Knows(q)
        BY <4>3, <4>4 DEF Knows
      <4>6. Knows(q)'
        BY <4>4, <4>5, <2>4, StillKnows
      <4> QED BY <1>0, <2>4, <4>4, <4>6, RequestSet
    <3> QED BY <1>2, <3>1, <3>2 DEF PurchaseOpen
  <2> QED BY <2>4, <2>5 DEF BooksInv, LedgerInv, RowsOK
<1>3. ASSUME PurchasePay(w) PROVE BooksInv'
  <2>1. PICK d \in Bills, date \in Days : d = req[w].d /\ date = req[w].date
    BY <1>3, <1>0 DEF PurchasePay, At, RequestsOK, Knows
  <2>2. PICK total : total = Total(doc[d])
    OBVIOUS
  <2>3. total \in Nat /\ {d} \in SUBSET Docs
    BY <1>0, <2>1, <2>2 DEF Total, DocRow, Docs
  <2>4. PICK applied : applied = [b \in {d} |-> total]
    OBVIOUS
  <2>5. applied \in [{d} -> Nat]
    BY <2>3, <2>4
  <2>6. PICK p \in Payments : Pay(p, FALSE, total, applied, date) /\ End(w)
    BY <1>3, <2>1, <2>2, <2>4 DEF PurchasePay
  <2>7. LedgerInv' /\ DocsOK' /\ SpentOK' /\ TermsOK' /\ MarkedOK' /\ Onward
    BY <2>3, <2>5, <2>6, Paid
  <2> QED BY <2>6, <2>7, <1>0, Ended DEF BooksInv, LedgerInv, RowsOK
<1> QED BY <1>1, <1>2, <1>3

LEMMA RequestStep ==
  ASSUME BooksInv, RequestNext
  PROVE  BooksInv'
<1>1. PICK w \in Workers :
        \/ Die(w) \/ FromOrderTx(w) \/ RecurringDraft(w) \/ RecurringMark(w)
        \/ PurchaseOpen(w) \/ PurchasePay(w)
        \/ \E o \in Orders : FromOrder(w, o)
        \/ \E r \in Recurring : PostRecurringBill(w, r)
        \/ \E x \in Amounts, d \in Days, paid \in BOOLEAN : RecordInventoryPurchase(w, x, d, paid)
  BY DEF RequestNext
<1>2. CASE Die(w)
  <2>1. UNCHANGED <<ledger, documents>> /\ req' = [req EXCEPT ![w] = Idle]
    BY <1>2 DEF Die, End
  <2> QED BY <2>1, IdleIs, RequestOnly
<1> QED BY <1>1, <1>2, OrderStep, RecurringStep, PurchaseStep

LEMMA BooksInit == Init => BooksInv
<1> SUFFICES ASSUME Init PROVE BooksInv
  OBVIOUS
<1>1. LedgerInv
  <2>1. AccountsOK
    BY DEF Init, LedgerInit, AccountsOK
  <2>2. JournalOK
    BY EmptyIsSeq, LedgerAssumption DEF Init, LedgerInit, JournalOK, Days
  <2>3. EntriesAreSound
    BY EmptyIsSeq DEF Init, LedgerInit, EntriesAreSound
  <2> QED BY <2>1, <2>2, <2>3 DEF LedgerInv
<1>2. DocsOK
  <2>1. NoDoc \in DocRow /\ NoDoc.status = "absent" /\ NoDoc.entry = 0 /\ NoDoc.account = None
    BY LedgerAssumption DEF NoDoc, DocRow, Days
  <2>2. doc = [d \in Docs |-> NoDoc] /\ Len(journal) = 0
    BY EmptyIsSeq DEF Init, LedgerInit
  <2> QED BY <2>1, <2>2 DEF DocsOK, Pointing, Live
<1>3. SpentOK
  <2>1. NoPayment \in PaymentRow /\ NoPayment.status = "absent" /\ NoPayment.entry = 0
    <3>1. [d \in {} |-> 0] \in [{} -> Nat]
      OBVIOUS
    <3>2. [d \in {} |-> 0] \in UNION {[T -> Nat] : T \in SUBSET Docs}
      BY <3>1
    <3> QED BY <3>2 DEF NoPayment, PaymentRow
  <2>2. NoExpense \in ExpenseRow /\ NoExpense.status = "absent" /\ NoExpense.entry = 0
    BY DEF NoExpense, ExpenseRow
  <2>3. payment = [p \in Payments |-> NoPayment] /\ expense = [e \in Expenses |-> NoExpense] /\ Len(journal) = 0
    BY EmptyIsSeq DEF Init, LedgerInit
  <2> QED BY <2>1, <2>2, <2>3 DEF SpentOK, Pointing
<1>4. TermsOK /\ MarkedOK
  <2>1. template = [r \in Recurring |-> NoTemplate] /\ NoTemplate.last = 0
    BY DEF Init, NoTemplate
  <2>2. MarkedOK
    BY <2>1 DEF MarkedOK
  <2>3. price \in [Orders -> Nat] /\ rate \in {"absent", "active", "inactive"} /\ waste = <<>>
    BY DEF Init
  <2> QED BY <2>1, <2>2, <2>3, IdleIs, EmptyIsSeq, BooksAssumption DEF TermsOK
<1>5. RequestsOK
  <2>1. req = [w \in Workers |-> Idle]
    BY DEF Init
  <2> QED BY <2>1, IdleIs DEF RequestsOK
<1> QED BY <1>1, <1>2, <1>3, <1>4, <1>5, InvParts

\* Every step of the program keeps the invariant.
LEMMA BooksSteps == BooksInv /\ [Next]_vars => BooksInv'
<1> SUFFICES ASSUME BooksInv, [Next]_vars PROVE BooksInv'
  OBVIOUS
<1>1. CASE UNCHANGED vars
  <2>1. UNCHANGED ledger /\ UNCHANGED <<documents, req>> /\ LedgerInv /\ DocsOK
    BY <1>1, InvParts DEF vars
  <2>2. LedgerInv' /\ Longer /\ AccountsKept
    BY <2>1, UntouchedLedger
  <2> QED BY <2>1, <2>2, AccountsOfDocs, RowsUntouched
<1> QED BY <1>1, ChartStep, DraftStep, TermsStep, IssueStep, PayStep, SpendStep, RequestStep DEF Next

\* The rows keep what their columns may hold, a posted row points at an entry
\* of the journal, every entry balances and names accounts that still exist,
\* and a request that is about to mark a month has its bill: whatever is
\* drafted, posted, paid, voided, bought or wasted, in whatever order, and
\* wherever a request dies.
THEOREM BooksInvariance == Spec => []BooksInv
BY BooksInit, BooksSteps, PTL DEF Spec

\* Two of the three parts of HistoryStaysWhole: rows hold what their columns
\* may, and no account disappears under its history: deleteAccount refuses one
\* with activity, and the documents' foreign keys hold on to theirs.
THEOREM RowsAndEntriesAreSound == Spec => [](TypeOK /\ EntriesAreSound)
<1>1. BooksInv => TypeOK /\ EntriesAreSound
  <2> SUFFICES ASSUME BooksInv PROVE TypeOK
    BY DEF BooksInv
  <2>0. LedgerInv /\ DocsOK /\ SpentOK /\ TermsOK
    BY InvParts
  <2>1. LedgerTypeOK /\ Len(journal) \in Nat
    <3>1. Len(journal) \in Nat
      BY <2>0, Appended DEF LedgerInv, JournalOK
    <3> QED BY <3>1, <2>0, LedgerAssumption DEF LedgerInv, AccountsOK, JournalOK, LedgerTypeOK
  <2>2. \A d \in Docs : /\ doc[d].status \in {"absent", "draft", "void"} \cup Live
                         /\ {doc[d].net, doc[d].tax, doc[d].paid} \subseteq Nat
                         /\ doc[d].entry \in 0..Len(journal) /\ doc[d].date \in Days
    BY <2>0, <2>1 DEF DocsOK, DocRow, Pointing
  <2>3. \A p \in Payments : /\ payment[p].status \in {"absent", "recorded", "void"}
                             /\ DOMAIN payment[p].applied \subseteq Docs
    BY <2>0 DEF SpentOK, PaymentRow
  <2>4. \A r \in Recurring : template[r].last \in 0..MaxDay
    BY <2>0 DEF TermsOK, TemplateRow
  <2>5. Len(waste) \in 0..MaxWaste
    <3>1. Len(waste) \in Nat
      BY <2>0, Appended DEF TermsOK
    <3> QED BY <3>1, <2>0, BooksAssumption DEF TermsOK
  <2> QED BY <2>1, <2>2, <2>3, <2>4, <2>5 DEF TypeOK
<1> QED BY <1>1, BooksInvariance, PTL

\* A month a template is marked for has its bill (postRecurringBill marks it
\* after the bill is there, and nothing deletes the bill), for any number of
\* requests at once.
THEOREM MarkedMonthsWereBilled == Spec => []MarkedMonthWasBilled
<1>1. BooksInv => MarkedMonthWasBilled
  BY DEF BooksInv, RowsOK, MarkedOK, Billed, MarkedMonthWasBilled
<1> QED BY <1>1, BooksInvariance, PTL

----------------------------------------------------------------------------
(* The reports of closed books.                                            *)

\* The reports, as functions of the journal.
LineSum(lines, a) == SumFunction([i \in DOMAIN lines |-> IF lines[i][1] = a THEN lines[i][2] ELSE 0])
NetOf(j, a, S) == SumFunction([n \in S |-> LineSum(j[n].lines, a)])
ShownOf(j, a, S) == IF TypeOf(a) \in DebitNormal THEN NetOf(j, a, S) ELSE -NetOf(j, a, S)
OfTypeOf(j, type, S) == SumFunction([a \in {b \in Accounts : TypeOf(b) = type} |-> ShownOf(j, a, S)])
Through(j, d) == {n \in DOMAIN j : j[n].date \in 1..d}

LEMMA ReportsOfJournal ==
  /\ \A d : Within(1, d) = Through(journal, d)
  /\ \A type, S : OfType(type, S) = OfTypeOf(journal, type, S)
<1>1. \A d : Within(1, d) = Through(journal, d)
  BY DEF Within, Through
<1>2. \A a, S : Net(a, S) = NetOf(journal, a, S)
  BY DEF Net, NetOf, LineSum
<1>3. ASSUME NEW type, NEW S PROVE OfType(type, S) = OfTypeOf(journal, type, S)
  <2>1. \A a : Shown(a, S) = ShownOf(journal, a, S)
    BY <1>2 DEF Shown, ShownOf
  <2>2. [a \in {b \in Accounts : TypeOf(b) = type} |-> Shown(a, S)]
          = [a \in {b \in Accounts : TypeOf(b) = type} |-> ShownOf(journal, a, S)]
    BY <2>1
  <2> QED BY <2>2 DEF OfType, OfTypeOf
<1> QED BY <1>1, <1>3

\* They depend on no entry but those they are asked for.
LEMMA SameEntriesSameReports ==
  ASSUME NEW j, NEW k, NEW S, \A n \in S : j[n] = k[n]
  PROVE  \A type : OfTypeOf(j, type, S) = OfTypeOf(k, type, S)
<1>1. ASSUME NEW a PROVE NetOf(j, a, S) = NetOf(k, a, S)
  <2>1. [n \in S |-> LineSum(j[n].lines, a)] = [n \in S |-> LineSum(k[n].lines, a)]
    OBVIOUS
  <2> QED BY <2>1 DEF NetOf
<1>2. \A a : ShownOf(j, a, S) = ShownOf(k, a, S)
  BY <1>1 DEF ShownOf
<1> TAKE type
<1>3. [a \in {b \in Accounts : TypeOf(b) = type} |-> ShownOf(j, a, S)]
        = [a \in {b \in Accounts : TypeOf(b) = type} |-> ShownOf(k, a, S)]
  BY <1>2
<1> QED BY <1>3 DEF OfTypeOf

SheetOf(j, d) ==
  [assets |-> OfTypeOf(j, "asset", Through(j, d)),
   claims |-> OfTypeOf(j, "liability", Through(j, d)) + OfTypeOf(j, "equity", Through(j, d))
                + (OfTypeOf(j, "revenue", Through(j, d)) - OfTypeOf(j, "expense", Through(j, d)))]

ResultOf(j, d) ==
  [revenue |-> OfTypeOf(j, "revenue", Through(j, d)), expenses |-> OfTypeOf(j, "expense", Through(j, d)),
   net |-> OfTypeOf(j, "revenue", Through(j, d)) - OfTypeOf(j, "expense", Through(j, d))]

LEMMA ReportsAre ==
  \A d : BalanceSheet(d) = SheetOf(journal, d) /\ ProfitAndLoss(1, d) = ResultOf(journal, d)
BY ReportsOfJournal DEF BalanceSheet, ProfitAndLoss, SheetOf, ResultOf

LEMMA ReportsAreNext ==
  (\A d : BalanceSheet(d) = SheetOf(journal, d) /\ ProfitAndLoss(1, d) = ResultOf(journal, d))'
BY ReportsAre, PTL

\* An entry of a later day leaves the reports of a day alone.
LEMMA LaterEntry ==
  ASSUME LedgerInv, NEW d \in Days,
         \/ journal' = journal
         \/ \E e : journal' = Append(journal, e) /\ e.date \in Days /\ e.date > d
  PROVE  BalanceSheet(d)' = BalanceSheet(d) /\ ProfitAndLoss(1, d)' = ProfitAndLoss(1, d)
<1>1. AsSeq(journal)
  BY DEF LedgerInv, JournalOK
<1>2. /\ Through(journal', d) = Through(journal, d)
      /\ \A n \in Through(journal, d) : journal'[n] = journal[n]
  <2>1. CASE journal' = journal
    BY <2>1
  <2>2. ASSUME NEW e, journal' = Append(journal, e), e.date \in Days, e.date > d
        PROVE  <1>2
    <3>1. /\ Len(journal) \in Nat /\ DOMAIN journal = 1..Len(journal)
          /\ DOMAIN journal' = 1..Len(journal) + 1
          /\ \A i \in 1..Len(journal) : journal'[i] = journal[i]
          /\ journal'[Len(journal) + 1] = e
      BY <1>1, <2>2, Appended
    <3>2. e.date \notin 1..d
      BY <2>2 DEF Days
    <3> QED BY <3>1, <3>2 DEF Through
  <2> QED BY <2>1, <2>2
<1>3. PICK S : S = Through(journal, d)
  OBVIOUS
<1>4. \A type : OfTypeOf(journal', type, S) = OfTypeOf(journal, type, S)
  BY <1>2, <1>3, SameEntriesSameReports
<1>5. SheetOf(journal', d) = SheetOf(journal, d) /\ ResultOf(journal', d) = ResultOf(journal, d)
  BY <1>2, <1>3, <1>4 DEF SheetOf, ResultOf
<1>6. BalanceSheet(d)' = SheetOf(journal', d) /\ ProfitAndLoss(1, d)' = ResultOf(journal', d)
  BY ReportsAreNext
<1> QED BY <1>5, <1>6, ReportsAre

\* What a step adds to the journal is of a day the books are open on, or is
\* issued by a request that read the lock on an earlier day than its entry's.
Added == \E e : /\ journal' = Append(journal, e)
                /\ \/ e.date > lock
                   \/ \E w \in Workers : req[w].op = "issue" /\ e.date = doc[req[w].d].date

LEMMA PostedAdds ==
  ASSUME NEW date, NEW source, NEW of, NEW lines, Unlocked(date), journal' = Posted(date, source, of, lines)
  PROVE  Added
<1>1. Entry(date, source, of, lines).date = date
  BY DEF Entry
<1> QED BY <1>1 DEF Added, Posted, Unlocked

LEMMA ReversedAdds ==
  ASSUME NEW n, NEW of, Reversible(n), journal' = Reversed(n, of)
  PROVE  Added
<1>1. PICK e : e = [Entry(today, "reversal", of, Mirror(n)) EXCEPT !.reverses = n]
  OBVIOUS
<1>2. e.date = today /\ journal' = Append(journal, e)
  BY <1>1 DEF Entry, Reversed
<1> QED BY <1>2 DEF Added, Reversible, Postable, Unlocked

LEMMA StepAdds ==
  ASSUME Next
  PROVE  journal' = journal \/ Added
<1>1. CASE ChartNext
  BY <1>1, PostedAdds DEF ChartNext, Chart, Midnight, UpdateSettings, CreateAccount, UpdateAccount,
     DeleteAccount, CreateManualEntry, Postable
<1>2. CASE DraftNext
  BY <1>2 DEF DraftNext, CreateInvoice, CreateBill, UpdateInvoice, UpdateBill, OnlyDocs, ledger
<1>3. CASE TermsNext
  BY <1>3 DEF TermsNext, CreateTaxRate, UpdateTaxRate, CreateRecurringBill, UpdateRecurringBill,
     DeleteRecurringBill, SetTemplate, Reprice
<1>4. CASE IssueNext
  <2>1. ASSUME NEW d, NEW lines, Post(d, lines) PROVE Added
    BY <2>1, PostedAdds DEF Post, Write
  <2>2. ASSUME NEW d, Void(d) PROVE journal' = journal \/ Added
    BY <2>2, ReversedAdds DEF Void
  <2>3. ASSUME NEW w \in Workers, IssueWrite(w) PROVE Added
    <3>1. PICK lines : req[w].op = "issue" /\ journal' = Posted(doc[req[w].d].date, "document", req[w].d, lines)
      BY <2>3 DEF IssueWrite, Write
    <3>2. PICK e : e = Entry(doc[req[w].d].date, "document", req[w].d, lines)
      OBVIOUS
    <3>3. e.date = doc[req[w].d].date /\ journal' = Append(journal, e)
      BY <3>1, <3>2 DEF Entry, Posted
    <3> QED BY <3>1, <3>3 DEF Added
  <2>4. ASSUME NEW w \in Workers, NEW d \in Docs, IssueRead(w, d) PROVE journal' = journal
    BY <2>4 DEF IssueRead, ledger
  <2> QED BY <1>4, <2>1, <2>2, <2>3, <2>4 DEF IssueNext, IssueInvoice, OpenBill, VoidInvoice, VoidBill
<1>5. ASSUME NEW p, NEW incoming, NEW amount, NEW applied, NEW date, Pay(p, incoming, amount, applied, date)
      PROVE  Added
  BY <1>5, PostedAdds DEF Pay, Postable
<1>6. CASE PayNext
  BY <1>5, <1>6, ReversedAdds DEF PayNext, CreatePayment, VoidPayment
<1>7. CASE SpendNext
  <2>1. ASSUME NEW e, NEW a, NEW x, NEW date, CreateExpense(e, a, x, date) PROVE Added
    BY <2>1, PostedAdds DEF CreateExpense, Postable
  <2>2. ASSUME NEW e, VoidExpense(e) PROVE Added
    BY <2>2, ReversedAdds DEF VoidExpense
  <2>3. ASSUME NEW lost, BookWaste(lost) PROVE journal' = journal \/ Added
    BY <2>3, PostedAdds DEF BookWaste, Postable
  <2> QED BY <1>7, <2>1, <2>2, <2>3 DEF SpendNext, RecordFilamentWaste, RecordResinWaste, RecordPlateWaste
<1>8. CASE RequestNext
  <2>1. PICK w \in Workers :
          \/ Die(w) \/ FromOrderTx(w) \/ RecurringDraft(w) \/ RecurringMark(w)
          \/ PurchaseOpen(w) \/ PurchasePay(w)
          \/ \E o \in Orders : FromOrder(w, o)
          \/ \E r \in Recurring : PostRecurringBill(w, r)
          \/ \E x \in Amounts, d \in Days, paid \in BOOLEAN : RecordInventoryPurchase(w, x, d, paid)
    BY <1>8 DEF RequestNext
  <2>2. CASE Die(w) \/ FromOrderTx(w) \/ RecurringDraft(w) \/ RecurringMark(w)
    BY <2>2 DEF Die, FromOrderTx, RecurringDraft, RecurringMark, ledger
  <2>3. CASE PurchaseOpen(w)
    BY <2>3, PostedAdds DEF PurchaseOpen, Post, Write
  <2>4. CASE PurchasePay(w)
    BY <2>4, <1>5 DEF PurchasePay
  <2>5. ASSUME NEW o \in Orders, FromOrder(w, o) PROVE journal' = journal
    BY <2>5 DEF FromOrder, Begin, ledger
  <2>6. ASSUME NEW r \in Recurring, PostRecurringBill(w, r) PROVE journal' = journal
    BY <2>6 DEF PostRecurringBill, Begin, ledger
  <2>7. ASSUME NEW x \in Amounts, NEW d \in Days, NEW paid \in BOOLEAN, RecordInventoryPurchase(w, x, d, paid)
        PROVE  journal' = journal
    BY <2>7 DEF RecordInventoryPurchase
  <2> QED BY <2>1, <2>2, <2>3, <2>4, <2>5, <2>6, <2>7
<1> QED BY <1>1, <1>2, <1>3, <1>4, <1>6, <1>7, <1>8 DEF Next

\* The requests that write an invoice they read before.
Lone == {"issue", "from_order"}

\* Such a request is under way because it was, or because it has just read the
\* lock, or the invoice of its order.
LEMMA LoneBegins ==
  ASSUME RequestsOK, Next, NEW w \in Workers, req'[w].op \in Lone
  PROVE  \/ req'[w] = req[w] \/ \E d \in Docs : IssueRead(w, d)
         \/ \E o \in Orders : FromOrder(w, o)
<1>1. CASE ChartNext
  BY <1>1 DEF ChartNext, Chart
<1>2. CASE DraftNext
  BY <1>2 DEF DraftNext, CreateInvoice, CreateBill, UpdateInvoice, UpdateBill, OnlyDocs
<1>3. CASE TermsNext
  BY <1>3 DEF TermsNext, CreateTaxRate, UpdateTaxRate, CreateRecurringBill, UpdateRecurringBill,
     DeleteRecurringBill, SetTemplate, Reprice
<1>4. Idle.op \notin Lone
  BY DEF Idle, Lone
<1>5. ASSUME NEW v \in Workers, NEW q, req' = [req EXCEPT ![v] = q], q.op \notin Lone
      PROVE  req'[w] = req[w]
  BY <1>5 DEF RequestsOK
<1>6. CASE IssueNext
  <2>1. ASSUME NEW v \in Workers, IssueWrite(v) PROVE req'[w] = req[w]
    BY <2>1, <1>4, <1>5 DEF IssueWrite
  <2>2. ASSUME NEW v \in Workers, NEW d \in Docs, IssueRead(v, d)
        PROVE  req'[w] = req[w] \/ IssueRead(w, d)
    BY <2>2 DEF IssueRead, RequestsOK
  <2>3. ASSUME NEW d \in Docs, IssueInvoice(d) \/ OpenBill(d) \/ VoidInvoice(d) \/ VoidBill(d)
        PROVE  req'[w] = req[w]
    BY <2>3 DEF IssueInvoice, OpenBill, VoidInvoice, VoidBill, Void
  <2> QED BY <1>6, <2>1, <2>2, <2>3 DEF IssueNext
<1>7. CASE PayNext
  BY <1>7 DEF PayNext, CreatePayment, VoidPayment
<1>8. CASE SpendNext
  BY <1>8 DEF SpendNext, CreateExpense, VoidExpense, RecordFilamentWaste, RecordResinWaste,
     RecordPlateWaste, BookWaste
<1>9. CASE RequestNext
  <2>1. PICK v \in Workers :
          \/ Die(v) \/ FromOrderTx(v) \/ RecurringDraft(v) \/ RecurringMark(v)
          \/ PurchaseOpen(v) \/ PurchasePay(v)
          \/ \E o \in Orders : FromOrder(v, o)
          \/ \E r \in Recurring : PostRecurringBill(v, r)
          \/ \E x \in Amounts, d \in Days, paid \in BOOLEAN : RecordInventoryPurchase(v, x, d, paid)
    BY <1>9 DEF RequestNext
  <2>2. CASE End(v)
    BY <2>2, <1>4, <1>5 DEF End
  <2>3. ASSUME NEW at, req' = [req EXCEPT ![v].at = at], req[v].op \notin Lone PROVE req'[w] = req[w]
    <3>1. PICK q : q = [req[v] EXCEPT !.at = at]
      OBVIOUS
    <3>2. req[v] \in Request
      BY DEF RequestsOK
    <3>3. q.op = req[v].op
      BY <3>1, <3>2 DEF Request
    <3>4. req' = [req EXCEPT ![v] = q]
      BY <2>3, <3>1
    <3> QED BY <2>3, <3>3, <3>4, <1>5
  <2>4. CASE RecurringDraft(v) \/ PurchaseOpen(v)
    BY <2>2, <2>3, <2>4 DEF RecurringDraft, PurchaseOpen, At, Lone
  <2>6. ASSUME NEW o \in Orders, FromOrder(v, o) PROVE req'[w] = req[w] \/ FromOrder(w, o)
    <3>1. PICK q : req' = [req EXCEPT ![v] = q]
      BY <2>6 DEF FromOrder, Begin
    <3> QED BY <2>6, <3>1 DEF RequestsOK
  <2>7. ASSUME NEW r \in Recurring, PostRecurringBill(v, r) PROVE req'[w] = req[w]
    <3>1. PICK q : q = [[Idle EXCEPT !.of = r, !.date = today, !.row = template[r]]
                          EXCEPT !.op = "recurring", !.at = "draft"]
      OBVIOUS
    <3>2. q.op = "recurring"
      BY <3>1 DEF Idle
    <3>3. req' = [req EXCEPT ![v] = q]
      BY <2>7, <3>1 DEF PostRecurringBill, Begin
    <3> QED BY <3>2, <3>3, <1>5 DEF Lone
  <2>8. ASSUME NEW x \in Amounts, NEW d \in Days, NEW paid \in BOOLEAN, RecordInventoryPurchase(v, x, d, paid)
        PROVE  req'[w] = req[w]
    <3>1. PICK b \in Bills : req' = [req EXCEPT ![v] = [Idle EXCEPT !.op = "purchase", !.at = "open", !.d = b,
                                                               !.date = d, !.paid = paid]]
      BY <2>8 DEF RecordInventoryPurchase
    <3>2. PICK q : q = [Idle EXCEPT !.op = "purchase", !.at = "open", !.d = b, !.date = d, !.paid = paid]
      OBVIOUS
    <3>3. q.op = "purchase"
      BY <3>2 DEF Idle
    <3> QED BY <3>1, <3>2, <3>3, <1>5 DEF Lone
  <2> QED BY <2>1, <2>2, <2>4, <2>6, <2>7, <2>8 DEF Die, FromOrderTx, RecurringMark, PurchasePay
<1> QED BY <1>1, <1>2, <1>3, <1>6, <1>7, <1>8, <1>9 DEF Next

\* What such a request has read when it begins.
LEMMA IssueBegins ==
  ASSUME BooksInv, NEW w \in Workers, NEW d \in Docs, IssueRead(w, d)
  PROVE  /\ Free /\ UNCHANGED <<ledger, documents>> /\ d \in Invoices
         /\ doc[d].status = "draft" /\ Total(doc[d]) > 0 /\ Unlocked(doc[d].date)
         /\ \E q : /\ req' = [req EXCEPT ![w] = q] /\ req'[w] = q
                  /\ q.op = "issue" /\ q.d = d /\ q.date = lock
<1>1. PICK q : q = [Idle EXCEPT !.op = "issue", !.at = "post", !.d = d, !.date = lock]
  OBVIOUS
<1>2. q.op = "issue" /\ q.d = d /\ q.date = lock
  BY <1>1, IssueRequest
<1>3. req' = [req EXCEPT ![w] = q] /\ req'[w] = q
  BY <1>1, InvParts DEF IssueRead, RequestsOK
<1> QED BY <1>2, <1>3 DEF IssueRead

LEMMA OrderBegins ==
  ASSUME BooksInv, NEW w \in Workers, NEW o \in Orders, FromOrder(w, o)
  PROVE  /\ Free /\ UNCHANGED <<ledger, documents>>
         /\ \E q : /\ req' = [req EXCEPT ![w] = q] /\ req'[w] = q
                  /\ q.op = "from_order" /\ (q.d # None => doc[q.d].status = "draft")
<1>1. PICK d \in Invoices \cup {None} :
        /\ d # None => doc[d].status = "draft"
        /\ Begin(w, "from_order", "write", [Idle EXCEPT !.of = o, !.d = d])
  BY DEF FromOrder, Prior
<1>2. PICK a : a = ReadsOrder(o, d)
  OBVIOUS
<1>3. PICK q : q = StartedAs(a, "from_order", "write")
  OBVIOUS
<1>4. a \in Request /\ a.d = d
  BY <1>2, OrderRead DEF Docs
<1>5. q.op = "from_order" /\ q.d = d
  BY <1>3, <1>4, Begun
<1>6. Free /\ UNCHANGED <<ledger, documents>> /\ req' = [req EXCEPT ![w] = q]
  BY <1>1, <1>2, <1>3 DEF Begin, ReadsOrder, StartedAs
<1>7. req'[w] = q
  BY <1>6, InvParts DEF RequestsOK
<1> QED BY <1>1, <1>5, <1>6, <1>7

\* While a request is issuing, documents keep their dates.
LEMMA DatesStay ==
  ASSUME BooksInv, Next, ~Free, NEW x \in Docs, doc[x].status # "absent"
  PROVE  doc'[x].date = doc[x].date
<1>0. DocsOK /\ RequestsOK /\ TermsOK /\ doc \in [Docs -> DocRow]
  BY InvParts DEF DocsOK
<1>1. CASE ChartNext
  BY <1>1 DEF ChartNext, Chart, documents
<1>2. CASE IssueNext
  <2>1. PICK w \in Workers : IssueWrite(w)
    BY <1>2 DEF IssueNext, IssueInvoice, OpenBill, VoidInvoice, VoidBill, Void, IssueRead
  <2>2. PICK d : doc' = [doc EXCEPT ![d].status = "open", ![d].entry = Len(journal) + 1]
    BY <2>1 DEF IssueWrite, Write
  <2> QED BY <2>2, <1>0 DEF DocRow
<1>3. CASE RequestNext
  <2>1. PICK w \in Workers :
          \/ Die(w) \/ FromOrderTx(w) \/ RecurringDraft(w) \/ RecurringMark(w)
          \/ PurchaseOpen(w) \/ PurchasePay(w)
    BY <1>3 DEF RequestNext, FromOrder, PostRecurringBill, RecordInventoryPurchase, Begin
  <2>2. CASE Die(w) \/ RecurringMark(w)
    BY <2>2 DEF Die, RecurringMark, documents
  <2>3. CASE FromOrderTx(w)
    <3>1. CASE req[w].d = None
      <4>1. PICK d, row : doc[d].status = "absent" /\ doc' = [doc EXCEPT ![d] = row]
        BY <2>3, <3>1 DEF FromOrderTx
      <4> QED BY <4>1, <1>0
    <3>2. CASE req[w].d # None
      <4>1. PICK d \in Docs : d = req[w].d
        BY <2>3, <3>2, <1>0 DEF FromOrderTx, At, RequestsOK, Knows, Docs
      <4>2. PICK net : net = price[req[w].of]
        OBVIOUS
      <4>3. PICK taxed : taxed = (rate = "active")
        OBVIOUS
      <4>4. PICK row : row = Lined(doc[d], net, None, taxed)
        OBVIOUS
      <4>5. doc' = [doc EXCEPT ![d] = row]
        BY <2>3, <3>2, <4>1, <4>2, <4>3, <4>4 DEF FromOrderTx
      <4>6. net \in Nat
        BY <2>3, <4>2, <1>0 DEF FromOrderTx, At, RequestsOK, Knows, TermsOK
      <4>7. row.date = doc[d].date
        BY <4>4, <4>6, <1>0, LinedRow
      <4> QED BY <4>5, <4>7, <1>0
    <3> QED BY <3>1, <3>2
  <2>4. CASE RecurringDraft(w)
    <3>1. PICK d, row : doc[d].status = "absent" /\ doc' = [doc EXCEPT ![d] = row]
      BY <2>4 DEF RecurringDraft
    <3> QED BY <3>1, <1>0
  <2>5. CASE PurchaseOpen(w)
    <3>1. PICK d : doc' = [doc EXCEPT ![d].status = "open", ![d].entry = Len(journal) + 1]
      BY <2>5 DEF PurchaseOpen, Post, Write
    <3> QED BY <3>1, <1>0 DEF DocRow
  <2>6. CASE PurchasePay(w)
    <3>1. PICK applied : doc' = Settled(applied)
      BY <2>6 DEF PurchasePay, Pay
    <3> QED BY <3>1, <1>0 DEF Settled, DocRow
  <2> QED BY <2>1, <2>2, <2>3, <2>4, <2>5, <2>6
<1>4. ~DraftNext /\ ~TermsNext /\ ~PayNext /\ ~SpendNext
  BY DEF DraftNext, CreateInvoice, CreateBill, UpdateInvoice, UpdateBill,
     TermsNext, CreateTaxRate, UpdateTaxRate, CreateRecurringBill, UpdateRecurringBill,
     DeleteRecurringBill, SetTemplate, Reprice, PayNext, CreatePayment, VoidPayment,
     SpendNext, CreateExpense, VoidExpense, RecordFilamentWaste, RecordResinWaste,
     RecordPlateWaste, BookWaste
<1> QED BY <1>1, <1>2, <1>3, <1>4 DEF Next

\* An invoice that is being issued keeps a date after the lock it was checked
\* against.
LEMMA IssueKept ==
  ASSUME "issue" \in Alone, BooksInv, IssueOK, Next
  PROVE  IssueOK'
<1>0. RequestsOK /\ doc \in [Docs -> DocRow] /\ lock \in 0..MaxDay
  BY InvParts DEF DocsOK, LedgerInv, JournalOK
<1>1. SUFFICES ASSUME NEW w \in Workers, req'[w].op = "issue"
               PROVE  req'[w].date < doc'[req'[w].d].date
  BY DEF IssueOK
<1>2. CASE req'[w] = req[w]
  <2>1. PICK d \in Docs : d = req[w].d /\ doc[d].status # "absent"
    BY <1>0, <1>1, <1>2 DEF RequestsOK, Knows, Docs
  <2>2. ~Free
    BY <1>1, <1>2 DEF Free
  <2>3. doc'[d].date = doc[d].date
    BY <2>1, <2>2, DatesStay
  <2> QED BY <1>1, <1>2, <2>1, <2>3 DEF IssueOK
<1>3. ASSUME NEW d \in Docs, IssueRead(w, d) PROVE req'[w].date < doc'[req'[w].d].date
  <2>1. req'[w].d = d /\ req'[w].date = lock /\ doc' = doc /\ Unlocked(doc[d].date)
    BY <1>3, IssueBegins DEF documents
  <2>2. doc[d].date > lock /\ doc[d].date \in Days
    BY <2>1, <1>0 DEF Unlocked, DocRow
  <2> QED BY <2>1, <2>2, <1>0, LedgerAssumption DEF Days
<1>4. ASSUME NEW o \in Orders, FromOrder(w, o) PROVE FALSE
  BY <1>1, <1>4, OrderBegins
<1> QED BY <1>0, <1>1, <1>2, <1>3, <1>4, LoneBegins DEF Lone

\* While the books are locked no report over the locked days changes, for any
\* amounts, entries and days: the balance sheet and the profit and loss of a
\* closed day are the same after back-dated drafts, voids, payments and
\* purchases, unless an invoice read the lock before it moved over the day.
\* Nothing but a move of the lock and requests that are under way runs beside
\* an issue, which stands for the row lock the transaction holds.
THEOREM ClosedBooksDoNotChange ==
  ASSUME "issue" \in Alone
  PROVE  Spec => ClosedBooksStayClosed
<1> DEFINE Closed == \A d \in 1..lock :
                       \/ /\ BalanceSheet(d)' = BalanceSheet(d)
                          /\ ProfitAndLoss(1, d)' = ProfitAndLoss(1, d)
                       \/ \E w \in Workers : req[w].op = "issue" /\ req[w].date < d
<1>1. Init => IssueOK
  BY DEF Init, Idle, IssueOK
<1>2. BooksInv /\ IssueOK /\ [Next]_vars => IssueOK'
  <2>1. CASE Next
    BY <2>1, IssueKept
  <2>2. CASE UNCHANGED vars
    BY <2>2 DEF vars, documents, IssueOK
  <2> QED BY <2>1, <2>2
<1>3. BooksInv /\ BooksInv' /\ IssueOK /\ [Next]_vars => Closed
  <2> SUFFICES ASSUME BooksInv, BooksInv', IssueOK, [Next]_vars, NEW d \in 1..lock,
                      ~ \E w \in Workers : req[w].op = "issue" /\ req[w].date < d
               PROVE  BalanceSheet(d)' = BalanceSheet(d) /\ ProfitAndLoss(1, d)' = ProfitAndLoss(1, d)
    OBVIOUS
  <2>1. LedgerInv /\ RequestsOK /\ doc \in [Docs -> DocRow] /\ lock \in 0..MaxDay /\ d \in Days /\ AsSeq(journal)
    BY InvParts, LedgerAssumption DEF DocsOK, LedgerInv, JournalOK, Days
  <2>2. journal' = journal \/ Added
    BY StepAdds DEF vars, ledger
  <2>3. ASSUME NEW e, journal' = Append(journal, e),
               \/ e.date > lock
               \/ \E w \in Workers : req[w].op = "issue" /\ e.date = doc[req[w].d].date
        PROVE  e.date \in Days /\ e.date > d
    <3>1. Len(journal) \in Nat /\ DOMAIN journal' = 1..Len(journal) + 1 /\ journal'[Len(journal) + 1] = e
      BY <2>1, <2>3, Appended
    <3>2. Len(journal) + 1 \in DOMAIN journal'
      BY <3>1
    <3>3. e.date \in Days
      BY <3>1, <3>2 DEF BooksInv, JournalOK
    <3>4. CASE e.date > lock
      BY <3>3, <3>4, <2>1 DEF Days
    <3>5. ASSUME NEW w \in Workers, req[w].op = "issue", e.date = doc[req[w].d].date PROVE e.date > d
      <4>1. req[w].date < e.date /\ ~(req[w].date < d) /\ req[w].date \in 0..MaxDay
        BY <3>5, <2>1 DEF IssueOK, RequestsOK, Request
      <4> QED BY <4>1, <3>3, <2>1 DEF Days
    <3> QED BY <2>3, <3>3, <3>4, <3>5
  <2>4. journal' = journal \/ \E e : journal' = Append(journal, e) /\ e.date \in Days /\ e.date > d
    BY <2>2, <2>3 DEF Added
  <2> QED BY <2>1, <2>4, LaterEntry
<1>4. Spec => [](BooksInv /\ IssueOK)
  BY <1>1, <1>2, BooksInit, BooksSteps, PTL DEF Spec
<1>5. Spec => [][Closed]_vars
  BY <1>3, <1>4, PTL DEF Spec
<1> QED BY <1>5 DEF ClosedBooksStayClosed

----------------------------------------------------------------------------
(* The sheets balance.                                                     *)

LEMMA FourAreFinite == \A a, b, c, d : IsFiniteSet({a, b, c, d})
<1> TAKE a, b, c, d
<1>1. IsFiniteSet({a}) /\ IsFiniteSet({b}) /\ IsFiniteSet({c}) /\ IsFiniteSet({d})
  BY FS_Singleton
<1>2. IsFiniteSet({a} \cup {b}) /\ IsFiniteSet({c} \cup {d})
  BY <1>1, FS_Union
<1>3. IsFiniteSet(({a} \cup {b}) \cup ({c} \cup {d}))
  BY <1>2, FS_Union
<1>4. {a, b, c, d} = ({a} \cup {b}) \cup ({c} \cup {d})
  OBVIOUS
<1> QED BY <1>3, <1>4

\* The chart is finite, and every account of it has a type.
LEMMA ChartIs ==
  /\ IsFiniteSet(Accounts)
  /\ \A a \in Accounts : TypeOf(a) \in Types
<1>1. IsFiniteSet(SystemAccounts)
  <2>1. IsFiniteSet({"cash", "accounts_receivable", "inventory", "input_tax_receivable"})
    BY FourAreFinite
  <2>2. IsFiniteSet({"vendor_prepayments", "accounts_payable", "sales_tax_payable", "customer_credits"})
    BY FourAreFinite
  <2>3. IsFiniteSet({"sales", "cogs", "operating_expenses", "filament_waste"})
    BY FourAreFinite
  <2>4. SystemAccounts = ({"cash", "accounts_receivable", "inventory", "input_tax_receivable"}
          \cup {"vendor_prepayments", "accounts_payable", "sales_tax_payable", "customer_credits"})
          \cup {"sales", "cogs", "operating_expenses", "filament_waste"}
    BY Roles
  <2> QED BY <2>1, <2>2, <2>3, <2>4, FS_Union
<1>2. IsFiniteSet(Accounts)
  BY <1>1, ChartIsFinite, FS_Union DEF Accounts
<1>3. \A a \in SystemAccounts : SystemType[a] \in Types
  BY DEF SystemAccounts, SystemType, Types
<1> QED BY <1>2, <1>3, LedgerAssumption DEF TypeOf, Accounts

\* What lines come to is shared out among the accounts they name.
LEMMA AccountsShare ==
  ASSUME NEW D, IsFiniteSet(D), NEW names, \A i \in D : names[i] \in Accounts,
         NEW amounts, \A i \in D : amounts[i] \in Int
  PROVE  Sum([a \in Accounts |-> Sum([i \in D |-> IF names[i] = a THEN amounts[i] ELSE 0], D)], Accounts)
           = Sum(amounts, D)
<1> DEFINE M == [a \in Accounts |-> [i \in D |-> IF names[i] = a THEN amounts[i] ELSE 0]]
           C(i) == [a \in Accounts |-> M[a][i]]
<1>1. \A a \in Accounts : \A i \in D : M[a][i] = IF names[i] = a THEN amounts[i] ELSE 0
  OBVIOUS
<1>2. \A i \in D : \A a \in Accounts : C(i)[a] = IF names[i] = a THEN amounts[i] ELSE 0
  BY <1>1
<1>3. Rows(M, Accounts, D)
        = [a \in Accounts |-> Sum([i \in D |-> IF names[i] = a THEN amounts[i] ELSE 0], D)]
  BY DEF Rows
<1>4. Columns(M, Accounts, D) = [i \in D |-> Sum(C(i), Accounts)]
  BY DEF Columns
<1> HIDE DEF M, C
<1>5. \A a \in Accounts : \A i \in D : M[a][i] \in Int
  BY <1>1
<1>6. Sum(Rows(M, Accounts, D), Accounts) = Sum(Columns(M, Accounts, D), D)
  BY <1>5, ChartIs, SumByRowsOrColumns
<1>7. ASSUME NEW i \in D PROVE Sum(C(i), Accounts) = amounts[i]
  <2>1. PICK k \in Accounts : k = names[i]
    OBVIOUS
  <2>2. C(i)[k] = amounts[i] /\ C(i)[k] \in Int /\ \A a \in Accounts \ {k} : C(i)[a] = 0
    BY <1>2, <2>1
  <2>3. Sum(C(i), Accounts) = C(i)[k]
    BY <2>2, ChartIs, SumOfOne
  <2> QED BY <2>2, <2>3
<1>8. \A i \in D : Columns(M, Accounts, D)[i] = amounts[i]
  BY <1>4, <1>7
<1>9. Sum(Columns(M, Accounts, D), D) = Sum(amounts, D)
  BY <1>8, SumSame
<1> QED BY <1>3, <1>6, <1>9

NameOf(lines) == [i \in DOMAIN lines |-> lines[i][1]]
AmountOf(lines) == [i \in DOMAIN lines |-> lines[i][2]]
DebitOf(lines) == [i \in DOMAIN lines |-> Debit(lines[i][2])]
CreditOf(lines) == [i \in DOMAIN lines |-> Credit(lines[i][2])]

LEMMA LinesAre ==
  ASSUME NEW lines \in LinesIn(Accounts, Int)
  PROVE  /\ IsFiniteSet(DOMAIN lines)
         /\ \A i \in DOMAIN lines :
              /\ NameOf(lines)[i] \in Accounts /\ NameOf(lines)[i] = lines[i][1]
              /\ AmountOf(lines)[i] \in Int /\ AmountOf(lines)[i] = lines[i][2]
              /\ DebitOf(lines)[i] \in Nat /\ CreditOf(lines)[i] \in Nat
              /\ DebitOf(lines)[i] = AmountOf(lines)[i] + CreditOf(lines)[i]
         /\ Debits(lines) = Sum(DebitOf(lines), DOMAIN lines)
         /\ Credits(lines) = Sum(CreditOf(lines), DOMAIN lines)
<1>1. DOMAIN lines = 1..Len(lines) /\ Len(lines) \in Nat
  BY LenProperties DEF LinesIn
<1>2. IsFiniteSet(DOMAIN lines)
  BY <1>1, FS_Interval
<1>3. \A i \in DOMAIN lines : lines[i][1] \in Accounts /\ lines[i][2] \in Int
  BY NamedIn
<1>4. \A x \in Int : Debit(x) \in Nat /\ Credit(x) \in Nat /\ Debit(x) = x + Credit(x)
  BY DEF Debit, Credit
<1>5. DOMAIN DebitOf(lines) = DOMAIN lines /\ DOMAIN CreditOf(lines) = DOMAIN lines
  BY DEF DebitOf, CreditOf
<1>6. Debits(lines) = SumFunction(DebitOf(lines)) /\ Credits(lines) = SumFunction(CreditOf(lines))
  BY DEF Debits, Credits, SumOf, DebitOf, CreditOf
<1>7. Debits(lines) = Sum(DebitOf(lines), DOMAIN lines) /\ Credits(lines) = Sum(CreditOf(lines), DOMAIN lines)
  BY <1>5, <1>6, SumFunctionIsSum
<1>8. \A i \in DOMAIN lines :
        /\ NameOf(lines)[i] = lines[i][1] /\ AmountOf(lines)[i] = lines[i][2]
        /\ DebitOf(lines)[i] = Debit(lines[i][2]) /\ CreditOf(lines)[i] = Credit(lines[i][2])
  BY DEF NameOf, AmountOf, DebitOf, CreditOf
<1> QED BY <1>2, <1>3, <1>4, <1>7, <1>8

\* The amounts of balanced lines cancel out.
LEMMA BalancedComeToNothing ==
  ASSUME NEW lines \in LinesIn(Accounts, Int), Balanced(lines)
  PROVE  Sum(AmountOf(lines), DOMAIN lines) = 0
<1>1. Sum(DebitOf(lines), DOMAIN lines) = Sum(AmountOf(lines), DOMAIN lines) + Sum(CreditOf(lines), DOMAIN lines)
  BY LinesAre, SumAdds
<1>2. Sum(DebitOf(lines), DOMAIN lines) = Sum(CreditOf(lines), DOMAIN lines)
  BY LinesAre DEF Balanced
<1>3. Sum(AmountOf(lines), DOMAIN lines) \in Int /\ Sum(CreditOf(lines), DOMAIN lines) \in Int
  BY LinesAre, SumIsInteger
<1> QED BY <1>1, <1>2, <1>3

LEMMA LineSumIs ==
  \A lines, a : LineSum(lines, a)
    = Sum([i \in DOMAIN lines |-> IF NameOf(lines)[i] = a THEN AmountOf(lines)[i] ELSE 0], DOMAIN lines)
<1> TAKE lines, a
<1>1. [i \in DOMAIN lines |-> IF lines[i][1] = a THEN lines[i][2] ELSE 0]
        = [i \in DOMAIN lines |-> IF NameOf(lines)[i] = a THEN AmountOf(lines)[i] ELSE 0]
  BY DEF NameOf, AmountOf
<1> QED BY <1>1, SumFunctionIsSum DEF LineSum

LEMMA LineSumIsInteger ==
  ASSUME NEW lines \in LinesIn(Accounts, Int), NEW a
  PROVE  LineSum(lines, a) \in Int
<1> DEFINE F == [i \in DOMAIN lines |-> IF NameOf(lines)[i] = a THEN AmountOf(lines)[i] ELSE 0]
<1>1. \A i \in DOMAIN lines : F[i] \in Int
  BY LinesAre
<1> HIDE DEF F
<1>2. Sum(F, DOMAIN lines) \in Int
  BY <1>1, LinesAre, SumIsInteger
<1> QED BY <1>2, LineSumIs DEF F

\* Over all accounts, the entries of any days come to nothing.
LEMMA EntriesComeToNothing ==
  ASSUME NEW j, NEW E, IsFiniteSet(E),
         \A n \in E : j[n].lines \in LinesIn(Accounts, Int) /\ Balanced(j[n].lines)
  PROVE  /\ \A a \in Accounts : NetOf(j, a, E) \in Int
         /\ Sum([a \in Accounts |-> NetOf(j, a, E)], Accounts) = 0
<1> DEFINE M == [a \in Accounts |-> [n \in E |-> LineSum(j[n].lines, a)]]
           C(n) == [a \in Accounts |-> M[a][n]]
<1>1. \A a \in Accounts : NetOf(j, a, E) = Sum(M[a], E)
  BY SumFunctionIsSum DEF NetOf
<1>2. \A a \in Accounts : \A n \in E : M[a][n] = LineSum(j[n].lines, a)
  OBVIOUS
<1>3. Columns(M, Accounts, E) = [n \in E |-> Sum(C(n), Accounts)]
  BY DEF Columns
<1>4. \A n \in E : C(n) = [a \in Accounts |-> LineSum(j[n].lines, a)]
  BY <1>2
<1> HIDE DEF M, C
<1>5. \A a \in Accounts : \A n \in E : M[a][n] \in Int
  BY <1>2, LineSumIsInteger
<1>6. ASSUME NEW n \in E PROVE Sum(C(n), Accounts) = 0
  <2> DEFINE lines == j[n].lines
             of(a) == Sum([i \in DOMAIN lines |-> IF NameOf(lines)[i] = a THEN AmountOf(lines)[i] ELSE 0], DOMAIN lines)
  <2>1. lines \in LinesIn(Accounts, Int) /\ Balanced(lines)
    OBVIOUS
  <2>2. C(n) = [a \in Accounts |-> of(a)]
    BY <1>4, LineSumIs
  <2> HIDE DEF lines
  <2>3. Sum([a \in Accounts |-> of(a)], Accounts) = Sum(AmountOf(lines), DOMAIN lines)
    BY <2>1, LinesAre, AccountsShare
  <2> QED BY <2>1, <2>2, <2>3, BalancedComeToNothing
<1>7. Sum(Columns(M, Accounts, E), E) = 0
  <2>1. \A n \in E : Columns(M, Accounts, E)[n] = 0
    BY <1>3, <1>6
  <2> QED BY <2>1, SumOfNothing
<1>8. Sum(Rows(M, Accounts, E), Accounts) = 0
  BY <1>5, <1>7, ChartIs, SumByRowsOrColumns
<1>9. Rows(M, Accounts, E) = [a \in Accounts |-> NetOf(j, a, E)]
  BY <1>1 DEF Rows
<1>10. \A a \in Accounts : NetOf(j, a, E) \in Int
  BY <1>1, <1>5, SumIsInteger
<1> QED BY <1>8, <1>9, <1>10

Typed(type) == {b \in Accounts : TypeOf(b) = type}

\* What the reports show of a type, from the sum over its accounts.
LEMMA TypeIsASum ==
  ASSUME NEW j, NEW E, NEW type, NEW N, N = [a \in Accounts |-> NetOf(j, a, E)],
         \A a \in Accounts : N[a] \in Int
  PROVE  /\ Sum(N, Typed(type)) \in Int
         /\ OfTypeOf(j, type, E) = IF type \in DebitNormal THEN Sum(N, Typed(type)) ELSE -Sum(N, Typed(type))
<1> DEFINE F == [a \in Typed(type) |-> ShownOf(j, a, E)]
<1>1. IsFiniteSet(Typed(type)) /\ \A a \in Typed(type) : a \in Accounts /\ TypeOf(a) = type
  BY ChartIs, FS_Subset DEF Typed
<1>2. OfTypeOf(j, type, E) = Sum(F, Typed(type))
  BY SumFunctionIsSum DEF OfTypeOf, Typed
<1>3. \A a \in Typed(type) : N[a] \in Int /\ F[a] = IF type \in DebitNormal THEN N[a] ELSE -N[a]
  BY <1>1 DEF ShownOf
<1> HIDE DEF F
<1>4. CASE type \in DebitNormal
  BY <1>1, <1>2, <1>3, <1>4, SumSame, SumIsInteger
<1>5. CASE type \notin DebitNormal
  BY <1>1, <1>2, <1>3, <1>5, SumNegated, SumIsInteger
<1> QED BY <1>4, <1>5

LEMMA TypesPartTheChart ==
  ASSUME NEW N, \A a \in Accounts : N[a] \in Int
  PROVE  Sum(N, Accounts) = Sum(N, Typed("asset")) + (Sum(N, Typed("liability"))
           + (Sum(N, Typed("equity")) + (Sum(N, Typed("revenue")) + Sum(N, Typed("expense")))))
<1> DEFINE R1 == Accounts \ Typed("asset")
           R2 == R1 \ Typed("liability")
           R3 == R2 \ Typed("equity")
           R4 == R3 \ Typed("revenue")
<1>1. /\ R1 \subseteq Accounts /\ R2 \subseteq Accounts /\ R3 \subseteq Accounts
      /\ Typed("asset") \in SUBSET Accounts /\ Typed("liability") \in SUBSET R1
      /\ Typed("equity") \in SUBSET R2 /\ Typed("revenue") \in SUBSET R3
      /\ R4 = Typed("expense")
  BY ChartIs DEF Typed, Types
<1>2. IsFiniteSet(R1) /\ IsFiniteSet(R2) /\ IsFiniteSet(R3)
  BY <1>1, ChartIs, FS_Subset
<1>3. Sum(N, Accounts) = Sum(N, Typed("asset")) + Sum(N, R1)
  BY <1>1, ChartIs, SumOfParts
<1> HIDE DEF R1
<1>4. Sum(N, R1) = Sum(N, Typed("liability")) + Sum(N, R2)
  BY <1>1, <1>2, SumOfParts
<1> HIDE DEF R2
<1>5. Sum(N, R2) = Sum(N, Typed("equity")) + Sum(N, R3)
  BY <1>1, <1>2, SumOfParts
<1> HIDE DEF R3
<1>6. Sum(N, R3) = Sum(N, Typed("revenue")) + Sum(N, R4)
  BY <1>1, <1>2, SumOfParts
<1> QED BY <1>1, <1>3, <1>4, <1>5, <1>6

LEMMA JournalIsFinite ==
  ASSUME LedgerInv
  PROVE  IsFiniteSet(DOMAIN journal)
<1>1. DOMAIN journal = 1..Len(journal) /\ Len(journal) \in Nat
  BY Appended DEF LedgerInv, JournalOK
<1> QED BY <1>1, FS_Interval

\* Assets equal claims on any day.
LEMMA SheetBalances ==
  ASSUME LedgerInv, NEW d
  PROVE  BalanceSheet(d).assets = BalanceSheet(d).claims
<1> DEFINE E == Through(journal, d)
           N == [a \in Accounts |-> NetOf(journal, a, E)]
<1>1. IsFiniteSet(E) /\ \A n \in E : journal[n].lines \in LinesIn(Accounts, Int) /\ Balanced(journal[n].lines)
  <2>2. IsFiniteSet(DOMAIN journal)
    BY JournalIsFinite
  <2>3. E \subseteq DOMAIN journal
    BY DEF Through
  <2> QED BY <2>2, <2>3, FS_Subset DEF LedgerInv, JournalOK, EntriesAreSound
<1>2. \A a \in Accounts : NetOf(journal, a, E) \in Int
  <2> HIDE DEF E
  <2> QED BY <1>1, EntriesComeToNothing
<1>3. Sum(N, Accounts) = 0
  <2> HIDE DEF E
  <2> QED BY <1>1, EntriesComeToNothing
<1>4. N = [a \in Accounts |-> NetOf(journal, a, E)] /\ \A a \in Accounts : N[a] \in Int
  BY <1>2
<1>5. BalanceSheet(d) = SheetOf(journal, d)
  BY ReportsAre
<1> DEFINE of(type) == OfTypeOf(journal, type, E)
           sum(type) == Sum(N, Typed(type))
<1>6. /\ BalanceSheet(d).assets = of("asset")
      /\ BalanceSheet(d).claims = of("liability") + of("equity") + (of("revenue") - of("expense"))
  BY <1>5 DEF SheetOf
<1> HIDE DEF N, E
<1>7. /\ of("asset") = sum("asset") /\ of("expense") = sum("expense") /\ of("liability") = -sum("liability")
      /\ of("equity") = -sum("equity") /\ of("revenue") = -sum("revenue")
  BY <1>4, TypeIsASum DEF DebitNormal
<1>8. /\ sum("asset") \in Int /\ sum("expense") \in Int /\ sum("liability") \in Int
      /\ sum("equity") \in Int /\ sum("revenue") \in Int
  BY <1>4, TypeIsASum
<1>9. 0 = sum("asset") + (sum("liability") + (sum("equity") + (sum("revenue") + sum("expense"))))
  BY <1>3, <1>4, TypesPartTheChart
<1> HIDE DEF of, sum
<1> QED BY <1>6, <1>7, <1>8, <1>9

\* A side of the trial balance: what one side of the lines comes to.
Sided(j, a, part) ==
  [n \in DOMAIN j |-> Sum([i \in DOMAIN j[n].lines |-> IF NameOf(j[n].lines)[i] = a THEN part[n][i] ELSE 0],
                          DOMAIN j[n].lines)]

LEMMA TrialIs ==
  ASSUME LedgerInv, NEW a
  PROVE  /\ TrialBalance(a, 1, MaxDay).debit
              = Sum(Sided(journal, a, [n \in DOMAIN journal |-> DebitOf(journal[n].lines)]), DOMAIN journal)
         /\ TrialBalance(a, 1, MaxDay).credit
              = Sum(Sided(journal, a, [n \in DOMAIN journal |-> CreditOf(journal[n].lines)]), DOMAIN journal)
<1> DEFINE of(x) == IF x[1] = a THEN x[2] ELSE 0
           D(n) == [i \in DOMAIN journal[n].lines |-> Debit(of(journal[n].lines[i]))]
           C(n) == [i \in DOMAIN journal[n].lines |-> Credit(of(journal[n].lines[i]))]
<1>1. /\ TrialBalance(a, 1, MaxDay).debit = SumFunction([n \in DOMAIN journal |-> SumFunction(D(n))])
      /\ TrialBalance(a, 1, MaxDay).credit = SumFunction([n \in DOMAIN journal |-> SumFunction(C(n))])
  BY DEF TrialBalance
<1>2. Debit(0) = 0 /\ Credit(0) = 0
  BY DEF Debit, Credit
<1>3. \A n \in DOMAIN journal :
        /\ D(n) = [i \in DOMAIN journal[n].lines |->
                     IF NameOf(journal[n].lines)[i] = a THEN DebitOf(journal[n].lines)[i] ELSE 0]
        /\ C(n) = [i \in DOMAIN journal[n].lines |->
                     IF NameOf(journal[n].lines)[i] = a THEN CreditOf(journal[n].lines)[i] ELSE 0]
  BY <1>2 DEF NameOf, DebitOf, CreditOf
<1>4. \A n \in DOMAIN journal : /\ SumFunction(D(n)) = Sum(D(n), DOMAIN journal[n].lines)
                                /\ SumFunction(C(n)) = Sum(C(n), DOMAIN journal[n].lines)
  BY SumFunctionIsSum
<1> HIDE DEF D, C
<1>5. /\ [n \in DOMAIN journal |-> SumFunction(D(n))]
           = Sided(journal, a, [n \in DOMAIN journal |-> DebitOf(journal[n].lines)])
      /\ [n \in DOMAIN journal |-> SumFunction(C(n))]
           = Sided(journal, a, [n \in DOMAIN journal |-> CreditOf(journal[n].lines)])
  BY <1>3, <1>4 DEF Sided
<1>6. \A part : DOMAIN Sided(journal, a, part) = DOMAIN journal
  BY DEF Sided
<1> QED BY <1>1, <1>5, <1>6, SumFunctionIsSum

\* A side of the trial balance over all accounts is that side of all entries.
LEMMA SideOfAllAccounts ==
  ASSUME LedgerInv, NEW part, \A n \in DOMAIN journal : \A i \in DOMAIN journal[n].lines : part[n][i] \in Int
  PROVE  Sum([a \in Accounts |-> Sum(Sided(journal, a, part), DOMAIN journal)], Accounts)
           = Sum([n \in DOMAIN journal |-> Sum(part[n], DOMAIN journal[n].lines)], DOMAIN journal)
<1> DEFINE M == [a \in Accounts |-> Sided(journal, a, part)]
           C(n) == [a \in Accounts |-> M[a][n]]
           of(a, n) == Sum([i \in DOMAIN journal[n].lines |->
                              IF NameOf(journal[n].lines)[i] = a THEN part[n][i] ELSE 0], DOMAIN journal[n].lines)
<1>1. IsFiniteSet(DOMAIN journal)
  BY JournalIsFinite
<1>2. \A a \in Accounts : \A n \in DOMAIN journal : M[a][n] = of(a, n)
  BY DEF Sided
<1>3. /\ Rows(M, Accounts, DOMAIN journal) = [a \in Accounts |-> Sum(Sided(journal, a, part), DOMAIN journal)]
      /\ Columns(M, Accounts, DOMAIN journal) = [n \in DOMAIN journal |-> Sum(C(n), Accounts)]
  BY DEF Rows, Columns
<1>4. \A n \in DOMAIN journal : C(n) = [a \in Accounts |-> of(a, n)]
  BY <1>2
<1> HIDE DEF M, C
<1>5. ASSUME NEW n \in DOMAIN journal
      PROVE  /\ \A a \in Accounts : of(a, n) \in Int
             /\ Sum(C(n), Accounts) = Sum(part[n], DOMAIN journal[n].lines)
  <2> DEFINE lines == journal[n].lines
  <2>1. lines \in LinesIn(Accounts, Int) /\ \A i \in DOMAIN lines : part[n][i] \in Int
    BY DEF LedgerInv, JournalOK
  <2>2. IsFiniteSet(DOMAIN lines) /\ \A i \in DOMAIN lines : NameOf(lines)[i] \in Accounts
    BY <2>1, LinesAre
  <2>3. Sum([a \in Accounts |-> of(a, n)], Accounts) = Sum(part[n], DOMAIN lines)
    BY <2>1, <2>2, AccountsShare
  <2>4. ASSUME NEW a \in Accounts PROVE of(a, n) \in Int
    <3> DEFINE F == [i \in DOMAIN lines |-> IF NameOf(lines)[i] = a THEN part[n][i] ELSE 0]
    <3>1. \A i \in DOMAIN lines : F[i] \in Int
      BY <2>1
    <3>2. of(a, n) = Sum(F, DOMAIN lines)
      OBVIOUS
    <3> HIDE DEF F, of
    <3> QED BY <2>2, <3>1, <3>2, SumIsInteger
  <2> QED BY <1>4, <2>3, <2>4
<1>6. Sum(Rows(M, Accounts, DOMAIN journal), Accounts) = Sum(Columns(M, Accounts, DOMAIN journal), DOMAIN journal)
  <2>1. \A a \in Accounts : \A n \in DOMAIN journal : M[a][n] \in Int
    BY <1>2, <1>5
  <2> QED BY <1>1, <2>1, ChartIs, SumByRowsOrColumns
<1>7. Columns(M, Accounts, DOMAIN journal)
        = [n \in DOMAIN journal |-> Sum(part[n], DOMAIN journal[n].lines)]
  BY <1>3, <1>5
<1> QED BY <1>3, <1>6, <1>7

LEMMA TrialBalances ==
  ASSUME LedgerInv
  PROVE  SumFunction([a \in Accounts |-> TrialBalance(a, 1, MaxDay).debit])
           = SumFunction([a \in Accounts |-> TrialBalance(a, 1, MaxDay).credit])
<1> DEFINE D == [n \in DOMAIN journal |-> DebitOf(journal[n].lines)]
           C == [n \in DOMAIN journal |-> CreditOf(journal[n].lines)]
           TD == [a \in Accounts |-> TrialBalance(a, 1, MaxDay).debit]
           TC == [a \in Accounts |-> TrialBalance(a, 1, MaxDay).credit]
           SD == [n \in DOMAIN journal |-> Sum(D[n], DOMAIN journal[n].lines)]
           SC == [n \in DOMAIN journal |-> Sum(C[n], DOMAIN journal[n].lines)]
<1>1. /\ TD = [a \in Accounts |-> Sum(Sided(journal, a, D), DOMAIN journal)]
      /\ TC = [a \in Accounts |-> Sum(Sided(journal, a, C), DOMAIN journal)]
  BY TrialIs
<1>2. SumFunction(TD) = Sum(TD, Accounts) /\ SumFunction(TC) = Sum(TC, Accounts)
  BY SumFunctionIsSum
<1>3. \A n \in DOMAIN journal : \A i \in DOMAIN journal[n].lines : D[n][i] \in Int /\ C[n][i] \in Int
  BY LinesAre DEF LedgerInv, JournalOK
<1>4. ASSUME NEW n \in DOMAIN journal PROVE SD[n] = SC[n]
  <2>1. journal[n].lines \in LinesIn(Accounts, Int) /\ Balanced(journal[n].lines)
    BY DEF LedgerInv, JournalOK, EntriesAreSound
  <2>2. Debits(journal[n].lines) = SD[n] /\ Credits(journal[n].lines) = SC[n]
    BY <2>1, LinesAre
  <2> QED BY <2>1, <2>2 DEF Balanced
<1>5. SD = SC
  BY <1>4
<1> HIDE DEF D, C, TD, TC
<1>6. Sum(TD, Accounts) = Sum(SD, DOMAIN journal)
  BY <1>1, <1>3, SideOfAllAccounts
<1>7. Sum(TC, Accounts) = Sum(SC, DOMAIN journal)
  BY <1>1, <1>3, SideOfAllAccounts
<1> HIDE DEF SD, SC
<1> QED BY <1>2, <1>5, <1>6, <1>7 DEF TD, TC

\* Rows are well formed, no account disappears under what was posted to it,
\* and the books balance: on any day assets equal liabilities, equity and
\* earnings, and the trial balance is even, for any chart, any entries, and
\* whatever was back-dated, reversed or left half-done.
THEOREM HistoryIsWhole == Spec => []HistoryStaysWhole
<1>1. BooksInv => SheetsBalance
  BY SheetBalances, TrialBalances DEF BooksInv, LedgerInv, SheetsBalance
<1> QED BY <1>1, BooksInvariance, RowsAndEntriesAreSound, PTL DEF HistoryStaysWhole

----------------------------------------------------------------------------
(* Drafts that a request writes.                                           *)

\* While a request holds an invoice it read, that is still a draft, and no
\* other such request is under way.
LoneDoc(q) ==
  q.op \in Lone /\ q.d # None =>
    doc[q.d].status = "draft" /\ (q.op = "issue" => Total(doc[q.d]) > 0)

DraftsOK ==
  /\ \A v, w \in Workers : req[v].op \in Lone /\ req[w].op \in Lone => v = w
  /\ \A w \in Workers : LoneDoc(req[w])

\* Meanwhile only bills change.
LEMMA InvoicesStay ==
  ASSUME Lone \subseteq Alone, BooksInv, DraftsOK, Next,
         NEW w \in Workers, req[w].op \in Lone, req'[w] = req[w], NEW x \in Invoices
  PROVE  doc'[x] = doc[x]
<1>0. /\ RequestsOK /\ doc \in [Docs -> DocRow] /\ ~Free /\ Idle.op \notin Lone
      /\ x \in Docs /\ x \notin Bills
  BY InvParts, KindsAreDistinct DEF DocsOK, Free, Idle, Lone, Docs
<1>1. ASSUME NEW v \in Workers, req[v].op \in Lone, req' = [req EXCEPT ![v] = Idle] PROVE FALSE
  BY <1>0, <1>1 DEF DraftsOK, RequestsOK
<1>2. CASE ChartNext
  BY <1>2 DEF ChartNext, Chart, documents
<1>3. CASE IssueNext
  <2>1. PICK v \in Workers : IssueWrite(v)
    BY <1>0, <1>3 DEF IssueNext, IssueInvoice, OpenBill, VoidInvoice, VoidBill, Void, IssueRead
  <2> QED BY <2>1, <1>1 DEF IssueWrite, Lone
<1>4. CASE RequestNext
  <2>1. PICK v \in Workers :
          \/ Die(v) \/ FromOrderTx(v) \/ RecurringDraft(v) \/ RecurringMark(v)
          \/ PurchaseOpen(v) \/ PurchasePay(v)
    BY <1>0, <1>4 DEF RequestNext, FromOrder, PostRecurringBill, RecordInventoryPurchase, Begin
  <2>2. CASE Die(v) \/ RecurringMark(v)
    BY <2>2 DEF Die, RecurringMark, documents
  <2>3. CASE FromOrderTx(v)
    BY <2>3, <1>1 DEF FromOrderTx, At, End, Lone
  <2>4. CASE RecurringDraft(v)
    <3>1. PICK d \in Bills : \E row : doc' = [doc EXCEPT ![d] = row]
      BY <2>4 DEF RecurringDraft
    <3> QED BY <3>1, <1>0
  <2>5. CASE PurchaseOpen(v)
    <3>1. PICK d : d = req[v].d
      OBVIOUS
    <3>2. d \in Bills
      BY <3>1, <2>5, <1>0 DEF PurchaseOpen, At, RequestsOK, Knows
    <3>3. doc' = [doc EXCEPT ![d].status = "open", ![d].entry = Len(journal) + 1]
      BY <3>1, <2>5 DEF PurchaseOpen, Post, Write
    <3> QED BY <3>2, <3>3, <1>0
  <2>6. CASE PurchasePay(v)
    <3>1. PICK d : d = req[v].d
      OBVIOUS
    <3>2. d \in Bills
      BY <3>1, <2>6, <1>0 DEF PurchasePay, At, RequestsOK, Knows
    <3>3. PICK total : doc' = Settled([b \in {d} |-> total])
      BY <3>1, <2>6 DEF PurchasePay, Pay
    <3> QED BY <3>2, <3>3, <1>0 DEF Settled
  <2> QED BY <2>1, <2>2, <2>3, <2>4, <2>5, <2>6
<1>5. ~DraftNext /\ ~TermsNext /\ ~PayNext /\ ~SpendNext
  BY <1>0 DEF DraftNext, CreateInvoice, CreateBill, UpdateInvoice, UpdateBill,
     TermsNext, CreateTaxRate, UpdateTaxRate, CreateRecurringBill, UpdateRecurringBill,
     DeleteRecurringBill, SetTemplate, Reprice, PayNext, CreatePayment, VoidPayment,
     SpendNext, CreateExpense, VoidExpense, RecordFilamentWaste, RecordResinWaste,
     RecordPlateWaste, BookWaste
<1> QED BY <1>2, <1>3, <1>4, <1>5 DEF Next

LEMMA DraftsKept ==
  ASSUME Lone \subseteq Alone, BooksInv, DraftsOK, Next
  PROVE  DraftsOK'
<1>0. RequestsOK
  BY InvParts
<1>1. ASSUME NEW w \in Workers, NEW q, Free, req' = [req EXCEPT ![w] = q], NEW v \in Workers, req'[v].op \in Lone
      PROVE  v = w
  BY <1>0, <1>1 DEF Free, RequestsOK
<1>2. ASSUME NEW w \in Workers, req'[w].op \in Lone
      PROVE  /\ \A v \in Workers : req'[v].op \in Lone => v = w
             /\ req'[w].d # None =>
                  doc'[req'[w].d].status = "draft" /\ (req'[w].op = "issue" => Total(doc'[req'[w].d]) > 0)
  <2>1. CASE req'[w] = req[w]
    <3>1. \A v \in Workers : req'[v].op \in Lone => req[v].op \in Lone
      <4> SUFFICES ASSUME NEW v \in Workers, req'[v].op \in Lone, req[v].op \notin Lone PROVE FALSE
        OBVIOUS
      <4>1. Free
        BY <1>0, LoneBegins, IssueBegins, OrderBegins
      <4> QED BY <4>1, <1>2, <2>1 DEF Free
    <3>2. ASSUME req[w].d # None PROVE doc'[req[w].d] = doc[req[w].d]
      <4>1. req[w].d \in Invoices
        BY <1>0, <1>2, <2>1, <3>2 DEF RequestsOK, Knows, Lone
      <4> QED BY <4>1, <1>2, <2>1, InvoicesStay
    <3> QED BY <3>1, <3>2, <1>2, <2>1 DEF DraftsOK, LoneDoc
  <2>2. ASSUME NEW d \in Docs, IssueRead(w, d)
        PROVE  /\ \A v \in Workers : req'[v].op \in Lone => v = w
               /\ req'[w].d # None =>
                  doc'[req'[w].d].status = "draft" /\ (req'[w].op = "issue" => Total(doc'[req'[w].d]) > 0)
    BY <2>2, <1>1, IssueBegins DEF documents
  <2>3. ASSUME NEW o \in Orders, FromOrder(w, o)
        PROVE  /\ \A v \in Workers : req'[v].op \in Lone => v = w
               /\ req'[w].d # None =>
                  doc'[req'[w].d].status = "draft" /\ (req'[w].op = "issue" => Total(doc'[req'[w].d]) > 0)
    BY <2>3, <1>1, OrderBegins DEF documents
  <2> QED BY <1>0, <1>2, <2>1, <2>2, <2>3, LoneBegins
<1> QED BY <1>2 DEF DraftsOK, LoneDoc

----------------------------------------------------------------------------
(* What documents owe.                                                     *)

\* What a row says of itself: only a posted document is paid, and its status
\* says how far.
Standing(row) ==
  /\ row.status \in {"absent", "draft", "open", "void"} => row.paid = 0
  /\ row.status \in Live => Total(row) > 0
  /\ row.status = "partial" => row.paid > 0 /\ row.paid < Total(row)
  /\ row.status = "paid" => row.paid = Total(row)

\* What each of the payments settles of document d.
Settles(pays, d) ==
  [p \in Payments |-> IF pays[p].status = "recorded" /\ d \in DOMAIN pays[p].applied
                      THEN pays[p].applied[d] ELSE 0]

OwedOK ==
  /\ \A d \in Docs : Standing(doc[d]) /\ doc[d].paid = Sum(Settles(payment, d), Payments)
  /\ \A p \in Payments : payment[p].status = "recorded" =>
       \A d \in DOMAIN payment[p].applied : payment[p].applied[d] >= 1

\* The kinds of steps, by what they do to documents, payments and waste.
Still == UNCHANGED <<doc, payment, waste>>

\* Nothing is posted, or an entry that is of no document and no payment, and
\* that wastes nothing.
Elsewhere ==
  /\ Still
  /\ \/ journal' = journal
     \/ \E e : journal' = Append(journal, e) /\ e.of \notin Docs \cup Payments /\ e.source # "waste"

Wastes == \E lost \in Ruined : BookWaste(lost)

Redraws ==
  \E d \in Docs, row \in DocRow :
    /\ doc[d].status \in {"absent", "draft"} /\ row.status = "draft" /\ row.paid \in {0, doc[d].paid}
    /\ doc' = [doc EXCEPT ![d] = row] /\ UNCHANGED <<payment, waste, journal>>

LinesOf(d) == IF d \in Invoices THEN InvoiceLines(doc[d]) ELSE BillLines(doc[d])

Opens(d) ==
  /\ doc[d].status = "draft" /\ Total(doc[d]) > 0
  /\ Write(d, LinesOf(d)) /\ UNCHANGED <<payment, waste>>

Pays ==
  \E p \in Payments, incoming \in BOOLEAN, amount \in Nat, S \in SUBSET Docs, date \in Days :
    \E applied \in [S -> Nat \ {0}] : Pay(p, incoming, amount, applied, date)

Kind ==
  \/ Elsewhere \/ Wastes \/ Redraws \/ Pays
  \/ \E d \in Docs : Opens(d) \/ Void(d)
  \/ \E p \in Payments : VoidPayment(p)

LEMMA PostedElsewhere ==
  ASSUME NEW date, NEW source, NEW of, NEW lines, source # "waste", of \notin Docs \cup Payments, Still,
         journal' = Posted(date, source, of, lines)
  PROVE  Elsewhere
<1>1. PICK e : e = Entry(date, source, of, lines)
  OBVIOUS
<1>2. e.of = of /\ e.source = source /\ journal' = Append(journal, e)
  BY <1>1 DEF Entry, Posted
<1> QED BY <1>2 DEF Elsewhere

LEMMA ReversedElsewhere ==
  ASSUME NEW n, NEW of, of \notin Docs \cup Payments, Still, journal' = Reversed(n, of)
  PROVE  Elsewhere
<1>1. PICK e : e = [Entry(today, "reversal", of, Mirror(n)) EXCEPT !.reverses = n]
  OBVIOUS
<1>2. e.of = of /\ e.source = "reversal" /\ journal' = Append(journal, e)
  BY <1>1 DEF Entry, Reversed
<1> QED BY <1>2 DEF Elsewhere

LEMMA QuietElsewhere ==
  ASSUME UNCHANGED <<doc, payment, waste, journal>>
  PROVE  Elsewhere
BY DEF Elsewhere, Still

LEMMA PaidOfDraft ==
  ASSUME NEW date \in Days
  PROVE  /\ [NoDoc EXCEPT !.status = "draft", !.date = date] \in DocRow
         /\ [NoDoc EXCEPT !.status = "draft", !.date = date].status = "draft"
         /\ [NoDoc EXCEPT !.status = "draft", !.date = date].paid = 0
<1>1. PICK row : row = [NoDoc EXCEPT !.status = "draft", !.date = date]
  OBVIOUS
<1>2. row = [status |-> "draft", net |-> 0, tax |-> 0, paid |-> 0, entry |-> 0,
             date |-> date, account |-> None, order |-> None, template |-> None] /\ row \in DocRow
  BY <1>1, NewDraft
<1>3. row.status = "draft" /\ row.paid = 0
  BY <1>2
<1> QED BY <1>1, <1>2, <1>3

\* Steps of the accounts, of drafts, terms and prices.
LEMMA EditKinds ==
  ASSUME BooksInv, ChartNext \/ DraftNext \/ TermsNext
  PROVE  Kind
<1>0. doc \in [Docs -> DocRow]
  BY InvParts DEF DocsOK
<1>1. CASE ChartNext
  <2>1. Still
    BY <1>1 DEF ChartNext, Chart, documents, Still
  <2>2. ASSUME NEW d, NEW lines, CreateManualEntry(d, lines) PROVE Elsewhere
    BY <2>1, <2>2, KindsAreDistinct, PostedElsewhere DEF CreateManualEntry
  <2>3. (\E d, lines : CreateManualEntry(d, lines)) \/ journal' = journal
    BY <1>1 DEF ChartNext, Chart, Midnight, UpdateSettings, CreateAccount, UpdateAccount, DeleteAccount
  <2> QED BY <2>1, <2>2, <2>3 DEF Kind, Elsewhere
<1>2. CASE DraftNext
  <2>1. ASSUME NEW d \in Docs, NEW net \in Nat, NEW a \in UserAccounts \cup {"inventory", None},
               NEW taxed \in BOOLEAN, NEW date \in Days,
               Draft(d, net, a, taxed, date) \/ Redraft(d, net, a, taxed, date), OnlyDocs
        PROVE  Redraws
    <3>1. CASE Draft(d, net, a, taxed, date)
      <4>1. PICK base : base = [NoDoc EXCEPT !.status = "draft", !.date = date]
        OBVIOUS
      <4>2. base \in DocRow /\ base.status = "draft" /\ base.paid = 0
        BY <4>1, PaidOfDraft
      <4>3. PICK row : row = Lined(base, net, a, taxed)
        OBVIOUS
      <4>4. row \in DocRow /\ row.status = "draft" /\ row.paid = 0
        BY <4>2, <4>3, LinedRow
      <4>5. doc[d].status = "absent" /\ doc' = [doc EXCEPT ![d] = row]
        BY <3>1, <4>1, <4>3 DEF Draft
      <4> QED BY <2>1, <4>4, <4>5 DEF Redraws, OnlyDocs, ledger
    <3>2. CASE Redraft(d, net, a, taxed, date)
      <4>1. PICK base : base = [doc[d] EXCEPT !.date = date]
        OBVIOUS
      <4>2. base \in DocRow /\ base.status = "draft" /\ base.paid = doc[d].paid /\ doc[d].status = "draft"
        BY <3>2, <4>1, <1>0 DEF DocRow, Redraft
      <4>3. PICK row : row = IF net = 0 THEN base ELSE Lined(base, net, a, taxed)
        OBVIOUS
      <4>4. row \in DocRow /\ row.status = "draft" /\ row.paid = doc[d].paid
        BY <4>2, <4>3, LinedRow
      <4>5. doc' = [doc EXCEPT ![d] = row]
        BY <3>2, <4>1, <4>3 DEF Redraft
      <4> QED BY <2>1, <4>2, <4>4, <4>5 DEF Redraws, OnlyDocs, ledger
    <3> QED BY <2>1, <3>1, <3>2
  <2>2. CASE \E d \in Docs, x \in Amounts, taxed \in BOOLEAN, on \in Days : \E a \in LineAccounts(d) :
               CreateInvoice(d, x, a, taxed, on) \/ CreateBill(d, x, a, taxed, on)
    BY <2>1, <2>2, LineAccountsTyped, AmountsTyped DEF CreateInvoice, CreateBill, Kind
  <2>3. CASE \E d \in Docs, x \in Amounts \cup {0}, taxed \in BOOLEAN, on \in Days :
               \E a \in LineAccounts(d) :
                 UpdateInvoice(d, x, a, taxed, on) \/ UpdateBill(d, x, a, taxed, on)
    BY <2>1, <2>3, LineAccountsTyped, AmountsTyped DEF UpdateInvoice, UpdateBill, Kind
  <2> QED BY <1>2, <2>2, <2>3 DEF DraftNext
<1>3. CASE TermsNext
  <2>1. UNCHANGED <<doc, payment, waste, journal>>
    BY <1>3 DEF TermsNext, CreateTaxRate, UpdateTaxRate, CreateRecurringBill, UpdateRecurringBill,
       DeleteRecurringBill, SetTemplate, Reprice
  <2> QED BY <2>1, QuietElsewhere DEF Kind
<1> QED BY <1>1, <1>2, <1>3

\* Steps that post, pay and spend.
LEMMA PostKinds ==
  ASSUME BooksInv, DraftsOK, IssueNext \/ PayNext \/ SpendNext
  PROVE  Kind
<1>0. RequestsOK
  BY InvParts
<1>1. ASSUME NEW d \in Docs, IssueInvoice(d) \/ OpenBill(d) PROVE Opens(d)
  <2>1. d \in Bills => d \notin Invoices
    BY KindsAreDistinct
  <2> QED BY <1>1, <2>1 DEF IssueInvoice, OpenBill, Post, Rest, Opens, LinesOf
<1>2. ASSUME NEW w \in Workers, IssueWrite(w) PROVE Kind
  <2>1. PICK d : d = req[w].d
    OBVIOUS
  <2>2. d \in Invoices /\ d \in Docs
    BY <1>0, <1>2, <2>1 DEF IssueWrite, RequestsOK, Knows, Docs
  <2>3. d # None
    BY <2>2, KindsAreDistinct
  <2>4. doc[d].status = "draft" /\ Total(doc[d]) > 0
    BY <1>2, <2>1, <2>3 DEF IssueWrite, DraftsOK, LoneDoc, Lone
  <2>5. Opens(d)
    BY <1>2, <2>1, <2>2, <2>4 DEF IssueWrite, Opens, LinesOf, Rest
  <2> QED BY <2>2, <2>5 DEF Kind
<1>3. ASSUME NEW w \in Workers, NEW d \in Docs, IssueRead(w, d) PROVE Kind
  BY <1>3, QuietElsewhere DEF IssueRead, documents, ledger, Kind
<1>4. ASSUME NEW p \in Payments, NEW x \in Receipts, NEW incoming \in BOOLEAN, NEW d \in Days,
             NEW applied \in Applications(x), CreatePayment(p, incoming, x, applied, d)
      PROVE  Pays
  <2>1. PICK S \in (SUBSET Invoices) \cup (SUBSET Bills) : applied \in [S -> 1..x]
    BY DEF Applications
  <2>2. S \in SUBSET Docs /\ applied \in [S -> Nat \ {0}] /\ x \in Nat
    BY <2>1, AmountsTyped DEF Docs
  <2> QED BY <1>4, <2>2 DEF CreatePayment, Pays
<1>5. CASE SpendNext
  <2>1. ASSUME NEW e \in Expenses, NEW a, NEW x, NEW date, CreateExpense(e, a, x, date) PROVE Elsewhere
    BY <2>1, KindsAreDistinct, PostedElsewhere DEF CreateExpense, Still
  <2>2. ASSUME NEW e \in Expenses, VoidExpense(e) PROVE Elsewhere
    BY <2>2, KindsAreDistinct, ReversedElsewhere DEF VoidExpense, Still
  <2> QED BY <1>5, <2>1, <2>2 DEF SpendNext, RecordFilamentWaste, RecordResinWaste, RecordPlateWaste,
      Kind, Wastes
<1>6. CASE IssueNext
  BY <1>1, <1>2, <1>3, <1>6 DEF IssueNext, VoidInvoice, VoidBill, Kind
<1>7. CASE PayNext
  BY <1>4, <1>7 DEF PayNext, Kind
<1> QED BY <1>5, <1>6, <1>7

\* Steps of the requests that are split.
LEMMA RequestKinds ==
  ASSUME BooksInv, DraftsOK, OwedOK, RequestNext
  PROVE  Kind
<1>0. /\ RequestsOK /\ TermsOK /\ doc \in [Docs -> DocRow] /\ today \in Days
  BY InvParts DEF DocsOK, LedgerInv, JournalOK
<1>1. PICK w \in Workers :
        \/ Die(w) \/ FromOrderTx(w) \/ RecurringDraft(w) \/ RecurringMark(w)
        \/ PurchaseOpen(w) \/ PurchasePay(w)
        \/ \E o \in Orders : FromOrder(w, o)
        \/ \E r \in Recurring : PostRecurringBill(w, r)
        \/ \E x \in Amounts, d \in Days, paid \in BOOLEAN : RecordInventoryPurchase(w, x, d, paid)
  BY DEF RequestNext
<1>2. ASSUME NEW d \in Docs, NEW row \in DocRow, doc[d].status \in {"absent", "draft"},
             row.status = "draft", row.paid \in {0, doc[d].paid},
             doc' = [doc EXCEPT ![d] = row], UNCHANGED <<payment, waste, journal>>
      PROVE  Kind
  BY <1>2 DEF Kind, Redraws
<1>3. CASE Die(w) \/ RecurringMark(w)
  BY <1>3, QuietElsewhere DEF Die, RecurringMark, documents, ledger, Kind
<1>4. CASE FromOrderTx(w)
  <2>1. PICK o : o = req[w].of
    OBVIOUS
  <2>2. PICK taxed : taxed = (rate = "active")
    OBVIOUS
  <2>3. PICK net : net = price[o]
    OBVIOUS
  <2>4. req[w].op = "from_order" /\ UNCHANGED <<payment, waste, journal>>
    BY <1>4 DEF FromOrderTx, At, Rest, ledger
  <2>5. o \in Orders /\ net \in Nat
    BY <1>0, <2>1, <2>3, <2>4 DEF RequestsOK, Knows, TermsOK
  <2>6. CASE req[w].d = None
    <3>1. PICK base : base = DraftOfOrder(today, o)
      OBVIOUS
    <3>2. PICK d \in Invoices : /\ doc[d].status = "absent"
                                /\ doc' = [doc EXCEPT ![d] = Lined(base, net, None, taxed)]
      BY <1>4, <2>1, <2>2, <2>3, <2>6, <3>1 DEF FromOrderTx, DraftOfOrder
    <3>3. base \in DocRow /\ base.status = "draft" /\ base.paid = 0
      BY <1>0, <2>5, <3>1, OrderDraft
    <3>4. PICK row : row = Lined(base, net, None, taxed)
      OBVIOUS
    <3>5. row \in DocRow /\ row.status = "draft" /\ row.paid = 0
      BY <2>5, <3>3, <3>4, LinedRow
    <3> QED BY <1>2, <2>4, <3>2, <3>4, <3>5 DEF Docs
  <2>7. CASE req[w].d # None
    <3>1. PICK d \in Docs : d = req[w].d /\ doc[d].status = "draft"
      BY <1>0, <2>4, <2>7 DEF RequestsOK, Knows, Docs, DraftsOK, LoneDoc, Lone
    <3>2. doc' = [doc EXCEPT ![d] = Lined(doc[d], net, None, taxed)]
      BY <1>4, <2>1, <2>2, <2>3, <2>7, <3>1 DEF FromOrderTx
    <3>3. PICK row : row = Lined(doc[d], net, None, taxed)
      OBVIOUS
    <3>4. row \in DocRow /\ row.status = "draft" /\ row.paid = doc[d].paid
      BY <1>0, <2>5, <3>1, <3>3, LinedRow
    <3> QED BY <1>2, <2>4, <3>1, <3>2, <3>3, <3>4
  <2> QED BY <2>6, <2>7
<1>5. CASE RecurringDraft(w)
  <2>1. PICK r \in Recurring, t \in Days, terms \in TemplateRow :
          r = req[w].of /\ t = req[w].date /\ terms = req[w].row
    BY <1>5, <1>0 DEF RecurringDraft, At, RequestsOK, Knows, Request
  <2>2. PICK base : base = DraftOfTemplate(today, <<r, t>>)
    OBVIOUS
  <2>3. PICK taxed : taxed = FALSE
    OBVIOUS
  <2>4. PICK d \in Bills : /\ doc[d].status = "absent"
                           /\ doc' = [doc EXCEPT ![d] = Lined(base, terms.amount, terms.account, taxed)]
    BY <1>5, <2>1, <2>2, <2>3 DEF RecurringDraft, DraftOfTemplate
  <2>5. base \in DocRow /\ base.status = "draft" /\ base.paid = 0
    BY <1>0, <2>2, TemplateDraft
  <2>6. terms.amount \in Nat /\ terms.account \in UserAccounts \cup {None}
    BY DEF TemplateRow
  <2>7. UNCHANGED <<payment, waste, journal>>
    BY <1>5 DEF RecurringDraft, Rest, ledger
  <2>8. PICK row : row = Lined(base, terms.amount, terms.account, taxed)
    OBVIOUS
  <2>9. row \in DocRow /\ row.status = "draft" /\ row.paid = 0
    BY <2>5, <2>6, <2>8, LinedRow
  <2> QED BY <1>2, <2>4, <2>7, <2>8, <2>9 DEF Docs
<1>6. CASE PurchaseOpen(w)
  <2>1. PICK d \in Bills : d = req[w].d
    BY <1>0, <1>6 DEF PurchaseOpen, At, RequestsOK, Knows
  <2>2. d \in Docs /\ d \notin Invoices
    BY KindsAreDistinct DEF Docs
  <2>3. Opens(d)
    BY <1>6, <2>1, <2>2 DEF PurchaseOpen, Post, Opens, LinesOf, Rest
  <2> QED BY <2>2, <2>3 DEF Kind
<1>7. CASE PurchasePay(w)
  <2>1. PICK d \in Bills, date \in Days : d = req[w].d /\ date = req[w].date
    BY <1>0, <1>7 DEF PurchasePay, At, RequestsOK, Knows
  <2>2. PICK total : total = Total(doc[d])
    OBVIOUS
  <2>3. PICK applied : applied = [b \in {d} |-> total]
    OBVIOUS
  <2>4. PICK p \in Payments : Pay(p, FALSE, total, applied, date)
    BY <1>7, <2>1, <2>2, <2>3 DEF PurchasePay
  <2>5. d \in Docs /\ doc[d].status \in Live
    <3>1. Payable(applied, total) /\ d \in DOMAIN applied
      BY <2>3, <2>4 DEF Pay
    <3> QED BY <3>1 DEF Payable, Docs, Live
  <2>6. total \in Nat \ {0}
    BY <1>0, <2>2, <2>5 DEF OwedOK, Standing, Total, DocRow
  <2>7. applied \in [{d} -> Nat \ {0}] /\ {d} \in SUBSET Docs
    BY <2>3, <2>5, <2>6
  <2> QED BY <2>4, <2>6, <2>7 DEF Kind, Pays
<1>8. ASSUME (\E o \in Orders : FromOrder(w, o)) \/ (\E r \in Recurring : PostRecurringBill(w, r))
      PROVE  Kind
  BY <1>8, QuietElsewhere DEF FromOrder, PostRecurringBill, Begin, documents, ledger, Kind
<1>9. ASSUME NEW x \in Amounts, NEW date \in Days, NEW paid \in BOOLEAN,
             RecordInventoryPurchase(w, x, date, paid)
      PROVE  Kind
  <2>1. PICK base : base = [NoDoc EXCEPT !.status = "draft", !.date = date]
    OBVIOUS
  <2>2. PICK taxed : taxed = (rate = "active")
    OBVIOUS
  <2>3. PICK d \in Bills : /\ doc[d].status = "absent"
                           /\ doc' = [doc EXCEPT ![d] = Lined(base, x, "inventory", taxed)]
    BY <1>9, <2>1, <2>2 DEF RecordInventoryPurchase
  <2>4. base \in DocRow /\ base.status = "draft" /\ base.paid = 0
    BY <2>1, PaidOfDraft
  <2>5. UNCHANGED <<payment, waste, journal>>
    BY <1>9 DEF RecordInventoryPurchase, Rest
  <2>6. PICK row : row = Lined(base, x, "inventory", taxed)
    OBVIOUS
  <2>7. row \in DocRow /\ row.status = "draft" /\ row.paid = 0
    BY <2>4, <2>6, AmountsTyped, LinedRow
  <2> QED BY <1>2, <2>3, <2>5, <2>6, <2>7 DEF Docs
<1> QED BY <1>1, <1>3, <1>4, <1>5, <1>6, <1>7, <1>8, <1>9

LEMMA StepKinds ==
  ASSUME BooksInv, DraftsOK, OwedOK, [Next]_vars
  PROVE  Kind
<1>1. CASE UNCHANGED vars
  BY <1>1, QuietElsewhere DEF vars, documents, ledger, Kind
<1> QED BY <1>1, EditKinds, PostKinds, RequestKinds DEF Next

\* What payments settle are amounts.
LEMMA SettlesTyped ==
  ASSUME NEW pays \in [Payments -> PaymentRow], NEW d
  PROVE  /\ \A p \in Payments : Settles(pays, d)[p] \in Nat
         /\ Sum(Settles(pays, d), Payments) \in Nat
<1>1. ASSUME NEW p \in Payments PROVE Settles(pays, d)[p] \in Nat
  <2>1. PICK S \in SUBSET Docs : pays[p].applied \in [S -> Nat]
    BY DEF PaymentRow
  <2>2. d \in DOMAIN pays[p].applied => pays[p].applied[d] \in Nat
    BY <2>1
  <2> QED BY <2>2 DEF Settles
<1> QED BY <1>1, SumOfAmounts, RowsAreFinite

\* One payment changes.
LEMMA SettlesChanged ==
  ASSUME SpentOK, SpentOK', NEW p \in Payments, NEW row, payment' = [payment EXCEPT ![p] = row], NEW d
  PROVE  Sum(Settles(payment', d), Payments)
           = Sum(Settles(payment, d), Payments) - Settles(payment, d)[p] + Settles(payment', d)[p]
<1>1. PICK old : old = payment
  OBVIOUS
<1>2. PICK new : new = payment'
  OBVIOUS
<1>3. old \in [Payments -> PaymentRow] /\ new \in [Payments -> PaymentRow]
      /\ \A q \in Payments \ {p} : new[q] = old[q]
  BY <1>1, <1>2 DEF SpentOK
<1>4. PICK F : F = Settles(old, d)
  OBVIOUS
<1>5. PICK G : G = Settles(new, d)
  OBVIOUS
<1>6. \A q \in Payments : F[q] \in Nat /\ G[q] \in Nat
  BY <1>3, <1>4, <1>5, SettlesTyped
<1>7. \A q \in Payments \ {p} : G[q] = F[q]
  BY <1>3, <1>4, <1>5 DEF Settles
<1>8. (\A q \in Payments : F[q] \in Int) /\ G[p] \in Int
  BY <1>6
<1>9. Sum(G, Payments) = Sum(F, Payments) - F[p] + G[p]
  BY <1>7, <1>8, SumChanged, RowsAreFinite
<1> QED BY <1>1, <1>2, <1>4, <1>5, <1>9

\* The rows a payment touches, as it is recorded and as it is voided.
LEMMA SettledRow ==
  ASSUME doc \in [Docs -> DocRow], NEW S \in SUBSET Docs, NEW applied \in [S -> Nat], NEW d \in S
  PROVE  /\ Settled(applied)[d].paid = doc[d].paid + applied[d]
         /\ Total(Settled(applied)[d]) = Total(doc[d])
         /\ Settled(applied)[d].status = StatusPaid(doc[d], doc[d].paid + applied[d])
         /\ Settled(applied)[d].entry = doc[d].entry
<1>1. PICK paid : paid = doc[d].paid + applied[d]
  OBVIOUS
<1>2. PICK status : status = StatusPaid(doc[d], paid)
  OBVIOUS
<1>3. Settled(applied)[d] = PaidTo(doc[d], paid, status)
  BY <1>1, <1>2 DEF Settled, PaidTo
<1>4. doc[d] \in DocRow /\ paid \in Nat /\ status \in Live
  BY <1>1, <1>2 DEF DocRow, StatusPaid, Live
<1> QED BY <1>1, <1>2, <1>3, <1>4, PaidRow

LEMMA UnsettledRow ==
  ASSUME doc \in [Docs -> DocRow], NEW S \in SUBSET Docs, NEW applied \in [S -> Nat], NEW d \in S,
         doc[d].status # "void", applied[d] <= doc[d].paid
  PROVE  /\ Unsettled(applied)[d].paid = doc[d].paid - applied[d]
         /\ Total(Unsettled(applied)[d]) = Total(doc[d])
         /\ Unsettled(applied)[d].status = IF doc[d].paid = applied[d] THEN "open" ELSE "partial"
         /\ Unsettled(applied)[d].entry = doc[d].entry
<1>0. doc[d] \in DocRow /\ doc[d].paid \in Nat /\ applied[d] \in Nat
  BY DEF DocRow
<1>1. PICK paid : paid = Monus(doc[d].paid, applied[d])
  OBVIOUS
<1>2. PICK status : status = IF paid = 0 THEN "open" ELSE "partial"
  OBVIOUS
<1>3. Unsettled(applied)[d] = PaidTo(doc[d], paid, status)
  BY <1>1, <1>2 DEF Unsettled, PaidTo
<1>4. paid = doc[d].paid - applied[d] /\ paid \in Nat /\ status \in Live
  BY <1>0, <1>1, <1>2 DEF Monus, Live
<1>5. status = IF doc[d].paid = applied[d] THEN "open" ELSE "partial"
  BY <1>0, <1>2, <1>4
<1> QED BY <1>0, <1>3, <1>4, <1>5, PaidRow

\* A payment that stands was settled out of what its documents are paid.
LEMMA SettledIsPaid ==
  ASSUME SpentOK, OwedOK, NEW p \in Payments, payment[p].status = "recorded",
         NEW d \in DOMAIN payment[p].applied
  PROVE  /\ d \in Docs /\ payment[p].applied[d] >= 1 /\ payment[p].applied[d] <= doc[d].paid
         /\ doc[d].status \notin {"absent", "draft", "open", "void"}
<1>1. payment \in [Payments -> PaymentRow] /\ d \in Docs
  BY DEF SpentOK, PaymentRow
<1>2. PICK F : F = Settles(payment, d)
  OBVIOUS
<1>3. (\A q \in Payments : F[q] \in Int) /\ F[p] = payment[p].applied[d]
  BY <1>1, <1>2, SettlesTyped DEF Settles
<1>4. Sum(F, Payments) = F[p] + Sum(F, Payments \ {p})
  BY <1>3, SumWithout, RowsAreFinite
<1>5. Sum(F, Payments \ {p}) \in Nat
  <2>1. IsFiniteSet(Payments \ {p})
    BY RowsAreFinite, FS_Subset
  <2>2. \A q \in Payments \ {p} : F[q] \in Nat
    BY <1>1, <1>2, SettlesTyped
  <2> QED BY <2>1, <2>2, SumOfAmounts
<1>6. doc[d].paid = Sum(F, Payments)
  BY <1>1, <1>2 DEF OwedOK
<1>7. F[p] >= 1 /\ F[p] <= doc[d].paid
  BY <1>3, <1>4, <1>5, <1>6 DEF OwedOK
<1> QED BY <1>1, <1>3, <1>7 DEF OwedOK, Standing

\* The row of a document that is posted.
LEMMA OpenedRow ==
  ASSUME doc \in [Docs -> DocRow], NEW d \in Docs, Opens(d), Len(journal) \in Nat
  PROVE  /\ doc' \in [Docs -> DocRow] /\ \A x \in Docs \ {d} : doc'[x] = doc[x]
         /\ doc'[d].status = "open" /\ doc'[d].paid = doc[d].paid
         /\ Total(doc'[d]) = Total(doc[d]) /\ doc'[d].entry = Len(journal) + 1
<1>1. PICK n \in Nat : n = Len(journal) + 1
  OBVIOUS
<1>2. PICK u : u = [doc[d] EXCEPT !.status = "open"]
  OBVIOUS
<1>3. PICK row : row = [u EXCEPT !.entry = n]
  OBVIOUS
<1>4. u \in DocRow /\ u.status = "open" /\ u.paid = doc[d].paid /\ u.net = doc[d].net /\ u.tax = doc[d].tax
  BY <1>2 DEF DocRow, Live
<1>5. row \in DocRow /\ row.status = "open" /\ row.paid = doc[d].paid /\ row.net = doc[d].net
      /\ row.tax = doc[d].tax /\ row.entry = n
  BY <1>3, <1>4 DEF DocRow
<1>6. doc' = [doc EXCEPT ![d] = row]
  BY <1>1, <1>2, <1>3 DEF Opens, Write, DocRow
<1>7. doc'[d] = row
  BY <1>6
<1> QED BY <1>1, <1>5, <1>6, <1>7 DEF Total

LEMMA VoidedRow ==
  ASSUME doc \in [Docs -> DocRow], NEW d \in Docs, Void(d)
  PROVE  /\ doc' \in [Docs -> DocRow] /\ \A x \in Docs \ {d} : doc'[x] = doc[x]
         /\ doc'[d].status = "void" /\ doc'[d].paid = 0 /\ doc[d].paid = 0
         /\ doc[d].status \notin {"absent", "void"}
<1>1. PICK row : row = [doc[d] EXCEPT !.status = "void"]
  OBVIOUS
<1>2. doc' = [doc EXCEPT ![d] = row] /\ doc[d].paid = 0 /\ doc[d].status \notin {"absent", "void"}
  BY <1>1 DEF Void, Voidable
<1>3. doc[d] \in DocRow
  OBVIOUS
<1>4. row \in DocRow /\ row.status = "void" /\ row.paid = doc[d].paid
  BY <1>1, <1>3 DEF DocRow
<1> QED BY <1>2, <1>4

LEMMA OwedKept ==
  ASSUME BooksInv, BooksInv', OwedOK, Kind
  PROVE  OwedOK'
<1>0. /\ SpentOK /\ SpentOK' /\ DocsOK /\ doc \in [Docs -> DocRow] /\ payment \in [Payments -> PaymentRow]
      /\ Len(journal) \in Nat
  BY InvParts, Appended DEF BooksInv, RowsOK, DocsOK, SpentOK, JournalOK
<1>1. ASSUME doc' = doc, payment' = payment PROVE OwedOK'
  BY <1>1 DEF OwedOK
\* One document changes, and is paid what it was.
<1>2. ASSUME payment' = payment, NEW d \in Docs, \A x \in Docs \ {d} : doc'[x] = doc[x],
             Standing(doc'[d]), doc'[d].paid = doc[d].paid
      PROVE  OwedOK'
  <2>1. \A x \in Docs : Standing(doc'[x]) /\ doc'[x].paid = doc[x].paid
    <3> TAKE x \in Docs
    <3>1. CASE x = d
      BY <3>1, <1>2
    <3>2. CASE x # d
      BY <3>2, <1>2 DEF OwedOK
    <3> QED BY <3>1, <3>2
  <2> QED BY <1>2, <2>1 DEF OwedOK
<1>3. CASE Elsewhere \/ Wastes
  BY <1>1, <1>3 DEF Elsewhere, Still, Wastes, BookWaste
<1>4. CASE Redraws
  <2>1. PICK d \in Docs, row \in DocRow :
          /\ doc[d].status \in {"absent", "draft"} /\ row.status = "draft" /\ row.paid \in {0, doc[d].paid}
          /\ doc' = [doc EXCEPT ![d] = row] /\ payment' = payment
    BY <1>4 DEF Redraws
  <2>2. doc[d].paid = 0
    BY <2>1 DEF OwedOK, Standing
  <2>3. doc'[d] = row /\ (\A x \in Docs \ {d} : doc'[x] = doc[x]) /\ row.paid = 0 /\ Standing(row)
    BY <2>1, <2>2, <1>0 DEF Standing, Live
  <2> QED BY <2>1, <2>2, <2>3, <1>2
<1>5. ASSUME NEW d \in Docs, Opens(d) PROVE OwedOK'
  <2>1. /\ \A x \in Docs \ {d} : doc'[x] = doc[x]
        /\ doc'[d].status = "open" /\ doc'[d].paid = doc[d].paid
        /\ Total(doc'[d]) = Total(doc[d])
    BY <1>0, <1>5, OpenedRow
  <2>2. doc[d].paid = 0 /\ Total(doc[d]) > 0 /\ payment' = payment
    BY <1>5 DEF Opens, OwedOK, Standing
  <2>3. Standing(doc'[d])
    BY <2>1, <2>2 DEF Standing
  <2> QED BY <2>1, <2>2, <2>3, <1>2
<1>6. ASSUME NEW d \in Docs, Void(d) PROVE OwedOK'
  <2>1. /\ \A x \in Docs \ {d} : doc'[x] = doc[x]
        /\ doc'[d].status = "void" /\ doc'[d].paid = 0 /\ doc[d].paid = 0
    BY <1>0, <1>6, VoidedRow
  <2>2. Standing(doc'[d]) /\ payment' = payment
    BY <2>1, <1>6 DEF Standing, Live, Void, Rest
  <2> QED BY <2>1, <2>2, <1>2
<1>7. CASE Pays
  <2>1. PICK p \in Payments, incoming \in BOOLEAN, amount \in Nat, S \in SUBSET Docs, date \in Days :
          \E applied \in [S -> Nat \ {0}] : Pay(p, incoming, amount, applied, date)
    BY <1>7 DEF Pays
  <2>2. PICK applied \in [S -> Nat \ {0}] : Pay(p, incoming, amount, applied, date)
    BY <2>1
  <2>3. PICK row : row = [status |-> "recorded", amount |-> amount, entry |-> Len(journal) + 1,
                          applied |-> applied]
    OBVIOUS
  <2>4. /\ payment[p].status = "absent" /\ Payable(applied, amount) /\ doc' = Settled(applied)
        /\ payment' = [payment EXCEPT ![p] = row] /\ row.status = "recorded" /\ row.applied = applied
    BY <2>2, <2>3 DEF Pay
  <2>5. payment'[p] = row /\ \A q \in Payments \ {p} : payment'[q] = payment[q]
    BY <2>4, <1>0
  <2>6. applied \in [S -> Nat]
    OBVIOUS
  <2>7. ASSUME NEW d \in Docs
        PROVE  /\ Sum(Settles(payment', d), Payments)
                    = doc[d].paid + (IF d \in S THEN applied[d] ELSE 0)
    <3>1. Settles(payment, d)[p] = 0 /\ Settles(payment', d)[p] = IF d \in S THEN applied[d] ELSE 0
      BY <2>4, <2>5 DEF Settles
    <3>2. Sum(Settles(payment', d), Payments)
            = Sum(Settles(payment, d), Payments) - Settles(payment, d)[p] + Settles(payment', d)[p]
      BY <1>0, <2>4, SettlesChanged
    <3>3. doc[d].paid = Sum(Settles(payment, d), Payments) /\ doc[d].paid \in Nat
      BY <1>0 DEF OwedOK, DocRow
    <3>4. (IF d \in S THEN applied[d] ELSE 0) \in Nat
      OBVIOUS
    <3> QED BY <3>1, <3>2, <3>3, <3>4
  <2>8. ASSUME NEW d \in Docs PROVE Standing(doc'[d]) /\ doc'[d].paid = Sum(Settles(payment', d), Payments)
    <3>1. CASE d \notin S
      <4>1. doc'[d] = doc[d] /\ doc[d].paid \in Nat
        BY <3>1, <2>4, <1>0 DEF Settled, DocRow
      <4> QED BY <4>1, <3>1, <2>7 DEF OwedOK
    <3>2. CASE d \in S
      <4>1. PICK x \in Nat \ {0} : x = applied[d]
        BY <3>2
      <4>2. PICK total \in Nat : total = Total(doc[d])
        BY <1>0 DEF Total, DocRow
      <4>3. PICK paid \in Nat : paid = doc[d].paid
        BY <1>0 DEF DocRow
      <4>4. /\ doc'[d].paid = paid + x /\ Total(doc'[d]) = total
            /\ doc'[d].status = StatusPaid(doc[d], paid + x)
        BY <1>0, <2>4, <2>6, <3>2, <4>1, <4>2, <4>3, SettledRow
      <4>5. doc[d].status \in {"open", "partial"} /\ x <= total - paid
        BY <2>4, <3>2, <4>1, <4>2, <4>3 DEF Payable, Due
      <4>6. total > 0
        BY <4>2, <4>5 DEF OwedOK, Standing, Live
      <4>7. Standing(doc'[d])
        BY <4>2, <4>4, <4>5, <4>6 DEF Standing, StatusPaid, Live
      <4> QED BY <4>1, <4>3, <4>4, <4>7, <3>2, <2>7
    <3> QED BY <3>1, <3>2
  <2>9. ASSUME NEW q \in Payments, payment'[q].status = "recorded", NEW d \in DOMAIN payment'[q].applied
        PROVE  payment'[q].applied[d] >= 1
    <3>1. CASE q = p
      <4>1. d \in S /\ payment'[q].applied[d] = applied[d] /\ applied[d] \in Nat \ {0}
        BY <3>1, <2>4, <2>5, <2>9
      <4> QED BY <4>1
    <3>2. CASE q # p
      BY <3>2, <2>5, <2>9 DEF OwedOK
    <3> QED BY <3>1, <3>2
  <2> QED BY <2>8, <2>9 DEF OwedOK
<1>8. ASSUME NEW p \in Payments, VoidPayment(p) PROVE OwedOK'
  <2>1. PICK applied : applied = payment[p].applied
    OBVIOUS
  <2>2. PICK S \in SUBSET Docs : applied \in [S -> Nat]
    <3>1. payment[p] \in PaymentRow
      BY <1>0
    <3> QED BY <2>1, <3>1 DEF PaymentRow
  <2>3. PICK row : row = [payment[p] EXCEPT !.status = "void"]
    OBVIOUS
  <2>4. /\ payment[p].status = "recorded" /\ doc' = Unsettled(applied)
        /\ payment' = [payment EXCEPT ![p] = row] /\ row.status = "void"
    <3>1. payment[p] \in PaymentRow
      BY <1>0
    <3>2. row.status = "void"
      BY <2>3, <3>1 DEF PaymentRow
    <3> QED BY <1>8, <2>1, <2>3, <3>2 DEF VoidPayment
  <2>5. payment'[p] = row /\ \A q \in Payments \ {p} : payment'[q] = payment[q]
    BY <2>4, <1>0
  <2>6. ASSUME NEW d \in Docs
        PROVE  /\ Sum(Settles(payment', d), Payments)
                    = doc[d].paid - (IF d \in S THEN applied[d] ELSE 0)
    <3>1. Settles(payment, d)[p] = (IF d \in S THEN applied[d] ELSE 0) /\ Settles(payment', d)[p] = 0
      BY <2>1, <2>2, <2>4, <2>5 DEF Settles
    <3>2. Sum(Settles(payment', d), Payments)
            = Sum(Settles(payment, d), Payments) - Settles(payment, d)[p] + Settles(payment', d)[p]
      BY <1>0, <2>4, SettlesChanged
    <3>3. doc[d].paid = Sum(Settles(payment, d), Payments) /\ doc[d].paid \in Nat
      BY <1>0 DEF OwedOK, DocRow
    <3>4. (IF d \in S THEN applied[d] ELSE 0) \in Nat
      BY <2>2
    <3> QED BY <3>1, <3>2, <3>3, <3>4
  <2>7. ASSUME NEW d \in Docs PROVE Standing(doc'[d]) /\ doc'[d].paid = Sum(Settles(payment', d), Payments)
    <3>1. CASE d \notin S
      <4>1. doc'[d] = doc[d] /\ doc[d].paid \in Nat
        BY <3>1, <2>2, <2>4, <1>0 DEF Unsettled, DocRow
      <4> QED BY <4>1, <3>1, <2>6 DEF OwedOK
    <3>2. CASE d \in S
      <4>1. PICK x \in Nat : x = applied[d]
        BY <2>2, <3>2
      <4>2. PICK total \in Nat : total = Total(doc[d])
        BY <1>0 DEF Total, DocRow
      <4>3. PICK paid \in Nat : paid = doc[d].paid
        BY <1>0 DEF DocRow
      <4>4. x >= 1 /\ x <= paid /\ doc[d].status \notin {"absent", "draft", "open", "void"}
        BY <1>0, <2>1, <2>2, <2>4, <3>2, <4>1, <4>3, SettledIsPaid
      <4>5. /\ doc'[d].paid = paid - x /\ Total(doc'[d]) = total
            /\ doc'[d].status = IF paid = x THEN "open" ELSE "partial"
        BY <1>0, <2>2, <2>4, <3>2, <4>1, <4>2, <4>3, <4>4, UnsettledRow
      <4>6. total > 0 /\ paid <= total
        <5>1. doc[d].status \in {"partial", "paid"} /\ Standing(doc[d])
          BY <1>0, <4>4 DEF DocRow, Live, OwedOK
        <5> QED BY <5>1, <4>2, <4>3 DEF Standing, Live
      <4>7. Standing(doc'[d])
        BY <4>2, <4>4, <4>5, <4>6 DEF Standing, Live
      <4> QED BY <4>1, <4>3, <4>5, <4>7, <3>2, <2>6
    <3> QED BY <3>1, <3>2
  <2>8. ASSUME NEW q \in Payments, payment'[q].status = "recorded", NEW d \in DOMAIN payment'[q].applied
        PROVE  payment'[q].applied[d] >= 1
    <3>1. q # p
      BY <2>4, <2>5, <2>8
    <3> QED BY <3>1, <2>5, <2>8 DEF OwedOK
  <2> QED BY <2>7, <2>8 DEF OwedOK
<1> QED BY <1>3, <1>4, <1>5, <1>6, <1>7, <1>8 DEF Kind

OwingInv == BooksInv /\ DraftsOK /\ OwedOK

\* The invariant holds at first, and every step keeps it.
LEMMA OwingInvariance ==
  ASSUME Lone \subseteq Alone
  PROVE  Spec => []OwingInv
<1>1. Init => DraftsOK /\ OwedOK
  <2> SUFFICES ASSUME Init PROVE DraftsOK /\ OwedOK
    OBVIOUS
  <2>1. Idle.op \notin Lone
    BY DEF Idle, Lone
  <2>2. DraftsOK
    BY <2>1 DEF Init, DraftsOK, LoneDoc
  <2>3. NoDoc.status = "absent" /\ NoDoc.paid = 0 /\ NoPayment.status = "absent"
    BY DEF NoDoc, NoPayment
  <2>4. \A d \in Docs : \A p \in Payments : Settles(payment, d)[p] = 0
    BY <2>3 DEF Init, Settles
  <2>5. \A d \in Docs : Sum(Settles(payment, d), Payments) = 0
    BY <2>4, SumOfNothing, RowsAreFinite
  <2>6. OwedOK
    BY <2>3, <2>5 DEF Init, OwedOK, Standing, Live
  <2> QED BY <2>2, <2>6
<1>2. BooksInv /\ DraftsOK /\ [Next]_vars => DraftsOK'
  <2>1. CASE UNCHANGED vars
    BY <2>1 DEF vars, documents, DraftsOK, LoneDoc
  <2> QED BY <2>1, DraftsKept
<1>3. OwingInv /\ [Next]_vars => OwingInv'
  BY <1>2, BooksSteps, StepKinds, OwedKept DEF OwingInv
<1>4. Init => OwingInv
  BY <1>1, BooksInit DEF OwingInv
<1> QED BY <1>3, <1>4, PTL DEF Spec

\* amount_paid of a document is what the payments that stand apply to it, its
\* status says so, and no payment is left on a document that went away, for
\* any number of payments and documents: settling and letting go add and take
\* the same amount, nothing else writes amount_paid of a posted document, and
\* a request that rewrites an invoice it read finds it still a draft.  Two
\* requests decide on a draft in one step and write it in a later one, and are
\* assumed to run alone: for the issuing one this stands for the lock on the
\* row; the drafting from an order holds none.
THEOREM DocumentsOweTheirPayments ==
  ASSUME Lone \subseteq Alone
  PROVE  Spec => []DocumentsOweWhatPaymentsLeave
<1>1. ASSUME OwingInv, NEW d \in Docs, NEW standing,
             standing = {p \in Payments : payment[p].status = "recorded" /\ d \in DOMAIN payment[p].applied}
      PROVE  /\ doc[d].paid = SumFunction([p \in standing |-> payment[p].applied[d]])
             /\ doc[d].paid > 0 => doc[d].status = IF Due(doc[d]) = 0 THEN "paid" ELSE "partial"
             /\ Due(doc[d]) >= 0
  <2>1. /\ payment \in [Payments -> PaymentRow] /\ doc[d] \in DocRow
        /\ Standing(doc[d]) /\ doc[d].paid = Sum(Settles(payment, d), Payments)
    BY <1>1, InvParts DEF OwingInv, OwedOK, SpentOK, DocsOK
  <2>2. PICK F : F = Settles(payment, d)
    OBVIOUS
  <2>3. PICK G : G = [p \in standing |-> payment[p].applied[d]]
    OBVIOUS
  <2>4. \A p \in Payments : F[p] \in Nat
    BY <2>1, <2>2, SettlesTyped
  <2>5. /\ standing \in SUBSET Payments /\ DOMAIN G = standing
        /\ \A p \in standing : G[p] = F[p]
        /\ \A p \in Payments \ standing : F[p] = 0
    BY <1>1, <2>2, <2>3 DEF Settles
  <2>6. \A p \in Payments : F[p] \in Int
    BY <2>4
  <2>7. Sum(G, standing) = Sum(F, Payments)
    BY <2>5, <2>6, SumOfSupport, RowsAreFinite
  <2>8. SumFunction(G) = Sum(G, standing)
    BY <2>5, SumFunctionIsSum
  <2>9. PICK total \in Nat : total = Total(doc[d])
    BY <2>1 DEF Total, DocRow
  <2>10. PICK paid \in Nat : paid = doc[d].paid
    BY <2>1 DEF DocRow
  <2>11. doc[d].status \in {"absent", "draft", "void", "open", "partial", "paid"}
    BY <2>1 DEF DocRow, Live
  <2>12. /\ paid > 0 => doc[d].status = IF total - paid = 0 THEN "paid" ELSE "partial"
         /\ total - paid >= 0
    BY <2>1, <2>9, <2>10, <2>11 DEF Standing, Live
  <2> QED BY <2>1, <2>2, <2>3, <2>7, <2>8, <2>9, <2>10, <2>12 DEF Due
<1>2. OwingInv => DocumentsOweWhatPaymentsLeave
  BY <1>1 DEF DocumentsOweWhatPaymentsLeave
<1> QED BY <1>2, OwingInvariance, PTL

----------------------------------------------------------------------------
(* What entries put on the control accounts.                               *)

Control == {"accounts_receivable", "accounts_payable"}

LEMMA SumWithMore ==
  ASSUME NEW n \in Nat, NEW F, \A i \in 1..n : F[i] \in Int,
         NEW G, \A i \in 1..n : G[i] = F[i], G[n + 1] \in Int
  PROVE  Sum(G, 1..n + 1) = Sum(F, 1..n) + G[n + 1]
<1>1. IsFiniteSet(1..n + 1) /\ IsFiniteSet(1..n)
  BY FS_Interval
<1>2. n + 1 \in 1..n + 1 /\ (1..n + 1) \ {n + 1} = 1..n /\ \A i \in 1..n + 1 : i \in 1..n \/ i = n + 1
  OBVIOUS
<1>3. \A i \in 1..n + 1 : G[i] \in Int
  BY <1>2
<1>4. \A x \in 1..n + 1 : Sum(G, 1..n + 1) = G[x] + Sum(G, (1..n + 1) \ {x})
  BY <1>1, <1>3, SumWithout
<1>5. Sum(G, 1..n + 1) = G[n + 1] + Sum(G, 1..n)
  BY <1>2, <1>4
<1>6. Sum(G, 1..n) = Sum(F, 1..n) /\ Sum(F, 1..n) \in Int
  BY <1>1, SumSame, SumIsInteger
<1> QED BY <1>5, <1>6

\* What a line puts on account a, and what lines put on it.
On(b, x, a) == IF b = a THEN x ELSE 0
PutOn(lines, a) == [i \in DOMAIN lines |-> On(lines[i][1], lines[i][2], a)]

LEMMA LineSumPuts ==
  ASSUME NEW lines \in LinesIn(Accounts, Int), NEW a
  PROVE  /\ LineSum(lines, a) = Sum(PutOn(lines, a), DOMAIN lines)
         /\ LineSum(lines, a) \in Int
         /\ \A i \in DOMAIN lines : PutOn(lines, a)[i] \in Int
<1>1. PutOn(lines, a) = [i \in DOMAIN lines |-> IF lines[i][1] = a THEN lines[i][2] ELSE 0]
  BY DEF PutOn, On
<1>2. DOMAIN PutOn(lines, a) = DOMAIN lines
  BY DEF PutOn
<1>3. LineSum(lines, a) = Sum(PutOn(lines, a), DOMAIN lines)
  BY <1>1, <1>2, SumFunctionIsSum DEF LineSum
<1>4. \A i \in DOMAIN lines : PutOn(lines, a)[i] \in Int
  BY <1>1, NamedIn
<1> QED BY <1>3, <1>4, LineSumIsInteger

\* One more line.
LEMMA LineAdded ==
  ASSUME NEW s \in LinesIn(Accounts, Int), NEW b \in Accounts, NEW x \in Int, NEW a
  PROVE  /\ s \o << <<b, x>> >> \in LinesIn(Accounts, Int) /\ s \o LineOf(b, x) \in LinesIn(Accounts, Int)
         /\ LineSum(s \o << <<b, x>> >>, a) = LineSum(s, a) + On(b, x, a)
         /\ LineSum(s \o LineOf(b, x), a) = LineSum(s, a) + On(b, x, a)
<1>1. PICK t : t = s \o << <<b, x>> >>
  OBVIOUS
<1>2. PICK n \in Nat : n = Len(s) /\ DOMAIN s = 1..n
  BY LenProperties DEF LinesIn
<1>3. /\ t \in LinesIn(Accounts, Int) /\ DOMAIN t = 1..n + 1
      /\ (\A i \in 1..n : t[i] = s[i]) /\ t[n + 1] = <<b, x>>
  <2>1. PICK y \in Accounts \X Int : y = <<b, x>>
    OBVIOUS
  <2>2. t = Append(s, y)
    BY <1>1, <2>1, AppendIsConcat DEF LinesIn
  <2>3. /\ Append(s, y) \in LinesIn(Accounts, Int) /\ Len(Append(s, y)) = n + 1
        /\ (\A i \in 1..n : Append(s, y)[i] = s[i]) /\ Append(s, y)[n + 1] = y
    BY <1>2, AppendProperties DEF LinesIn
  <2>4. DOMAIN t = 1..n + 1
    BY <2>2, <2>3, LenProperties DEF LinesIn
  <2> QED BY <2>1, <2>2, <2>3, <2>4
<1>4. On(b, x, a) \in Int
  BY DEF On
<1>5. LineSum(t, a) = LineSum(s, a) + On(b, x, a)
  <2>1. PICK F : F = PutOn(s, a)
    OBVIOUS
  <2>2. PICK G : G = PutOn(t, a)
    OBVIOUS
  <2>3. G[n + 1] = On(b, x, a) /\ \A i \in 1..n : F[i] \in Int /\ G[i] = F[i]
    <3>1. n + 1 \in DOMAIN t /\ \A i \in 1..n : i \in DOMAIN t
      BY <1>3
    <3>2. \A i \in 1..n : F[i] \in Int
      BY <1>2, <2>1, LineSumPuts
    <3>3. \A i \in 1..n : G[i] = F[i]
      BY <1>2, <1>3, <2>1, <2>2, <3>1 DEF PutOn
    <3>4. G[n + 1] = On(t[n + 1][1], t[n + 1][2], a)
      BY <2>2, <3>1 DEF PutOn
    <3>5. G[n + 1] = On(b, x, a)
      BY <1>3, <3>4
    <3> QED BY <3>2, <3>3, <3>5
  <2>4. Sum(G, 1..n + 1) = Sum(F, 1..n) + G[n + 1]
    BY <1>4, <2>3, SumWithMore
  <2> QED BY <1>2, <1>3, <2>1, <2>2, <2>3, <2>4, LineSumPuts
<1>6. s \o LineOf(b, x) \in LinesIn(Accounts, Int) /\ LineSum(s \o LineOf(b, x), a) = LineSum(s, a) + On(b, x, a)
  <2>1. CASE x = 0
    <3>1. s \o LineOf(b, x) = s
      BY <2>1, ConcatEmptySeq DEF LineOf, LinesIn
    <3>2. LineSum(s, a) \in Int /\ On(b, x, a) = 0
      BY <2>1, LineSumPuts DEF On
    <3> QED BY <3>1, <3>2
  <2>2. CASE x # 0
    <3>1. LineOf(b, x) = << <<b, x>> >>
      BY <2>2 DEF LineOf
    <3> QED BY <1>1, <1>3, <1>5, <3>1
  <2> QED BY <2>1, <2>2
<1> QED BY <1>1, <1>3, <1>5, <1>6

LEMMA LinesAppended ==
  \A s \in LinesIn(Accounts, Int), b \in Accounts, x \in Int, a \in Control :
    LineSum(s \o << <<b, x>> >>, a) = LineSum(s, a) + On(b, x, a)
BY LineAdded, Zenon

\* The first lines.
LEMMA FirstLine ==
  ASSUME NEW b \in Accounts, NEW x \in Int, NEW a
  PROVE  /\ << <<b, x>> >> \in LinesIn(Accounts, Int) /\ LineSum(<< <<b, x>> >>, a) = On(b, x, a)
         /\ LineOf(b, x) \in LinesIn(Accounts, Int) /\ LineSum(LineOf(b, x), a) = On(b, x, a)
<1>1. PICK s : s = <<>>
  OBVIOUS
<1>2. s \in LinesIn(Accounts, Int) /\ DOMAIN s = {}
  BY <1>1 DEF LinesIn
<1>3. LineSum(s, a) = 0
  <2>1. LineSum(s, a) = Sum(PutOn(s, a), {})
    BY <1>2, LineSumPuts
  <2>2. Sum(PutOn(s, a), {}) = 0
    BY SumOfNothing, FS_EmptySet
  <2> QED BY <2>1, <2>2
<1>4. On(b, x, a) \in Int
  BY DEF On
<1>5. s \o << <<b, x>> >> = << <<b, x>> >>
  <2>1. << <<b, x>> >> \in Seq(Accounts \X Int)
    BY LineOfIn DEF LinesIn
  <2> QED BY <1>1, <2>1, ConcatEmptySeq
<1>6. s \o LineOf(b, x) = LineOf(b, x)
  <2>1. LineOf(b, x) \in Seq(Accounts \X Int)
    BY LineOfIn DEF LinesIn
  <2> QED BY <1>1, <2>1, ConcatEmptySeq
<1>7. /\ s \o << <<b, x>> >> \in LinesIn(Accounts, Int) /\ s \o LineOf(b, x) \in LinesIn(Accounts, Int)
      /\ LineSum(s \o << <<b, x>> >>, a) = LineSum(s, a) + On(b, x, a)
      /\ LineSum(s \o LineOf(b, x), a) = LineSum(s, a) + On(b, x, a)
  BY <1>2, LineAdded
<1>8. 0 + On(b, x, a) = On(b, x, a)
  BY <1>4
<1> QED BY <1>3, <1>5, <1>6, <1>7, <1>8, Zenon

LEMMA TwoLines ==
  ASSUME NEW b \in Accounts, NEW x \in Int, NEW c \in Accounts, NEW y \in Int
  PROVE  << <<b, x>> >> \o << <<c, y>> >> = << <<b, x>>, <<c, y>> >>
<1>1. ASSUME NEW p, NEW q PROVE <<p>> \o <<q>> = <<p, q>>
  <2>1. PICK f \in Seq({p, q}), g \in Seq({p, q}), s \in Seq({p, q}) : f = <<p>> /\ g = <<q>> /\ s = <<p, q>>
    <3>1. <<p>> \in Seq({p, q})
      OBVIOUS
    <3>2. <<q>> \in Seq({p, q})
      OBVIOUS
    <3>3. <<p, q>> \in Seq({p, q})
      OBVIOUS
    <3> QED BY <3>1, <3>2, <3>3, Zenon
  <2>2. Len(f) = 1 /\ Len(g) = 1 /\ Len(s) = 2 /\ f[1] = p /\ g[1] = q /\ s[1] = p /\ s[2] = q
    BY <2>1
  <2>3. PICK t \in Seq({p, q}) : t = f \o g
    BY ConcatProperties
  <2>4. Len(t) = 2 /\ t[1] = p /\ t[2] = q
    BY <2>2, <2>3, ConcatProperties
  <2>5. t = s
    BY <2>2, <2>4, SeqEqual
  <2> QED BY <2>1, <2>3, <2>5
<1>2. PICK p, q : p = <<b, x>> /\ q = <<c, y>>
  OBVIOUS
<1> QED BY <1>1, <1>2

\* The lines of documents and payments, on the control accounts.
LEMMA RolesAre ==
  /\ {"cash", "customer_credits", "vendor_prepayments", "sales_tax_payable", "cogs", "inventory",
      "input_tax_receivable"} \subseteq Accounts \ Control
  /\ Control \subseteq Accounts
BY Roles DEF Accounts, Control

\* A line on another account changes nothing on these.
LEMMA LineElsewhere ==
  ASSUME NEW s \in LinesIn(Accounts, Int), NEW a \in Control, NEW b \in Accounts \ Control, NEW x \in Int
  PROVE  /\ s \o << <<b, x>> >> \in LinesIn(Accounts, Int) /\ s \o LineOf(b, x) \in LinesIn(Accounts, Int)
         /\ LineSum(s \o << <<b, x>> >>, a) = LineSum(s, a) /\ LineSum(s \o LineOf(b, x), a) = LineSum(s, a)
<1>1. On(b, x, a) = 0 /\ LineSum(s, a) \in Int /\ b \in Accounts
  BY LineSumPuts DEF On
<1>2. /\ s \o << <<b, x>> >> \in LinesIn(Accounts, Int) /\ s \o LineOf(b, x) \in LinesIn(Accounts, Int)
      /\ LineSum(s \o << <<b, x>> >>, a) = LineSum(s, a) + On(b, x, a)
      /\ LineSum(s \o LineOf(b, x), a) = LineSum(s, a) + On(b, x, a)
  BY <1>1, LineAdded, Zenon
<1>3. LineSum(s, a) + On(b, x, a) = LineSum(s, a)
  BY <1>1
<1> QED BY <1>2, <1>3, Zenon

LEMMA LinesElsewhere ==
  \A s \in LinesIn(Accounts, Int), a \in Control, b \in Accounts \ Control, x \in Int :
    s \o LineOf(b, x) \in LinesIn(Accounts, Int) /\ LineSum(s \o LineOf(b, x), a) = LineSum(s, a)
<1> TAKE s \in LinesIn(Accounts, Int), a \in Control, b \in Accounts \ Control, x \in Int
<1> QED BY LineElsewhere, ZenonT(30)

LEMMA OneLineElsewhere ==
  \A s \in LinesIn(Accounts, Int), a \in Control, b \in Accounts \ Control, x \in Int :
    s \o << <<b, x>> >> \in LinesIn(Accounts, Int) /\ LineSum(s \o << <<b, x>> >>, a) = LineSum(s, a)
<1> TAKE s \in LinesIn(Accounts, Int), a \in Control, b \in Accounts \ Control, x \in Int
<1> QED BY LineElsewhere, ZenonT(30)

LEMMA InvoiceGives ==
  ASSUME TermsOK, NEW row \in DocRow, NEW a \in Control
  PROVE  LineSum(InvoiceLines(row), a) = On("accounts_receivable", Total(row), a)
<1>1. PICK total \in Int, net \in Int, tax \in Int, cost \in Int :
        /\ total = Total(row) /\ net = -row.net /\ tax = -row.tax /\ cost = CostOf(row.order)
  <2>1. row.net \in Nat /\ row.tax \in Nat /\ row.order \in Orders \cup {None}
    BY DEF DocRow
  <2>2. CostOf(row.order) \in Nat
    BY <2>1, HalfIsAmount DEF CostOf, TermsOK
  <2> QED BY <2>1, <2>2 DEF Total
<1>2. PICK b \in Accounts : b = Or(row.account, "sales") /\ b \notin Control
  BY Roles, LedgerAssumption DEF Or, DocRow, Accounts, Control
<1>3. PICK receivable \in Accounts : receivable = "accounts_receivable"
  BY RolesAre DEF Control
<1>4. PICK taxes \in Accounts \ Control, cogs \in Accounts \ Control, inventory \in Accounts \ Control :
        taxes = "sales_tax_payable" /\ cogs = "cogs" /\ inventory = "inventory"
  BY RolesAre
<1>5. PICK f \in LinesIn(Accounts, Int) : f = << <<receivable, total>> >> /\ LineSum(f, a) = On(receivable, total, a)
  BY FirstLine, Zenon
<1>6. PICK s \in LinesIn(Accounts, Int) : s = << <<receivable, total>>, <<b, net>> >> /\ LineSum(s, a) = LineSum(f, a)
  <2>1. PICK c \in Accounts \ Control : c = b
    BY <1>2
  <2>2. PICK e \in LinesIn(Accounts, Int) : e = f \o << <<c, net>> >> /\ LineSum(e, a) = LineSum(f, a)
    BY OneLineElsewhere, ZenonT(30)
  <2>3. << <<receivable, total>> >> \o << <<c, net>> >> = << <<receivable, total>>, <<c, net>> >>
    BY TwoLines
  <2>4. e = << <<receivable, total>>, <<c, net>> >>
    BY <1>5, <2>2, <2>3
  <2> QED BY <2>1, <2>2, <2>4
<1>7. PICK t \in LinesIn(Accounts, Int) : t = s \o LineOf(taxes, tax) /\ LineSum(t, a) = LineSum(s, a)
  BY LinesElsewhere, Zenon
<1>8. PICK u \in LinesIn(Accounts, Int) : u = t \o LineOf(cogs, cost) /\ LineSum(u, a) = LineSum(t, a)
  BY LinesElsewhere, Zenon
<1>9. PICK less \in Int : less = -cost
  OBVIOUS
<1>10. LineSum(u \o LineOf(inventory, less), a) = LineSum(u, a)
  BY LinesElsewhere, Zenon
<1>11. InvoiceLines(row) = u \o LineOf(inventory, less)
  BY <1>1, <1>2, <1>3, <1>4, <1>6, <1>7, <1>8, <1>9 DEF InvoiceLines
<1> QED BY <1>1, <1>3, <1>5, <1>6, <1>7, <1>8, <1>10, <1>11

LEMMA BillGives ==
  ASSUME NEW row \in DocRow, NEW a \in Control
  PROVE  LineSum(BillLines(row), a) = On("accounts_payable", -Total(row), a)
<1>1. PICK total \in Int, net \in Int, tax \in Int : total = -Total(row) /\ net = row.net /\ tax = row.tax
  <2>1. row.net \in Nat /\ row.tax \in Nat
    BY DEF DocRow
  <2> QED BY <2>1 DEF Total
<1>2. PICK b \in Accounts : b = Or(row.account, "operating_expenses") /\ b \notin Control
  BY Roles, LedgerAssumption DEF Or, DocRow, Accounts, Control
<1>3. PICK payable \in Accounts : payable = "accounts_payable"
  BY RolesAre DEF Control
<1>4. PICK taxes \in Accounts \ Control : taxes = "input_tax_receivable"
  BY RolesAre
<1>5. PICK s \in LinesIn(Accounts, Int) : s = << <<b, net>> >> /\ LineSum(s, a) = On(b, net, a)
  BY FirstLine, Zenon
<1>6. PICK t \in LinesIn(Accounts, Int) : t = s \o LineOf(taxes, tax) /\ LineSum(t, a) = LineSum(s, a)
  BY LinesElsewhere, Zenon
<1>7. LineSum(t \o << <<payable, total>> >>, a) = LineSum(t, a) + On(payable, total, a)
  BY LinesAppended, Zenon
<1>8. LineSum(t, a) + On(payable, total, a) = On(payable, total, a)
  BY <1>2, <1>5, <1>6 DEF On
<1>9. BillLines(row) = t \o << <<payable, total>> >>
  BY <1>1, <1>2, <1>3, <1>4, <1>5, <1>6 DEF BillLines
<1> QED BY <1>1, <1>3, <1>7, <1>8, <1>9

LEMMA PaymentGives ==
  ASSUME NEW incoming \in BOOLEAN, NEW amount \in Int, NEW applied \in Int, NEW a \in Control
  PROVE  LineSum(PaymentLines(incoming, amount, applied), a)
           = IF incoming THEN On("accounts_receivable", -applied, a) ELSE On("accounts_payable", applied, a)
<1>1. PICK rest \in Int, less \in Int, out \in Int, back \in Int :
        rest = amount - applied /\ less = -applied /\ out = -amount /\ back = -rest
  OBVIOUS
<1>2. PICK cash \in Accounts \ Control, credits \in Accounts \ Control, prepaid \in Accounts \ Control :
        cash = "cash" /\ credits = "customer_credits" /\ prepaid = "vendor_prepayments"
  BY RolesAre
<1>3. PICK receivable \in Accounts, payable \in Accounts :
        receivable = "accounts_receivable" /\ payable = "accounts_payable"
  BY RolesAre DEF Control
<1>4. cash \in Accounts
  OBVIOUS
<1>5. CASE incoming
  <2>1. PICK s \in LinesIn(Accounts, Int) : s = << <<cash, amount>> >> /\ LineSum(s, a) = On(cash, amount, a)
    BY <1>4, FirstLine, Zenon
  <2>2. PICK t \in LinesIn(Accounts, Int) :
          t = s \o LineOf(receivable, less) /\ LineSum(t, a) = LineSum(s, a) + On(receivable, less, a)
    BY LineAdded, Zenon
  <2>3. LineSum(t \o LineOf(credits, back), a) = LineSum(t, a)
    BY LinesElsewhere, Zenon
  <2>4. PaymentLines(incoming, amount, applied) = t \o LineOf(credits, back)
    BY <1>1, <1>2, <1>3, <1>5, <2>1, <2>2 DEF PaymentLines
  <2>5. LineSum(t, a) = On(receivable, less, a)
    BY <2>1, <2>2 DEF On
  <2> QED BY <1>1, <1>3, <1>5, <2>3, <2>4, <2>5
<1>6. CASE ~incoming
  <2>1. PICK s \in LinesIn(Accounts, Int) : s = LineOf(payable, applied) /\ LineSum(s, a) = On(payable, applied, a)
    BY FirstLine, Zenon
  <2>2. PICK t \in LinesIn(Accounts, Int) : t = s \o LineOf(prepaid, rest) /\ LineSum(t, a) = LineSum(s, a)
    BY LinesElsewhere, Zenon
  <2>3. LineSum(t \o << <<cash, out>> >>, a) = LineSum(t, a)
    BY OneLineElsewhere, ZenonT(30)
  <2>4. PaymentLines(incoming, amount, applied) = t \o << <<cash, out>> >>
    BY <1>1, <1>2, <1>3, <1>6, <2>1, <2>2 DEF PaymentLines
  <2> QED BY <1>3, <1>6, <2>1, <2>2, <2>3, <2>4
<1> QED BY <1>5, <1>6

LEMMA MirrorGives ==
  ASSUME NEW n, journal[n].lines \in LinesIn(Accounts, Int), NEW a
  PROVE  LineSum(Mirror(n), a) = -LineSum(journal[n].lines, a)
<1>1. PICK s \in LinesIn(Accounts, Int) : s = journal[n].lines
  OBVIOUS
<1>2. PICK t \in LinesIn(Accounts, Int) : t = Mirror(n)
  BY MirrorIn
<1>3. DOMAIN t = DOMAIN s /\ \A i \in DOMAIN s : t[i] = <<s[i][1], -s[i][2]>>
  BY <1>1, <1>2 DEF Mirror
<1>4. PICK F : F = PutOn(s, a)
  OBVIOUS
<1>5. PICK G : G = PutOn(t, a)
  OBVIOUS
<1>6. \A i \in DOMAIN s : F[i] \in Int /\ G[i] = -F[i]
  <2> TAKE i \in DOMAIN s
  <2>1. F[i] = On(s[i][1], s[i][2], a) /\ G[i] = On(s[i][1], -s[i][2], a)
    BY <1>3, <1>4, <1>5 DEF PutOn
  <2>2. s[i][2] \in Int
    BY NamedIn
  <2> QED BY <2>1, <2>2 DEF On
<1>7. IsFiniteSet(DOMAIN s)
  BY LinesAre
<1>8. Sum(G, DOMAIN s) = -Sum(F, DOMAIN s)
  BY <1>6, <1>7, SumNegated
<1> QED BY <1>1, <1>2, <1>3, <1>4, <1>5, <1>8, LineSumPuts

\* The part of an amount that document d has on a control account.
Part(d, a, x) ==
  IF a = "accounts_receivable" THEN (IF d \in Invoices THEN x ELSE 0)
  ELSE IF d \in Bills THEN -x ELSE 0

\* What a payment takes from each document, and what documents still owe.
Takes(applied, a) ==
  [d \in Docs |-> Part(d, a, IF d \in DOMAIN applied THEN -applied[d] ELSE 0)]
Left(rows, a) == [d \in Docs |-> Part(d, a, IF rows[d].status \in Live THEN Due(rows[d]) ELSE 0)]

LEMMA PartIs ==
  ASSUME NEW d \in Docs, NEW a \in Control, NEW x \in Int, NEW y \in Int
  PROVE  /\ Part(d, a, x) \in Int /\ Part(d, a, 0) = 0 /\ Part(d, a, -x) = -Part(d, a, x)
         /\ Part(d, a, x + y) = Part(d, a, x) + Part(d, a, y)
<1>1. Part(d, a, x) \in Int
  BY DEF Part
<1>2. Part(d, a, 0) = 0
  <2>1. PICK z \in Int : z = 0
    OBVIOUS
  <2>2. PICK w \in Int : w = -z
    OBVIOUS
  <2>3. z + w = 0
    BY <2>2
  <2>4. w = 0
    BY <2>1, <2>3
  <2>5. Part(d, a, z) = 0
    BY <2>1, <2>2, <2>4, Zenon DEF Part
  <2> QED BY <2>1, <2>5, Zenon
<1>3. Part(d, a, -x) = -Part(d, a, x)
  BY DEF Part
<1>4. Part(d, a, x + y) = Part(d, a, x) + Part(d, a, y)
  BY DEF Part
<1> QED BY <1>1, <1>2, <1>3, <1>4

LEMMA DocumentGives ==
  ASSUME TermsOK, doc \in [Docs -> DocRow], NEW d \in Docs, NEW a \in Control
  PROVE  LineSum(LinesOf(d), a) = Part(d, a, Total(doc[d]))
<1>1. PICK row \in DocRow : row = doc[d]
  OBVIOUS
<1>2. PICK total \in Nat : total = Total(row)
  BY DEF Total, DocRow
<1>3. CASE d \in Invoices
  <2>1. LineSum(InvoiceLines(row), a) = On("accounts_receivable", Total(row), a)
    BY InvoiceGives
  <2>2. d \notin Bills
    BY <1>3, KindsAreDistinct
  <2> QED BY <1>1, <1>2, <1>3, <2>1, <2>2 DEF LinesOf, On, Part, Control
<1>4. CASE d \notin Invoices
  <2>1. LineSum(BillLines(row), a) = On("accounts_payable", -Total(row), a)
    BY BillGives
  <2>2. d \in Bills
    BY <1>4 DEF Docs
  <2> QED BY <1>1, <1>2, <1>4, <2>1, <2>2 DEF LinesOf, On, Part, Control
<1> QED BY <1>3, <1>4

LEMMA TakesTyped ==
  ASSUME NEW S \in SUBSET Docs, NEW applied \in [S -> Nat], NEW a \in Control
  PROVE  \A d \in Docs : Takes(applied, a)[d] \in Int
BY DEF Takes, Part

LEMMA PaymentTakes ==
  ASSUME NEW incoming \in BOOLEAN, NEW amount \in Int, NEW S \in SUBSET Docs, NEW applied \in [S -> Nat],
         S \subseteq (IF incoming THEN Invoices ELSE Bills), NEW a \in Control
  PROVE  LineSum(PaymentLines(incoming, amount, SumFunction(applied)), a) = Sum(Takes(applied, a), Docs)
<1>1. IsFiniteSet(Docs) /\ IsFiniteSet(S)
  BY RowsAreFinite, FS_Subset
<1>2. SumFunction(applied) = Sum(applied, S) /\ Sum(applied, S) \in Nat
  BY <1>1, SumFunctionIsSum, SumOfAmounts
<1>3. PICK total \in Int : total = Sum(applied, S) /\ total = SumFunction(applied)
  BY <1>2
<1>4. LineSum(PaymentLines(incoming, amount, total), a)
        = IF incoming THEN On("accounts_receivable", -total, a) ELSE On("accounts_payable", total, a)
  BY PaymentGives
<1>5. PICK F : F = Takes(applied, a)
  OBVIOUS
<1>6. \A d \in Docs : F[d] = Part(d, a, IF d \in S THEN -applied[d] ELSE 0)
  BY <1>5 DEF Takes
<1>7. \A d \in Docs : F[d] \in Int
  BY <1>5, TakesTyped
<1>8. CASE incoming /\ a = "accounts_receivable"
  <2>1. PICK G : G = [d \in S |-> -applied[d]]
    OBVIOUS
  <2>2. \A d \in S : applied[d] \in Int /\ G[d] = -applied[d]
    BY <2>1
  <2>3. Sum(G, S) = -total
    BY <1>1, <1>3, <2>2, SumNegated
  <2>4. /\ \A d \in S : G[d] = F[d]
        /\ \A d \in Docs \ S : F[d] = 0
    BY <1>6, <1>8, <2>2 DEF Part
  <2>5. Sum(G, S) = Sum(F, Docs)
    BY <1>1, <1>7, <2>4, SumOfSupport
  <2> QED BY <1>3, <1>4, <1>5, <1>8, <2>3, <2>5 DEF On
<1>9. CASE ~incoming /\ a = "accounts_payable"
  <2>1. /\ \A d \in S : applied[d] = F[d]
        /\ \A d \in Docs \ S : F[d] = 0
    BY <1>6, <1>9 DEF Part
  <2>2. Sum(applied, S) = Sum(F, Docs)
    BY <1>1, <1>7, <2>1, SumOfSupport
  <2> QED BY <1>3, <1>4, <1>5, <1>9, <2>2 DEF On
<1>10. CASE IF incoming THEN a = "accounts_payable" ELSE a = "accounts_receivable"
  <2>1. \A d \in Docs : F[d] = 0
    BY <1>6, <1>10, KindsAreDistinct DEF Part
  <2>2. Sum(F, Docs) = 0
    BY <1>1, <2>1, SumOfNothing
  <2> QED BY <1>3, <1>4, <1>5, <1>10, <2>2 DEF On
<1> QED BY <1>8, <1>9, <1>10 DEF Control

----------------------------------------------------------------------------
(* The sums over the journal, as it grows.                                 *)

Ours(e) == e.of \in Docs \cup Payments

TradeOn(j, a) == [n \in DOMAIN j |-> IF Ours(j[n]) THEN LineSum(j[n].lines, a) ELSE 0]
WasteOn(j) == [n \in DOMAIN j |-> IF j[n].source = "waste" THEN LineSum(j[n].lines, "filament_waste") ELSE 0]

Trade(j, a) == Sum(TradeOn(j, a), DOMAIN j)
Wasted(j) == Sum(WasteOn(j), DOMAIN j)

LEMMA JournalSums ==
  ASSUME JournalOK
  PROVE  /\ IsFiniteSet(DOMAIN journal)
         /\ \A a : \A n \in DOMAIN journal : TradeOn(journal, a)[n] \in Int
         /\ \A n \in DOMAIN journal : WasteOn(journal)[n] \in Int
         /\ \A a : Trade(journal, a) \in Int
         /\ Wasted(journal) \in Int
<1>1. IsFiniteSet(DOMAIN journal)
  BY Appended, FS_Interval DEF JournalOK
<1>2. \A a : \A n \in DOMAIN journal : LineSum(journal[n].lines, a) \in Int
  BY LineSumIsInteger DEF JournalOK
<1>3. \A a : \A n \in DOMAIN journal : TradeOn(journal, a)[n] \in Int
  BY <1>2 DEF TradeOn
<1>4. \A n \in DOMAIN journal : WasteOn(journal)[n] \in Int
  BY <1>2 DEF WasteOn
<1>5. ASSUME NEW a PROVE Trade(journal, a) \in Int
  BY <1>1, <1>3, SumIsInteger DEF Trade
<1>6. Wasted(journal) \in Int
  BY <1>1, <1>4, SumIsInteger DEF Wasted
<1> QED BY <1>1, <1>3, <1>4, <1>5, <1>6

LEMMA SumsGrow ==
  ASSUME JournalOK, NEW e, e.lines \in LinesIn(Accounts, Int), journal' = Append(journal, e), NEW a
  PROVE  /\ Trade(journal', a) = Trade(journal, a) + (IF Ours(e) THEN LineSum(e.lines, a) ELSE 0)
         /\ Wasted(journal')
              = Wasted(journal) + (IF e.source = "waste" THEN LineSum(e.lines, "filament_waste") ELSE 0)
<1>1. PICK k : k = journal'
  OBVIOUS
<1>2. PICK n \in Nat : n = Len(journal) /\ DOMAIN journal = 1..n
  BY Appended DEF JournalOK
<1>3. DOMAIN k = 1..n + 1 /\ (\A i \in 1..n : k[i] = journal[i]) /\ k[n + 1] = e
  BY <1>1, <1>2, Appended DEF JournalOK
<1>4. n + 1 \in DOMAIN k /\ \A i \in 1..n : i \in DOMAIN k /\ i \in DOMAIN journal
  BY <1>2, <1>3
<1>5. \A b : LineSum(e.lines, b) \in Int
  BY LineSumIsInteger
<1>6. Trade(k, a) = Trade(journal, a) + (IF Ours(e) THEN LineSum(e.lines, a) ELSE 0)
  <2>1. PICK F : F = TradeOn(journal, a)
    OBVIOUS
  <2>2. PICK G : G = TradeOn(k, a)
    OBVIOUS
  <2>3. \A i \in 1..n : F[i] \in Int
    BY <1>4, <2>1, JournalSums
  <2>4. \A i \in 1..n : G[i] = F[i]
    BY <1>3, <1>4, <2>1, <2>2 DEF TradeOn
  <2>5. G[n + 1] = IF Ours(e) THEN LineSum(e.lines, a) ELSE 0
    BY <1>3, <1>4, <2>2 DEF TradeOn
  <2>6. G[n + 1] \in Int
    BY <1>5, <2>5
  <2>7. Sum(G, 1..n + 1) = Sum(F, 1..n) + G[n + 1]
    BY <2>3, <2>4, <2>6, SumWithMore
  <2> QED BY <1>2, <1>3, <2>1, <2>2, <2>5, <2>7 DEF Trade
<1>7. Wasted(k) = Wasted(journal) + (IF e.source = "waste" THEN LineSum(e.lines, "filament_waste") ELSE 0)
  <2>1. PICK F : F = WasteOn(journal)
    OBVIOUS
  <2>2. PICK G : G = WasteOn(k)
    OBVIOUS
  <2>3. \A i \in 1..n : F[i] \in Int
    BY <1>4, <2>1, JournalSums
  <2>4. \A i \in 1..n : G[i] = F[i]
    BY <1>3, <1>4, <2>1, <2>2 DEF WasteOn
  <2>5. G[n + 1] = IF e.source = "waste" THEN LineSum(e.lines, "filament_waste") ELSE 0
    BY <1>3, <1>4, <2>2 DEF WasteOn
  <2>6. G[n + 1] \in Int
    BY <1>5, <2>5
  <2>7. Sum(G, 1..n + 1) = Sum(F, 1..n) + G[n + 1]
    BY <2>3, <2>4, <2>6, SumWithMore
  <2> QED BY <1>2, <1>3, <2>1, <2>2, <2>5, <2>7 DEF Wasted
<1> QED BY <1>1, <1>6, <1>7

----------------------------------------------------------------------------
(* What the control accounts show.                                         *)

\* The entry a row points at put on the control accounts what the row says.
EntriesTell ==
  /\ \A a \in Control : \A d \in Docs : doc[d].status \in Live =>
       LineSum(journal[doc[d].entry].lines, a) = Part(d, a, Total(doc[d]))
  /\ \A a \in Control : \A p \in Payments : payment[p].status = "recorded" =>
       LineSum(journal[payment[p].entry].lines, a) = Sum(Takes(payment[p].applied, a), Docs)

WasteCosts(rows) == [i \in DOMAIN rows |-> SumFunction(rows[i].cost)]

TradeOK == \A a \in Control : Trade(journal, a) = Sum(Left(doc, a), Docs)
WasteOK == /\ \A i \in DOMAIN waste : WasteCosts(waste)[i] \in Nat
           /\ Wasted(journal) = Sum(WasteCosts(waste), DOMAIN waste)

\* Rows that keep their entry go on telling the same.
LEMMA TellsStill ==
  ASSUME JournalOK, DocsOK, SpentOK, EntriesTell,
         journal' = journal \/ \E e : journal' = Append(journal, e),
         \A d \in Docs : doc'[d].status \in Live =>
           \/ doc[d].status \in Live /\ doc'[d].entry = doc[d].entry /\ Total(doc'[d]) = Total(doc[d])
           \/ \A a \in Control : LineSum(journal'[doc'[d].entry].lines, a) = Part(d, a, Total(doc'[d])),
         \A p \in Payments : payment'[p].status = "recorded" =>
           \/ payment'[p] = payment[p]
           \/ \A a \in Control :
                LineSum(journal'[payment'[p].entry].lines, a) = Sum(Takes(payment'[p].applied, a), Docs)
  PROVE  EntriesTell'
<1>1. PICK n \in Nat : n = Len(journal) /\ DOMAIN journal = 1..n
  BY Appended DEF JournalOK
<1>2. \A i \in 1..n : journal'[i] = journal[i]
  BY <1>1, Appended DEF JournalOK
<1>3. ASSUME NEW a \in Control, NEW d \in Docs, doc'[d].status \in Live
      PROVE  LineSum(journal'[doc'[d].entry].lines, a) = Part(d, a, Total(doc'[d]))
  <2>1. CASE doc[d].status \in Live /\ doc'[d].entry = doc[d].entry /\ Total(doc'[d]) = Total(doc[d])
    <3>1. doc[d].entry \in 1..n
      BY <1>1, <2>1 DEF DocsOK, DocRow, Pointing
    <3>2. journal'[doc[d].entry] = journal[doc[d].entry]
      BY <1>2, <3>1
    <3> QED BY <2>1, <3>2 DEF EntriesTell
  <2> QED BY <1>3, <2>1
<1>4. ASSUME NEW a \in Control, NEW p \in Payments, payment'[p].status = "recorded"
      PROVE  LineSum(journal'[payment'[p].entry].lines, a) = Sum(Takes(payment'[p].applied, a), Docs)
  <2>1. CASE payment'[p] = payment[p]
    <3>1. payment[p].entry \in 1..n
      BY <1>1, <1>4, <2>1 DEF SpentOK, PaymentRow, Pointing
    <3>2. journal'[payment[p].entry] = journal[payment[p].entry]
      BY <1>2, <3>1
    <3> QED BY <1>4, <2>1, <3>2 DEF EntriesTell
  <2> QED BY <1>4, <2>1
<1> QED BY <1>3, <1>4 DEF EntriesTell

\* What is left of documents, when one changes.
LEMMA LeftTyped ==
  ASSUME NEW rows \in [Docs -> DocRow], NEW a \in Control
  PROVE  /\ \A d \in Docs : Left(rows, a)[d] \in Int
         /\ Sum(Left(rows, a), Docs) \in Int
<1>1. ASSUME NEW d \in Docs PROVE Left(rows, a)[d] \in Int
  <2>1. rows[d].net \in Nat /\ rows[d].tax \in Nat /\ rows[d].paid \in Nat
    BY DEF DocRow
  <2>2. PICK x \in Int : x = IF rows[d].status \in Live THEN Due(rows[d]) ELSE 0
    BY <2>1 DEF Due, Total
  <2> QED BY <2>2, PartIs DEF Left
<1> QED BY <1>1, SumIsInteger, RowsAreFinite

LEMMA LeftChanged ==
  ASSUME doc \in [Docs -> DocRow], doc' \in [Docs -> DocRow], NEW d \in Docs,
         \A x \in Docs \ {d} : doc'[x] = doc[x], NEW a \in Control
  PROVE  Sum(Left(doc', a), Docs) = Sum(Left(doc, a), Docs) - Left(doc, a)[d] + Left(doc', a)[d]
<1>1. PICK F : F = Left(doc, a)
  OBVIOUS
<1>2. PICK G : G = Left(doc', a)
  OBVIOUS
<1>3. /\ \A x \in Docs : F[x] \in Int
      /\ G[d] \in Int
  BY <1>1, <1>2, LeftTyped
<1>4. \A x \in Docs \ {d} : G[x] = F[x]
  BY <1>1, <1>2 DEF Left
<1>5. IsFiniteSet(Docs)
  BY RowsAreFinite
<1>6. Sum(G, Docs) = Sum(F, Docs) - F[d] + G[d]
  BY <1>3, <1>4, <1>5, SumChanged
<1> QED BY <1>1, <1>2, <1>6

ControlOK == EntriesTell /\ TradeOK /\ WasteOK

LEMMA EntryOf ==
  \A date, source, of, lines : /\ Entry(date, source, of, lines).of = of
                               /\ Entry(date, source, of, lines).source = source
                               /\ Entry(date, source, of, lines).lines = lines
BY DEF Entry

\* An entry that was added.
LEMMA NewEntry ==
  ASSUME JournalOK, JournalOK', NEW e, journal' = Append(journal, e)
  PROVE  /\ e.lines \in LinesIn(Accounts, Int) /\ journal'[Len(journal) + 1] = e
         /\ \A a : Trade(journal', a) = Trade(journal, a) + (IF Ours(e) THEN LineSum(e.lines, a) ELSE 0)
         /\ Wasted(journal')
              = Wasted(journal) + (IF e.source = "waste" THEN LineSum(e.lines, "filament_waste") ELSE 0)
<1>1. PICK n \in Nat : n = Len(journal)
  BY Appended DEF JournalOK
<1>2. journal'[n + 1] = e /\ n + 1 \in DOMAIN journal'
  BY <1>1, Appended DEF JournalOK
<1>3. e.lines \in LinesIn(Accounts, Int)
  BY <1>2 DEF JournalOK
<1>4. /\ \A a : Trade(journal', a) = Trade(journal, a) + (IF Ours(e) THEN LineSum(e.lines, a) ELSE 0)
      /\ Wasted(journal')
           = Wasted(journal) + (IF e.source = "waste" THEN LineSum(e.lines, "filament_waste") ELSE 0)
  BY <1>3, SumsGrow
<1> QED BY <1>1, <1>2, <1>3, <1>4

LEMMA WasteStays ==
  ASSUME JournalOK, JournalOK', WasteOK, waste' = waste,
         journal' = journal \/ \E e : journal' = Append(journal, e) /\ e.source # "waste"
  PROVE  WasteOK'
<1>1. Wasted(journal') = Wasted(journal)
  <2>1. CASE journal' = journal
    BY <2>1
  <2>2. ASSUME NEW e, journal' = Append(journal, e), e.source # "waste" PROVE Wasted(journal') = Wasted(journal)
    <3>1. Wasted(journal') = Wasted(journal) + 0
      BY <2>2, NewEntry
    <3>2. Wasted(journal) \in Int
      BY JournalSums
    <3> QED BY <3>1, <3>2
  <2> QED BY <2>1, <2>2
<1> QED BY <1>1 DEF WasteOK

\* A step that changes no document and no payment, and whose entry is of none.
LEMMA ElsewhereKeeps ==
  ASSUME BooksInv, BooksInv', ControlOK, UNCHANGED <<doc, payment>>,
         journal' = journal \/ \E e : journal' = Append(journal, e) /\ ~Ours(e)
  PROVE  EntriesTell' /\ TradeOK'
<1>0. JournalOK /\ JournalOK' /\ DocsOK /\ SpentOK
  BY DEF BooksInv, RowsOK
<1>1. EntriesTell'
  BY <1>0, TellsStill DEF ControlOK
<1>2. ASSUME NEW a \in Control PROVE Trade(journal', a) = Trade(journal, a)
  <2>1. CASE journal' = journal
    BY <2>1
  <2>2. ASSUME NEW e, journal' = Append(journal, e), ~Ours(e) PROVE Trade(journal', a) = Trade(journal, a)
    <3>1. Trade(journal', a) = Trade(journal, a) + 0
      BY <1>0, <2>2, NewEntry
    <3>2. Trade(journal, a) \in Int
      BY <1>0, JournalSums
    <3> QED BY <3>1, <3>2
  <2> QED BY <2>1, <2>2
<1>3. TradeOK'
  BY <1>2 DEF ControlOK, TradeOK
<1> QED BY <1>1, <1>3

\* What a step that changes documents and payments has to put on the accounts.
LEMMA TradeKeeps ==
  ASSUME JournalOK, JournalOK', DocsOK, ControlOK, NEW e, journal' = Append(journal, e),
         Ours(e), e.source # "waste", waste' = waste,
         \A a \in Control : Sum(Left(doc', a), Docs) = Sum(Left(doc, a), Docs) + LineSum(e.lines, a)
  PROVE  TradeOK' /\ WasteOK'
<1>1. ASSUME NEW a \in Control PROVE Trade(journal', a) = Sum(Left(doc', a), Docs)
  <2>1. Trade(journal', a) = Trade(journal, a) + LineSum(e.lines, a)
    BY NewEntry
  <2>2. Trade(journal, a) = Sum(Left(doc, a), Docs)
    BY DEF ControlOK, TradeOK
  <2> QED BY <2>1, <2>2
<1>2. WasteOK'
  BY WasteStays DEF ControlOK
<1> QED BY <1>1, <1>2 DEF TradeOK

LEMMA WasteGives ==
  ASSUME NEW total \in Int, NEW less \in Int
  PROVE  LineSum(<< <<"filament_waste", total>>, <<"inventory", less>> >>, "filament_waste") = total
<1>1. PICK wasted \in Accounts, inventory \in Accounts : wasted = "filament_waste" /\ inventory = "inventory"
  BY Roles DEF Accounts
<1>2. PICK s \in LinesIn(Accounts, Int) : s = << <<wasted, total>> >> /\ LineSum(s, wasted) = On(wasted, total, wasted)
  BY FirstLine, Zenon
<1>3. LineSum(s \o << <<inventory, less>> >>, wasted) = LineSum(s, wasted) + On(inventory, less, wasted)
  BY LineAdded, Zenon
<1>4. << <<wasted, total>> >> \o << <<inventory, less>> >> = << <<wasted, total>>, <<inventory, less>> >>
  BY TwoLines
<1>5. On(wasted, total, wasted) = total /\ On(inventory, less, wasted) = 0
  BY <1>1 DEF On
<1>6. LineSum(s \o << <<inventory, less>> >>, wasted) = total
  BY <1>2, <1>3, <1>5
<1> QED BY <1>1, <1>2, <1>4, <1>6

\* What is wasted is booked, row by row, for what it cost.
LEMMA WasteKeeps ==
  ASSUME BooksInv, BooksInv', ControlOK, NEW lost \in Ruined, BookWaste(lost)
  PROVE  ControlOK'
<1>0. JournalOK /\ JournalOK' /\ TermsOK
  BY DEF BooksInv, RowsOK
<1>1. PICK total \in Nat : total = WasteTotal(lost) /\ total = SumFunction(Costs(lost))
  BY WasteAmounts DEF WasteTotal
<1>2. PICK lines : lines = << <<"filament_waste", total>>, <<"inventory", -total>> >>
  OBVIOUS
<1>3. PICK row : /\ row = [entry |-> IF total > 0 THEN Len(journal) + 1 ELSE 0, cost |-> Costs(lost)]
                 /\ waste' = Append(waste, row)
  BY <1>1 DEF BookWaste
<1>4. /\ UNCHANGED <<doc, payment>> /\ row.cost = Costs(lost)
      /\ \/ total = 0 /\ journal' = journal
         \/ journal' = Posted(today, "waste", None, lines)
  BY <1>1, <1>2, <1>3 DEF BookWaste
<1>5. None \notin Docs \cup Payments
  BY KindsAreDistinct
<1>6. /\ journal' = journal \/ \E e : journal' = Append(journal, e) /\ ~Ours(e)
      /\ Wasted(journal') = Wasted(journal) + total
  <2>1. CASE total = 0 /\ journal' = journal
    <3>1. Wasted(journal) \in Int
      BY <1>0, JournalSums
    <3> QED BY <2>1, <3>1
  <2>2. CASE journal' = Posted(today, "waste", None, lines)
    <3>1. PICK e : /\ e = Entry(today, "waste", None, lines) /\ journal' = Append(journal, e)
                   /\ e.of = None /\ e.source = "waste" /\ e.lines = lines
      BY <2>2, EntryOf DEF Posted
    <3>2. PICK less \in Int : less = -total
      OBVIOUS
    <3>3. LineSum(lines, "filament_waste") = total
      BY <1>2, <3>2, WasteGives
    <3>4. Wasted(journal') = Wasted(journal) + total
      BY <1>0, <3>1, <3>3, NewEntry
    <3> QED BY <1>5, <3>1, <3>4 DEF Ours
  <2> QED BY <1>4, <2>1, <2>2
<1>7. EntriesTell' /\ TradeOK'
  BY <1>4, <1>6, ElsewhereKeeps
<1>8. WasteOK'
  <2>1. PICK n \in Nat : /\ DOMAIN waste = 1..n /\ DOMAIN waste' = 1..n + 1
                         /\ (\A i \in 1..n : waste'[i] = waste[i]) /\ waste'[n + 1] = row
    BY <1>0, <1>3, Appended DEF TermsOK
  <2>2. PICK F : F = WasteCosts(waste)
    OBVIOUS
  <2>3. PICK G : G = WasteCosts(waste')
    OBVIOUS
  <2>4. n + 1 \in 1..n + 1 /\ \A i \in 1..n : i \in 1..n + 1
    OBVIOUS
  <2>5. (\A i \in 1..n : G[i] = F[i]) /\ G[n + 1] = total
    BY <1>1, <1>4, <2>1, <2>2, <2>3, <2>4 DEF WasteCosts
  <2>6. \A i \in 1..n : F[i] \in Nat
    BY <2>1, <2>2 DEF ControlOK, WasteOK
  <2>7. \A i \in 1..n : F[i] \in Int
    BY <2>6
  <2>8. Sum(G, 1..n + 1) = Sum(F, 1..n) + total
    BY <2>5, <2>7, SumWithMore
  <2>9. \A i \in 1..n + 1 : G[i] \in Nat
    <3>1. \A i \in 1..n + 1 : i \in 1..n \/ i = n + 1
      OBVIOUS
    <3> QED BY <2>5, <2>6, <3>1
  <2>10. Wasted(journal) = Sum(F, 1..n)
    BY <2>1, <2>2 DEF ControlOK, WasteOK
  <2> QED BY <1>6, <2>1, <2>3, <2>8, <2>9, <2>10 DEF WasteOK
<1> QED BY <1>7, <1>8 DEF ControlOK

LEMMA RedrawKeeps ==
  ASSUME BooksInv, BooksInv', ControlOK, Redraws
  PROVE  ControlOK'
<1>0. /\ JournalOK /\ JournalOK' /\ DocsOK /\ SpentOK
      /\ doc \in [Docs -> DocRow] /\ doc' \in [Docs -> DocRow]
  BY DEF BooksInv, RowsOK, DocsOK
<1>1. PICK d \in Docs, row \in DocRow :
        /\ doc[d].status \in {"absent", "draft"} /\ row.status = "draft"
        /\ doc' = [doc EXCEPT ![d] = row] /\ UNCHANGED <<payment, waste, journal>>
  BY DEF Redraws
<1>2. doc'[d] = row /\ \A x \in Docs \ {d} : doc'[x] = doc[x]
  BY <1>0, <1>1
<1>3. doc[d].status \notin Live /\ doc'[d].status \notin Live
  BY <1>1, <1>2 DEF Live
<1>4. \A x \in Docs : doc'[x].status \in Live =>
        doc[x].status \in Live /\ doc'[x].entry = doc[x].entry /\ Total(doc'[x]) = Total(doc[x])
  BY <1>2, <1>3
<1>5. EntriesTell'
  BY <1>0, <1>1, <1>4, TellsStill DEF ControlOK
<1>6. ASSUME NEW a \in Control PROVE Sum(Left(doc', a), Docs) = Sum(Left(doc, a), Docs)
  <2>1. Left(doc, a)[d] = 0 /\ Left(doc', a)[d] = 0
    BY <1>3, PartIs DEF Left
  <2>2. Sum(Left(doc', a), Docs) = Sum(Left(doc, a), Docs) - Left(doc, a)[d] + Left(doc', a)[d]
    BY <1>0, <1>2, LeftChanged
  <2>3. Sum(Left(doc, a), Docs) \in Int
    BY <1>0, LeftTyped
  <2> QED BY <2>1, <2>2, <2>3
<1>7. TradeOK'
  BY <1>1, <1>6 DEF ControlOK, TradeOK
<1>8. WasteOK'
  BY <1>0, <1>1, WasteStays DEF ControlOK
<1> QED BY <1>5, <1>7, <1>8 DEF ControlOK

\* Posting a document puts its total on its account, all of it still owed.
LEMMA OpenKeeps ==
  ASSUME BooksInv, BooksInv', OwedOK, ControlOK, NEW d \in Docs, Opens(d)
  PROVE  ControlOK'
<1>0. /\ JournalOK /\ JournalOK' /\ DocsOK /\ SpentOK /\ TermsOK
      /\ doc \in [Docs -> DocRow] /\ doc' \in [Docs -> DocRow]
      /\ Len(journal) \in Nat
  BY Appended DEF BooksInv, RowsOK, DocsOK, JournalOK
<1>1. PICK e : /\ journal' = Append(journal, e) /\ e.of = d /\ e.source = "document" /\ e.lines = LinesOf(d)
  BY EntryOf DEF Opens, Write, Posted
<1>2. payment' = payment /\ waste' = waste /\ doc[d].status = "draft" /\ doc[d].paid = 0
  BY DEF Opens, OwedOK, Standing
<1>3. /\ \A x \in Docs \ {d} : doc'[x] = doc[x]
      /\ doc'[d].status = "open" /\ doc'[d].paid = doc[d].paid
      /\ Total(doc'[d]) = Total(doc[d]) /\ doc'[d].entry = Len(journal) + 1
  BY <1>0, OpenedRow
<1>4. PICK total \in Nat : total = Total(doc[d])
  BY <1>0 DEF Total, DocRow
<1>5. \A a \in Control : LineSum(e.lines, a) = Part(d, a, total)
  BY <1>0, <1>1, <1>4, DocumentGives
<1>6. \A x \in Docs : doc'[x].status \in Live =>
        \/ doc[x].status \in Live /\ doc'[x].entry = doc[x].entry /\ Total(doc'[x]) = Total(doc[x])
        \/ \A a \in Control : LineSum(journal'[doc'[x].entry].lines, a) = Part(x, a, Total(doc'[x]))
  <2> TAKE x \in Docs
  <2>1. CASE x = d
    <3>1. journal'[doc'[d].entry] = e
      BY <1>0, <1>1, <1>3, NewEntry
    <3> QED BY <2>1, <3>1, <1>3, <1>4, <1>5
  <2>2. CASE x # d
    BY <2>2, <1>3
  <2> QED BY <2>1, <2>2
<1>7. EntriesTell'
  BY <1>0, <1>1, <1>2, <1>6, TellsStill DEF ControlOK
<1>8. ASSUME NEW a \in Control PROVE Sum(Left(doc', a), Docs) = Sum(Left(doc, a), Docs) + LineSum(e.lines, a)
  <2>1. Left(doc, a)[d] = 0
    BY <1>2, PartIs DEF Left, Live
  <2>2. Left(doc', a)[d] = Part(d, a, total)
    <3>1. Due(doc'[d]) = total /\ doc'[d].status \in Live
      BY <1>2, <1>3, <1>4 DEF Due, Live
    <3> QED BY <3>1 DEF Left
  <2>3. Sum(Left(doc', a), Docs) = Sum(Left(doc, a), Docs) - Left(doc, a)[d] + Left(doc', a)[d]
    BY <1>0, <1>3, LeftChanged
  <2>4. Sum(Left(doc, a), Docs) \in Int /\ Part(d, a, total) \in Int
    BY <1>0, LeftTyped, PartIs
  <2> QED BY <2>1, <2>2, <2>3, <2>4, <1>5
<1>9. Ours(e)
  BY <1>1 DEF Ours
<1>10. TradeOK' /\ WasteOK'
  BY <1>0, <1>1, <1>2, <1>8, <1>9, TradeKeeps
<1> QED BY <1>7, <1>10 DEF ControlOK

\* Voiding a document takes it back: only one nothing was paid on can go.
LEMMA VoidKeeps ==
  ASSUME BooksInv, BooksInv', OwedOK, ControlOK, NEW d \in Docs, Void(d)
  PROVE  ControlOK'
<1>0. /\ JournalOK /\ JournalOK' /\ DocsOK /\ SpentOK
      /\ doc \in [Docs -> DocRow] /\ doc' \in [Docs -> DocRow]
  BY DEF BooksInv, RowsOK, DocsOK
<1>1. /\ \A x \in Docs \ {d} : doc'[x] = doc[x]
      /\ doc'[d].status = "void" /\ doc[d].paid = 0 /\ doc[d].status \notin {"absent", "void"}
  BY <1>0, VoidedRow
<1>2. payment' = payment /\ waste' = waste
  BY DEF Void, Rest
<1>3. doc'[d].status \notin Live
  BY <1>1 DEF Live
<1>4. \A x \in Docs : doc'[x].status \in Live =>
        doc[x].status \in Live /\ doc'[x].entry = doc[x].entry /\ Total(doc'[x]) = Total(doc[x])
  BY <1>1, <1>3
<1>5. journal' = journal \/ \E e : journal' = Append(journal, e)
  BY DEF Void, Reversed
<1>6. EntriesTell'
  BY <1>0, <1>2, <1>4, <1>5, TellsStill DEF ControlOK
<1>7. PICK total \in Nat : total = Total(doc[d])
  BY <1>0 DEF Total, DocRow
<1>8. \A a \in Control : Left(doc', a)[d] = 0
  BY <1>3, PartIs DEF Left
<1>9. CASE doc[d].status = "draft"
  <2>1. journal' = journal
    BY <1>9 DEF Void
  <2>2. ASSUME NEW a \in Control PROVE Sum(Left(doc', a), Docs) = Sum(Left(doc, a), Docs)
    <3>1. Left(doc, a)[d] = 0
      BY <1>9, PartIs DEF Left, Live
    <3>2. Sum(Left(doc', a), Docs) = Sum(Left(doc, a), Docs) - Left(doc, a)[d] + Left(doc', a)[d]
      BY <1>0, <1>1, LeftChanged
    <3>3. Sum(Left(doc, a), Docs) \in Int
      BY <1>0, LeftTyped
    <3> QED BY <1>8, <3>1, <3>2, <3>3
  <2>3. TradeOK'
    BY <2>1, <2>2 DEF ControlOK, TradeOK
  <2>4. WasteOK'
    BY <1>0, <1>2, <2>1, WasteStays DEF ControlOK
  <2> QED BY <1>6, <2>3, <2>4 DEF ControlOK
<1>10. CASE doc[d].status # "draft"
  <2>1. PICK n : n = doc[d].entry
    OBVIOUS
  <2>2. PICK e : /\ journal' = Append(journal, e) /\ e.of = d /\ e.source = "reversal" /\ e.lines = Mirror(n)
    BY <1>10, <2>1 DEF Void, Reversed, Entry
  <2>3. doc[d].status \in Live
    BY <1>0, <1>1, <1>10 DEF DocRow
  <2>4. journal[n].lines \in LinesIn(Accounts, Int)
    <3>1. n \in 1..Len(journal)
      BY <1>0, <2>1, <2>3, Appended DEF DocsOK, DocRow, Pointing, JournalOK
    <3> QED BY <3>1, <1>0, Appended DEF JournalOK
  <2>5. ASSUME NEW a \in Control PROVE Sum(Left(doc', a), Docs) = Sum(Left(doc, a), Docs) + LineSum(e.lines, a)
    <3>1. LineSum(e.lines, a) = -LineSum(journal[n].lines, a)
      BY <2>2, <2>4, MirrorGives
    <3>2. LineSum(journal[n].lines, a) = Part(d, a, total)
      BY <1>7, <2>1, <2>3 DEF ControlOK, EntriesTell
    <3>3. Left(doc, a)[d] = Part(d, a, total)
      <4>1. Due(doc[d]) = total
        BY <1>1, <1>7 DEF Due
      <4> QED BY <2>3, <4>1 DEF Left
    <3>4. Sum(Left(doc', a), Docs) = Sum(Left(doc, a), Docs) - Left(doc, a)[d] + Left(doc', a)[d]
      BY <1>0, <1>1, LeftChanged
    <3>5. Sum(Left(doc, a), Docs) \in Int /\ Part(d, a, total) \in Int
      BY <1>0, LeftTyped, PartIs
    <3> QED BY <1>8, <3>1, <3>2, <3>3, <3>4, <3>5
  <2>6. Ours(e)
    BY <2>2 DEF Ours
  <2>7. TradeOK' /\ WasteOK'
    BY <1>0, <1>2, <2>2, <2>5, <2>6, TradeKeeps
  <2> QED BY <1>6, <2>7 DEF ControlOK
<1> QED BY <1>9, <1>10

\* A payment takes from the control account what it takes from the documents.
LEMMA PayKeeps ==
  ASSUME BooksInv, BooksInv', ControlOK, Pays
  PROVE  ControlOK'
<1>0. /\ JournalOK /\ JournalOK' /\ DocsOK /\ SpentOK
      /\ doc \in [Docs -> DocRow] /\ doc' \in [Docs -> DocRow]
      /\ payment \in [Payments -> PaymentRow]
      /\ Len(journal) \in Nat /\ IsFiniteSet(Docs)
  BY Appended, RowsAreFinite DEF BooksInv, RowsOK, DocsOK, SpentOK, JournalOK
<1>1. PICK p \in Payments, incoming \in BOOLEAN, amount \in Nat, S \in SUBSET Docs, date \in Days :
        \E applied \in [S -> Nat \ {0}] : Pay(p, incoming, amount, applied, date)
  BY DEF Pays
<1>2. PICK applied \in [S -> Nat \ {0}] : Pay(p, incoming, amount, applied, date)
  BY <1>1
<1>3. applied \in [S -> Nat]
  OBVIOUS
<1>4. PICK row : row = [status |-> "recorded", amount |-> amount, entry |-> Len(journal) + 1,
                        applied |-> applied]
  OBVIOUS
<1>5. PICK lines : lines = PaymentLines(incoming, amount, SumFunction(applied))
  OBVIOUS
<1>6. /\ S \subseteq (IF incoming THEN Invoices ELSE Bills)
      /\ Payable(applied, amount) /\ doc' = Settled(applied) /\ waste' = waste
      /\ journal' = Posted(date, "payment", p, lines)
      /\ payment' = [payment EXCEPT ![p] = row]
  BY <1>2, <1>4, <1>5 DEF Pay
<1>7. PICK e : /\ journal' = Append(journal, e) /\ e.of = p /\ e.source = "payment" /\ e.lines = lines
  BY <1>6, EntryOf DEF Posted
<1>8. /\ payment'[p] = row /\ \A q \in Payments \ {p} : payment'[q] = payment[q]
      /\ row.applied = applied /\ row.entry = Len(journal) + 1
  BY <1>0, <1>4, <1>6
<1>9. ASSUME NEW a \in Control PROVE LineSum(e.lines, a) = Sum(Takes(applied, a), Docs)
  <2>1. amount \in Int
    OBVIOUS
  <2>2. S \subseteq (IF incoming THEN Invoices ELSE Bills)
    BY <1>6
  <2>3. LineSum(PaymentLines(incoming, amount, SumFunction(applied)), a) = Sum(Takes(applied, a), Docs)
    BY <1>3, <2>1, <2>2, PaymentTakes
  <2> QED BY <1>5, <1>7, <2>3
<1>10. ASSUME NEW d \in S
       PROVE  /\ doc[d].status \in Live /\ doc'[d].status \in Live /\ doc'[d].entry = doc[d].entry
              /\ Total(doc'[d]) = Total(doc[d]) /\ Due(doc'[d]) = Due(doc[d]) - applied[d]
              /\ Due(doc[d]) \in Int
  <2>1. /\ doc'[d].paid = doc[d].paid + applied[d] /\ Total(doc'[d]) = Total(doc[d])
        /\ doc'[d].status = StatusPaid(doc[d], doc[d].paid + applied[d]) /\ doc'[d].entry = doc[d].entry
    BY <1>0, <1>3, <1>6, SettledRow
  <2>2. doc[d].status \in {"open", "partial"}
    BY <1>6 DEF Payable
  <2>3. Total(doc[d]) \in Nat /\ doc[d].paid \in Nat /\ applied[d] \in Nat
    BY <1>0 DEF Total, DocRow
  <2> QED BY <2>1, <2>2, <2>3 DEF Live, StatusPaid, Due
<1>11. \A d \in Docs \ S : doc'[d] = doc[d]
  BY <1>6 DEF Settled
<1>12. EntriesTell'
  <2>1. \A d \in Docs : doc'[d].status \in Live =>
          doc[d].status \in Live /\ doc'[d].entry = doc[d].entry /\ Total(doc'[d]) = Total(doc[d])
    <3> TAKE d \in Docs
    <3>1. CASE d \in S
      BY <3>1, <1>10
    <3>2. CASE d \notin S
      BY <3>2, <1>11
    <3> QED BY <3>1, <3>2
  <2>2. \A q \in Payments : payment'[q].status = "recorded" =>
          \/ payment'[q] = payment[q]
          \/ \A a \in Control :
               LineSum(journal'[payment'[q].entry].lines, a) = Sum(Takes(payment'[q].applied, a), Docs)
    <3> TAKE q \in Payments
    <3>1. CASE q = p
      <4>1. journal'[payment'[p].entry] = e
        BY <1>0, <1>7, <1>8, NewEntry
      <4> QED BY <3>1, <4>1, <1>8, <1>9
    <3>2. CASE q # p
      BY <3>2, <1>8
    <3> QED BY <3>1, <3>2
  <2> QED BY <1>0, <1>7, <2>1, <2>2, TellsStill DEF ControlOK
<1>13. ASSUME NEW a \in Control PROVE Sum(Left(doc', a), Docs) = Sum(Left(doc, a), Docs) + LineSum(e.lines, a)
  <2>1. PICK F : F = Left(doc, a)
    OBVIOUS
  <2>2. PICK G : G = Takes(applied, a)
    OBVIOUS
  <2>3. PICK H : H = Left(doc', a)
    OBVIOUS
  <2>4. \A d \in Docs : F[d] \in Int /\ G[d] \in Int
    BY <1>0, <1>3, <2>1, <2>2, LeftTyped, TakesTyped
  <2>5. \A d \in Docs : H[d] = F[d] + G[d]
    <3> TAKE d \in Docs
    <3>1. CASE d \in S
      <4>1. PICK x \in Int, y \in Int : x = Due(doc[d]) /\ y = -applied[d]
        BY <3>1, <1>10
      <4>2. F[d] = Part(d, a, x) /\ G[d] = Part(d, a, y)
        BY <3>1, <4>1, <1>3, <1>10, <2>1, <2>2 DEF Left, Takes
      <4>3. H[d] = Part(d, a, Due(doc'[d]))
        BY <3>1, <1>10, <2>3 DEF Left
      <4>4. Due(doc'[d]) = x + y
        BY <3>1, <4>1, <1>10
      <4> QED BY <4>2, <4>3, <4>4, PartIs
    <3>2. CASE d \notin S
      <4>1. H[d] = F[d]
        BY <3>2, <1>11, <2>1, <2>3 DEF Left
      <4>2. G[d] = 0
        BY <3>2, <1>3, <2>2, PartIs DEF Takes
      <4> QED BY <2>4, <4>1, <4>2
    <3> QED BY <3>1, <3>2
  <2>6. Sum(H, Docs) = Sum(F, Docs) + Sum(G, Docs)
    BY <1>0, <2>4, <2>5, SumAdds
  <2> QED BY <1>9, <2>1, <2>2, <2>3, <2>6
<1>14. Ours(e)
  BY <1>7 DEF Ours
<1>15. TradeOK' /\ WasteOK'
  BY <1>0, <1>6, <1>7, <1>13, <1>14, TradeKeeps
<1> QED BY <1>12, <1>15 DEF ControlOK

\* A payment that is voided gives it back.
LEMMA VoidPaymentKeeps ==
  ASSUME BooksInv, BooksInv', OwedOK, ControlOK, NEW p \in Payments, VoidPayment(p)
  PROVE  ControlOK'
<1>0. /\ JournalOK /\ JournalOK' /\ DocsOK /\ SpentOK
      /\ doc \in [Docs -> DocRow] /\ doc' \in [Docs -> DocRow]
      /\ payment \in [Payments -> PaymentRow] /\ IsFiniteSet(Docs)
  BY RowsAreFinite DEF BooksInv, RowsOK, DocsOK, SpentOK
<1>1. PICK applied : applied = payment[p].applied
  OBVIOUS
<1>2. PICK S \in SUBSET Docs : applied \in [S -> Nat]
  <2>1. payment[p] \in PaymentRow
    BY <1>0
  <2> QED BY <1>1, <2>1 DEF PaymentRow
<1>3. PICK n : n = payment[p].entry
  OBVIOUS
<1>4. PICK row : row = [payment[p] EXCEPT !.status = "void"]
  OBVIOUS
<1>5. /\ payment[p].status = "recorded" /\ doc' = Unsettled(applied) /\ waste' = waste
      /\ journal' = Reversed(n, p) /\ payment' = [payment EXCEPT ![p] = row] /\ row.status = "void"
  <2>1. payment[p] \in PaymentRow
    BY <1>0
  <2>2. row.status = "void"
    BY <1>4, <2>1 DEF PaymentRow
  <2> QED BY <1>1, <1>3, <1>4, <2>2 DEF VoidPayment
<1>6. PICK e : /\ journal' = Append(journal, e) /\ e.of = p /\ e.source = "reversal" /\ e.lines = Mirror(n)
  BY <1>5 DEF Reversed, Entry
<1>7. payment'[p].status = "void" /\ \A q \in Payments \ {p} : payment'[q] = payment[q]
  BY <1>0, <1>5
<1>8. ASSUME NEW a \in Control PROVE LineSum(e.lines, a) = -Sum(Takes(applied, a), Docs)
  <2>1. n \in 1..Len(journal)
    BY <1>0, <1>3, <1>5, Appended DEF SpentOK, PaymentRow, Pointing, JournalOK
  <2>2. journal[n].lines \in LinesIn(Accounts, Int)
    BY <1>0, <2>1, Appended DEF JournalOK
  <2>3. LineSum(e.lines, a) = -LineSum(journal[n].lines, a)
    BY <1>6, <2>2, MirrorGives
  <2>4. LineSum(journal[n].lines, a) = Sum(Takes(applied, a), Docs)
    BY <1>1, <1>3, <1>5 DEF ControlOK, EntriesTell
  <2> QED BY <2>3, <2>4
<1>9. ASSUME NEW d \in S
      PROVE  /\ doc[d].status \in Live /\ doc'[d].status \in Live /\ doc'[d].entry = doc[d].entry
             /\ Total(doc'[d]) = Total(doc[d]) /\ Due(doc'[d]) = Due(doc[d]) + applied[d]
             /\ Due(doc[d]) \in Int
  <2>1. applied[d] <= doc[d].paid /\ doc[d].status \notin {"absent", "draft", "open", "void"}
    BY <1>0, <1>1, <1>2, <1>5, SettledIsPaid
  <2>2. /\ doc'[d].paid = doc[d].paid - applied[d] /\ Total(doc'[d]) = Total(doc[d])
        /\ doc'[d].status = IF doc[d].paid = applied[d] THEN "open" ELSE "partial"
        /\ doc'[d].entry = doc[d].entry
    BY <1>0, <1>2, <1>5, <2>1, UnsettledRow
  <2>3. Total(doc[d]) \in Nat /\ doc[d].paid \in Nat /\ applied[d] \in Nat
    BY <1>0, <1>2 DEF Total, DocRow
  <2>4. doc[d].status \in Live
    BY <1>0, <2>1 DEF DocRow
  <2> QED BY <2>2, <2>3, <2>4 DEF Live, Due
<1>10. \A d \in Docs \ S : doc'[d] = doc[d]
  BY <1>2, <1>5 DEF Unsettled
<1>11. EntriesTell'
  <2>1. \A d \in Docs : doc'[d].status \in Live =>
          doc[d].status \in Live /\ doc'[d].entry = doc[d].entry /\ Total(doc'[d]) = Total(doc[d])
    <3> TAKE d \in Docs
    <3>1. CASE d \in S
      BY <3>1, <1>9
    <3>2. CASE d \notin S
      BY <3>2, <1>10
    <3> QED BY <3>1, <3>2
  <2>2. \A q \in Payments : payment'[q].status = "recorded" => payment'[q] = payment[q]
    BY <1>7
  <2> QED BY <1>0, <1>6, <2>1, <2>2, TellsStill DEF ControlOK
<1>12. ASSUME NEW a \in Control PROVE Sum(Left(doc', a), Docs) = Sum(Left(doc, a), Docs) + LineSum(e.lines, a)
  <2>1. PICK F : F = Left(doc, a)
    OBVIOUS
  <2>2. PICK G : G = Takes(applied, a)
    OBVIOUS
  <2>3. PICK H : H = Left(doc', a)
    OBVIOUS
  <2>4. \A d \in Docs : H[d] \in Int /\ F[d] \in Int /\ G[d] \in Int
    BY <1>0, <1>2, <2>1, <2>2, <2>3, LeftTyped, TakesTyped
  <2>5. \A d \in Docs : F[d] = H[d] + G[d]
    <3> TAKE d \in Docs
    <3>1. CASE d \in S
      <4>1. PICK x \in Int, y \in Int : x = Due(doc'[d]) /\ y = -applied[d]
        BY <3>1, <1>2, <1>9
      <4>2. H[d] = Part(d, a, x) /\ G[d] = Part(d, a, y)
        BY <3>1, <4>1, <1>2, <1>9, <2>2, <2>3 DEF Left, Takes
      <4>3. F[d] = Part(d, a, Due(doc[d]))
        BY <3>1, <1>9, <2>1 DEF Left
      <4>4. Due(doc[d]) = x + y
        <5>1. applied[d] \in Nat
          BY <3>1, <1>2
        <5> QED BY <3>1, <4>1, <5>1, <1>9
      <4> QED BY <4>2, <4>3, <4>4, PartIs
    <3>2. CASE d \notin S
      <4>1. H[d] = F[d]
        BY <3>2, <1>10, <2>1, <2>3 DEF Left
      <4>2. G[d] = 0
        BY <3>2, <1>2, <2>2, PartIs DEF Takes
      <4> QED BY <2>4, <4>1, <4>2
    <3> QED BY <3>1, <3>2
  <2>6. Sum(F, Docs) = Sum(H, Docs) + Sum(G, Docs)
    BY <1>0, <2>4, <2>5, SumAdds
  <2>7. Sum(H, Docs) \in Int /\ Sum(G, Docs) \in Int
    BY <1>0, <2>4, SumIsInteger
  <2> QED BY <1>8, <2>1, <2>2, <2>3, <2>6, <2>7
<1>13. Ours(e)
  BY <1>6 DEF Ours
<1>14. TradeOK' /\ WasteOK'
  BY <1>0, <1>5, <1>6, <1>12, <1>13, TradeKeeps
<1> QED BY <1>11, <1>14 DEF ControlOK

LEMMA ControlKept ==
  ASSUME BooksInv, BooksInv', OwedOK, ControlOK, Kind
  PROVE  ControlOK'
<1>0. JournalOK /\ JournalOK'
  BY DEF BooksInv
<1>1. CASE Elsewhere
  <2>1. /\ UNCHANGED <<doc, payment>> /\ waste' = waste
        /\ \/ journal' = journal
           \/ \E e : journal' = Append(journal, e) /\ e.of \notin Docs \cup Payments /\ e.source # "waste"
    BY <1>1 DEF Elsewhere, Still
  <2>2. EntriesTell' /\ TradeOK'
    BY <2>1, ElsewhereKeeps DEF Ours
  <2>3. WasteOK'
    BY <1>0, <2>1, WasteStays DEF ControlOK
  <2> QED BY <2>2, <2>3 DEF ControlOK
<1>2. CASE Wastes
  BY <1>2, WasteKeeps DEF Wastes
<1>3. CASE Redraws
  BY <1>3, RedrawKeeps
<1>4. CASE Pays
  BY <1>4, PayKeeps
<1>5. ASSUME NEW d \in Docs, Opens(d) \/ Void(d) PROVE ControlOK'
  BY <1>5, OpenKeeps, VoidKeeps
<1>6. ASSUME NEW p \in Payments, VoidPayment(p) PROVE ControlOK'
  BY <1>6, VoidPaymentKeeps
<1> QED BY <1>1, <1>2, <1>3, <1>4, <1>5, <1>6 DEF Kind

LEMMA ControlAtFirst == Init => ControlOK
<1> SUFFICES ASSUME Init PROVE ControlOK
  OBVIOUS
<1>1. /\ NoDoc.status = "absent" /\ NoPayment.status = "absent"
      /\ \A d \in Docs : doc[d] = NoDoc
      /\ \A p \in Payments : payment[p] = NoPayment
      /\ DOMAIN journal = {} /\ DOMAIN waste = {} /\ IsFiniteSet({}) /\ IsFiniteSet(Docs)
  BY EmptyIsSeq, FS_EmptySet, RowsAreFinite DEF Init, LedgerInit, NoDoc, NoPayment
<1>2. EntriesTell
  BY <1>1 DEF EntriesTell, Live
<1>3. ASSUME NEW a \in Control PROVE Trade(journal, a) = Sum(Left(doc, a), Docs)
  <2>1. \A d \in Docs : Left(doc, a)[d] = 0
    BY <1>1, PartIs DEF Left, Live
  <2>2. Sum(Left(doc, a), Docs) = 0
    BY <1>1, <2>1, SumOfNothing
  <2>3. Trade(journal, a) = 0
    BY <1>1, SumOfNothing DEF Trade
  <2> QED BY <2>2, <2>3
<1>4. WasteOK
  <2>1. \A F : Sum(F, {}) = 0
    BY <1>1, SumOfNothing
  <2> QED BY <1>1, <2>1 DEF WasteOK, Wasted
<1> QED BY <1>2, <1>3, <1>4 DEF ControlOK, TradeOK

\* What the dashboard says is owed.
LEMMA OwedOnIs ==
  ASSUME doc \in [Docs -> DocRow], OwedOK
  PROVE  /\ OwedOn(Invoices) = Sum(Left(doc, "accounts_receivable"), Docs)
         /\ OwedOn(Bills) = -Sum(Left(doc, "accounts_payable"), Docs)
<1>0. IsFiniteSet(Docs)
  BY RowsAreFinite
<1>1. ASSUME NEW d \in Docs
      PROVE  /\ Due(doc[d]) \in Int
             /\ doc[d].status \in Live /\ doc[d].status \notin {"open", "partial"} => Due(doc[d]) = 0
  <2>1. Total(doc[d]) \in Nat /\ doc[d].paid \in Nat
    BY DEF Total, DocRow
  <2>2. doc[d].status = "paid" => doc[d].paid = Total(doc[d])
    BY DEF OwedOK, Standing
  <2> QED BY <2>1, <2>2 DEF Due, Live
<1>2. OwedOn(Invoices) = Sum(Left(doc, "accounts_receivable"), Docs)
  <2>1. PICK F : F = Left(doc, "accounts_receivable")
    OBVIOUS
  <2>2. PICK T : T = {x \in Invoices : doc[x].status \in {"open", "partial"}}
    OBVIOUS
  <2>3. PICK G : G = [d \in T |-> Due(doc[d])]
    OBVIOUS
  <2>4. \A d \in Docs : F[d] = IF d \in Invoices /\ doc[d].status \in Live THEN Due(doc[d]) ELSE 0
    BY <2>1 DEF Left, Part
  <2>5. \A d \in Docs : F[d] \in Int
    BY <1>1, <2>4
  <2>6. T \in SUBSET Docs /\ DOMAIN G = T
    BY <2>2, <2>3 DEF Docs
  <2>7. \A d \in T : G[d] = F[d]
    BY <2>2, <2>3, <2>4, <2>6 DEF Live
  <2>8. \A d \in Docs \ T : F[d] = 0
    BY <1>1, <2>2, <2>4
  <2>9. Sum(G, T) = Sum(F, Docs)
    BY <1>0, <2>5, <2>6, <2>7, <2>8, SumOfSupport
  <2> QED BY <2>1, <2>2, <2>3, <2>6, <2>9, SumFunctionIsSum DEF OwedOn
<1>3. OwedOn(Bills) = -Sum(Left(doc, "accounts_payable"), Docs)
  <2>1. PICK F : F = Left(doc, "accounts_payable")
    OBVIOUS
  <2>2. PICK T : T = {x \in Bills : doc[x].status \in {"open", "partial"}}
    OBVIOUS
  <2>3. PICK G : G = [d \in T |-> Due(doc[d])]
    OBVIOUS
  <2>4. PICK H : H = [d \in Docs |-> IF d \in Bills /\ doc[d].status \in Live THEN Due(doc[d]) ELSE 0]
    OBVIOUS
  <2>5. \A d \in Docs : H[d] \in Int
    BY <1>1, <2>4
  <2>6. T \in SUBSET Docs /\ DOMAIN G = T
    BY <2>2, <2>3 DEF Docs
  <2>7. \A d \in T : G[d] = H[d]
    BY <2>2, <2>3, <2>4, <2>6 DEF Live
  <2>8. \A d \in Docs \ T : H[d] = 0
    BY <1>1, <2>2, <2>4
  <2>9. Sum(G, T) = Sum(H, Docs)
    BY <1>0, <2>5, <2>6, <2>7, <2>8, SumOfSupport
  <2>10. ASSUME NEW d \in Docs PROVE F[d] \in Int /\ H[d] = -F[d]
    <3>1. PICK x \in Int : x = IF doc[d].status \in Live THEN Due(doc[d]) ELSE 0
      BY <1>1
    <3>2. F[d] = IF d \in Bills THEN -x ELSE 0
      BY <3>1, <2>1 DEF Left, Part
    <3>3. H[d] = IF d \in Bills THEN x ELSE 0
      BY <3>1, <2>4
    <3> QED BY <3>2, <3>3
  <2>11. Sum(H, Docs) = -Sum(F, Docs)
    BY <1>0, <2>10, SumNegated
  <2> QED BY <2>1, <2>2, <2>3, <2>6, <2>9, <2>11, SumFunctionIsSum DEF OwedOn
<1> QED BY <1>2, <1>3

\* The control accounts, the dashboard and the rows tell the same story, for
\* any number of documents, payments and entries: the entry a document or a
\* payment points at put on the control accounts what its row says, so that
\* posting, paying, voiding and taking a payment back each move the account
\* by as much as they move what is owed, and every priced failure is booked
\* for the sum of its rows, each rounded on its own.  The same two requests
\* are assumed to run alone: one that rewrote an invoice after its entry would
\* leave the entry behind.
THEOREM ControlAccountsAreReconciled ==
  ASSUME Lone \subseteq Alone
  PROVE  Spec => []ControlAccountsReconcile
<1>1. OwingInv /\ ControlOK => ControlAccountsReconcile
  <2> SUFFICES ASSUME OwingInv, ControlOK PROVE ControlAccountsReconcile
    OBVIOUS
  <2>0. /\ JournalOK /\ doc \in [Docs -> DocRow] /\ OwedOK
        /\ IsFiniteSet(DOMAIN journal) /\ Control = {"accounts_receivable", "accounts_payable"}
    BY JournalSums DEF OwingInv, BooksInv, RowsOK, DocsOK, Control
  <2>1. PICK trade : trade = UNION {EntriesOf(x) : x \in Docs \cup Payments}
    OBVIOUS
  <2>2. trade = {n \in DOMAIN journal : Ours(journal[n])}
    BY <2>1 DEF EntriesOf, Ours
  <2>3. ASSUME NEW a \in Control PROVE Net(a, trade) = Sum(Left(doc, a), Docs)
    <3>1. PICK F : F = TradeOn(journal, a)
      OBVIOUS
    <3>2. PICK G : G = [n \in trade |-> LineSum(journal[n].lines, a)]
      OBVIOUS
    <3>3. Net(a, trade) = SumFunction(G)
      BY <3>2 DEF Net, LineSum
    <3>4. \A n \in DOMAIN journal : F[n] \in Int
      BY <2>0, <3>1, JournalSums
    <3>5. /\ trade \in SUBSET DOMAIN journal /\ DOMAIN G = trade
          /\ \A n \in trade : G[n] = F[n]
          /\ \A n \in DOMAIN journal \ trade : F[n] = 0
      BY <2>2, <3>1, <3>2 DEF TradeOn
    <3>6. Sum(G, trade) = Sum(F, DOMAIN journal)
      BY <2>0, <3>4, <3>5, SumOfSupport
    <3>7. Sum(F, DOMAIN journal) = Sum(Left(doc, a), Docs)
      BY <3>1 DEF ControlOK, TradeOK, Trade
    <3> QED BY <3>3, <3>5, <3>6, <3>7, SumFunctionIsSum
  <2>4. PICK wasted : wasted = {n \in DOMAIN journal : journal[n].source = "waste"}
    OBVIOUS
  <2>5. Net("filament_waste", wasted) = SumFunction([i \in DOMAIN waste |-> SumFunction(waste[i].cost)])
    <3>1. PICK F : F = WasteOn(journal)
      OBVIOUS
    <3>2. PICK G : G = [n \in wasted |-> LineSum(journal[n].lines, "filament_waste")]
      OBVIOUS
    <3>3. Net("filament_waste", wasted) = SumFunction(G)
      BY <3>2 DEF Net, LineSum
    <3>4. \A n \in DOMAIN journal : F[n] \in Int
      BY <2>0, <3>1, JournalSums
    <3>5. /\ wasted \in SUBSET DOMAIN journal /\ DOMAIN G = wasted
          /\ \A n \in wasted : G[n] = F[n]
          /\ \A n \in DOMAIN journal \ wasted : F[n] = 0
      BY <2>4, <3>1, <3>2 DEF WasteOn
    <3>6. Sum(G, wasted) = Sum(F, DOMAIN journal)
      BY <2>0, <3>4, <3>5, SumOfSupport
    <3>7. Sum(F, DOMAIN journal) = Sum(WasteCosts(waste), DOMAIN waste)
      BY <3>1 DEF ControlOK, WasteOK, Wasted
    <3>8. DOMAIN WasteCosts(waste) = DOMAIN waste
      BY DEF WasteCosts
    <3>9. SumFunction(WasteCosts(waste)) = Sum(WasteCosts(waste), DOMAIN waste)
      BY <3>8, SumFunctionIsSum
    <3> QED BY <3>3, <3>5, <3>6, <3>7, <3>9, SumFunctionIsSum DEF WasteCosts
  <2>6. /\ OwedOn(Invoices) = Sum(Left(doc, "accounts_receivable"), Docs)
        /\ OwedOn(Bills) = -Sum(Left(doc, "accounts_payable"), Docs)
    BY <2>0, OwedOnIs
  <2>7. Summary.receivables = OwedOn(Invoices) /\ Summary.payables = OwedOn(Bills)
    BY DEF Summary
  <2>8. /\ Net("accounts_receivable", trade) = Summary.receivables
        /\ -Net("accounts_payable", trade) = Summary.payables
    BY <2>0, <2>3, <2>6, <2>7
  <2> QED BY <2>1, <2>4, <2>5, <2>8 DEF ControlAccountsReconcile
<1>2. OwingInv /\ OwingInv' /\ ControlOK /\ [Next]_vars => ControlOK'
  BY StepKinds, ControlKept DEF OwingInv
<1> QED BY <1>1, <1>2, ControlAtFirst, OwingInvariance, PTL DEF Spec
=============================================================================
