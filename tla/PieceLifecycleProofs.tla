------------------------ MODULE PieceLifecycleProofs ------------------------
(***************************************************************************)
(* For every set of pieces, orders, printers and stocks, any number of     *)
(* concurrent requests, racing the clock, failing anywhere: no row loses   *)
(* the data its status requires, no printer is booked twice, and no stock  *)
(* stays reserved for nobody.  When requests take turns: locks, charges    *)
(* and completed orders are right whenever none is under way.              *)
(***************************************************************************)
EXTENDS PieceLifecycle, FiniteSetTheorems, TLAPS

(* Sums over finite sets.                                                  *)

\* The sum of F over S, and how it is come by, element by element.
Sum(F, S) == MapThenSumSet(LAMBDA x : F[x], S)

One(S) == CHOOSE x \in S : TRUE
Tallied(F, g, s) == IF s = {} THEN 0 ELSE F[One(s)] + g[s \ {One(s)}]
Tally(F, S, g) == g = [s \in SUBSET S |-> Tallied(F, g, s)]

LEMMA OneIsIn == \A S : S # {} => One(S) \in S
BY DEF One

\* Among subsets of a finite set there is one that has no other below it.
LEMMA MinimalSubset ==
  ASSUME NEW S, IsFiniteSet(S), NEW B, B \subseteq SUBSET S, B # {}
  PROVE  \E s \in B : \A t \in B : t \subseteq s => t = s
<1>1. IsWellFoundedOn(StrictSubsetOrdering(S), SUBSET S)
  <2>1. FiniteSubsetsOf(S) = SUBSET S
    BY FS_FiniteSubsetsOfFinite
  <2> QED BY <2>1, FS_StrictSubsetOrderingWellFounded
<1>2. PICK s \in B : \A t \in B : ~(<<t, s>> \in StrictSubsetOrdering(S))
  <2>1. \E s \in B : \A t \in B : ~(<<t, s>> \in StrictSubsetOrdering(S))
    BY <1>1, WFMin
  <2> QED BY <2>1
<1>3. ASSUME NEW t \in B, t \subseteq s, t # s PROVE FALSE
  <2>1. <<t, s>> \in StrictSubsetOrdering(S)
    BY <1>3 DEF StrictSubsetOrdering
  <2> QED BY <1>2, <2>1
<1> QED BY <1>3

\* What has been tallied for a set has been tallied for its subsets.
LEMMA TalliesAgree ==
  ASSUME NEW F, NEW S, NEW T \in SUBSET S, IsFiniteSet(T),
         NEW g, Tally(F, S, g), NEW h, Tally(F, T, h)
  PROVE  \A s \in SUBSET T : g[s] = h[s]
<1> DEFINE B == {s \in SUBSET T : g[s] # h[s]}
<1> SUFFICES ASSUME B # {} PROVE FALSE
  OBVIOUS
<1> HIDE DEF B
<1>1. PICK s \in B : \A t \in B : t \subseteq s => t = s
  <2>1. B \subseteq SUBSET T
    BY DEF B
  <2> QED BY <2>1, MinimalSubset
<1>2. s \in SUBSET T /\ s \in SUBSET S /\ g[s] # h[s]
  BY DEF B
<1>3. g[s] = Tallied(F, g, s) /\ h[s] = Tallied(F, h, s)
  BY <1>2 DEF Tally
<1>4. s # {}
  BY <1>2, <1>3 DEF Tallied
<1>5. s \ {One(s)} # s /\ s \ {One(s)} \subseteq s
  BY <1>4, OneIsIn
<1>6. g[s \ {One(s)}] = h[s \ {One(s)}]
  BY <1>1, <1>2, <1>5 DEF B
<1> QED BY <1>2, <1>3, <1>6 DEF Tallied

\* A finite set can be tallied.
LEMMA TallyExists ==
  ASSUME NEW F, NEW S, IsFiniteSet(S)
  PROVE  \E g : Tally(F, S, g)
<1> DEFINE B == {t \in SUBSET S : ~ \E g : Tally(F, t, g)}
<1> SUFFICES ASSUME B # {} PROVE FALSE
  OBVIOUS
<1> HIDE DEF B
<1>1. PICK s \in B : \A t \in B : t \subseteq s => t = s
  <2>1. B \subseteq SUBSET S
    BY DEF B
  <2> QED BY <2>1, MinimalSubset
<1>2. s \in SUBSET S /\ ~ \E g : Tally(F, s, g)
  BY DEF B
<1> DEFINE of(t) == CHOOSE g : Tally(F, t, g)
           G(t) == of(t)[t]
<1>3. ASSUME NEW t \in SUBSET s, t # s PROVE Tally(F, t, of(t)) /\ IsFiniteSet(t)
  <2>1. \E g : Tally(F, t, g)
    BY <1>1, <1>2, <1>3 DEF B
  <2>2. Tally(F, t, of(t))
    BY <2>1
  <2> QED BY <1>2, <2>2, FS_Subset
<1> HIDE DEF of
<1> DEFINE g == [t \in SUBSET s |-> IF t = {} THEN 0 ELSE F[One(t)] + G(t \ {One(t)})]
<1>4. ASSUME NEW t \in SUBSET s, t # s PROVE g[t] = G(t)
  <2>1. Tally(F, t, of(t)) /\ IsFiniteSet(t)
    BY <1>3, <1>4
  <2>2. G(t) = Tallied(F, of(t), t)
    <3>1. t \in SUBSET t
      OBVIOUS
    <3> QED BY <2>1, <3>1 DEF Tally
  <2>3. CASE t = {}
    BY <2>2, <2>3 DEF Tallied
  <2>4. CASE t # {}
    <3> DEFINE u == t \ {One(t)}
    <3>1. u \in SUBSET t /\ u \in SUBSET s /\ u # s /\ u \in SUBSET u
      BY <1>4, <2>4, OneIsIn
    <3>2. Tally(F, u, of(u)) /\ IsFiniteSet(u)
      BY <1>3, <3>1
    <3>3. of(t)[u] = of(u)[u]
      <4> HIDE DEF u
      <4> QED BY <2>1, <3>1, <3>2, TalliesAgree
    <3> QED BY <2>2, <2>4, <3>3 DEF Tallied
  <2> QED BY <2>3, <2>4
<1>5. \A t \in SUBSET s : g[t] = Tallied(F, g, t)
  <2> TAKE t \in SUBSET s
  <2>1. CASE t = {}
    BY <2>1 DEF Tallied
  <2>2. CASE t # {}
    <3> DEFINE u == t \ {One(t)}
    <3>1. u \in SUBSET s /\ u # s
      BY <2>2, OneIsIn
    <3>2. g[u] = G(u)
      <4> HIDE DEF u, G, g
      <4> QED BY <3>1, <1>4
    <3>3. g[t] = F[One(t)] + G(u)
      BY <2>2
    <3> QED BY <2>2, <3>2, <3>3 DEF Tallied
  <2> QED BY <2>1, <2>2
<1>6. g = [t \in SUBSET s |-> g[t]]
  OBVIOUS
<1>7. Tally(F, s, g)
  <2> HIDE DEF g
  <2> QED BY <1>5, <1>6 DEF Tally
<1> QED BY <1>2, <1>7

LEMMA SumIsTallied ==
  ASSUME NEW F, NEW S, IsFiniteSet(S)
  PROVE  \E g : Tally(F, S, g) /\ Sum(F, S) = g[S]
<1> DEFINE g == CHOOSE g : g = [s \in SUBSET S |-> Tallied(F, g, s)]
<1>1. \E h : h = [s \in SUBSET S |-> Tallied(F, h, s)]
  BY TallyExists DEF Tally
<1>2. Tally(F, S, g)
  BY <1>1 DEF Tally
<1>3. Sum(F, S) = g[S]
  BY DEF Sum, MapThenSumSet, MapThenFoldSet, Tallied, One
<1> QED BY <1>2, <1>3

\* The sum, one element taken.
LEMMA SumOpens ==
  ASSUME NEW F, NEW S, IsFiniteSet(S)
  PROVE  Sum(F, S) = IF S = {} THEN 0 ELSE F[One(S)] + Sum(F, S \ {One(S)})
<1>1. PICK g : Tally(F, S, g) /\ Sum(F, S) = g[S]
  BY SumIsTallied
<1>2. g[S] = Tallied(F, g, S)
  <2>1. S \in SUBSET S
    OBVIOUS
  <2> QED BY <1>1, <2>1 DEF Tally
<1>3. CASE S = {}
  BY <1>1, <1>2, <1>3 DEF Tallied
<1>4. CASE S # {}
  <2> DEFINE T == S \ {One(S)}
  <2>1. T \in SUBSET S /\ T \in SUBSET T /\ IsFiniteSet(T)
    BY FS_Subset
  <2> HIDE DEF T
  <2>2. PICK h : Tally(F, T, h) /\ Sum(F, T) = h[T]
    BY <2>1, SumIsTallied
  <2>3. g[T] = h[T]
    BY <1>1, <2>1, <2>2, TalliesAgree
  <2> QED BY <1>1, <1>2, <1>4, <2>2, <2>3 DEF Tallied, T
<1> QED BY <1>3, <1>4

LEMMA SumIsNatural ==
  ASSUME NEW S, IsFiniteSet(S), NEW F, \A x \in S : F[x] \in Nat
  PROVE  Sum(F, S) \in Nat
<1> DEFINE B == {s \in SUBSET S : Sum(F, s) \notin Nat}
<1> SUFFICES ASSUME B # {} PROVE FALSE
  OBVIOUS
<1> HIDE DEF B
<1>1. PICK s \in B : \A t \in B : t \subseteq s => t = s
  <2>1. B \subseteq SUBSET S
    BY DEF B
  <2> QED BY <2>1, MinimalSubset
<1>2. s \in SUBSET S /\ Sum(F, s) \notin Nat /\ IsFiniteSet(s)
  BY FS_Subset DEF B
<1>3. Sum(F, s) = IF s = {} THEN 0 ELSE F[One(s)] + Sum(F, s \ {One(s)})
  BY <1>2, SumOpens
<1>4. s # {}
  BY <1>2, <1>3
<1> DEFINE u == s \ {One(s)}
<1>5. u \in SUBSET S /\ u \subseteq s /\ u # s /\ One(s) \in S
  BY <1>2, <1>4, OneIsIn
<1>6. Sum(F, u) \in Nat
  BY <1>1, <1>5 DEF B
<1> QED BY <1>2, <1>3, <1>4, <1>5, <1>6

\* Sums of what is the same are the same.
LEMMA SumSame ==
  ASSUME NEW S, IsFiniteSet(S), NEW F, NEW G, \A x \in S : F[x] = G[x]
  PROVE  Sum(F, S) = Sum(G, S)
<1> DEFINE B == {s \in SUBSET S : Sum(F, s) # Sum(G, s)}
<1> SUFFICES ASSUME B # {} PROVE FALSE
  OBVIOUS
<1> HIDE DEF B
<1>1. PICK s \in B : \A t \in B : t \subseteq s => t = s
  <2>1. B \subseteq SUBSET S
    BY DEF B
  <2> QED BY <2>1, MinimalSubset
<1>2. s \in SUBSET S /\ Sum(F, s) # Sum(G, s) /\ IsFiniteSet(s)
  BY FS_Subset DEF B
<1>3. /\ Sum(F, s) = IF s = {} THEN 0 ELSE F[One(s)] + Sum(F, s \ {One(s)})
      /\ Sum(G, s) = IF s = {} THEN 0 ELSE G[One(s)] + Sum(G, s \ {One(s)})
  BY <1>2, SumOpens
<1>4. s # {}
  BY <1>2, <1>3
<1>5. s \ {One(s)} \in SUBSET S /\ s \ {One(s)} \subseteq s /\ s \ {One(s)} # s /\ One(s) \in S
  BY <1>2, <1>4, OneIsIn
<1>6. Sum(F, s \ {One(s)}) = Sum(G, s \ {One(s)})
  BY <1>1, <1>5 DEF B
<1> QED BY <1>2, <1>3, <1>4, <1>5, <1>6

\* It does not matter which element is taken.
LEMMA SumWithout ==
  ASSUME NEW S, IsFiniteSet(S), NEW F, \A x \in S : F[x] \in Nat
  PROVE  \A x \in S : Sum(F, S) = F[x] + Sum(F, S \ {x})
<1> DEFINE B == {s \in SUBSET S : \E x \in s : Sum(F, s) # F[x] + Sum(F, s \ {x})}
<1> SUFFICES ASSUME B # {} PROVE FALSE
  OBVIOUS
<1> HIDE DEF B
<1>1. PICK s \in B : \A t \in B : t \subseteq s => t = s
  <2>1. B \subseteq SUBSET S
    BY DEF B
  <2> QED BY <2>1, MinimalSubset
<1>2. PICK x \in s : Sum(F, s) # F[x] + Sum(F, s \ {x})
  BY DEF B
<1>3. s \in SUBSET S /\ \A t \in SUBSET s : t \in SUBSET S /\ IsFiniteSet(t) /\ Sum(F, t) \in Nat
  <2>1. s \in SUBSET S
    BY DEF B
  <2>2. ASSUME NEW t \in SUBSET s PROVE t \in SUBSET S /\ IsFiniteSet(t) /\ Sum(F, t) \in Nat
    <3>1. t \in SUBSET S
      BY <2>1
    <3>2. IsFiniteSet(t)
      BY <3>1, FS_Subset
    <3>3. \A y \in t : F[y] \in Nat
      BY <3>1
    <3> QED BY <3>1, <3>2, <3>3, SumIsNatural
  <2> QED BY <2>1, <2>2
<1>4. ASSUME NEW t \in SUBSET s, t # {} PROVE One(t) \in t /\ Sum(F, t) = F[One(t)] + Sum(F, t \ {One(t)})
  BY <1>3, <1>4, SumOpens, OneIsIn
<1> DEFINE o == One(s)
<1>5. o \in s /\ Sum(F, s) = F[o] + Sum(F, s \ {o})
  <2>1. s \in SUBSET s /\ s # {}
    OBVIOUS
  <2> QED BY <2>1, <1>4
<1> HIDE DEF o
<1>6. o # x
  BY <1>2, <1>5
\* A smaller set may lose any of its elements.
<1>7. ASSUME NEW y \in s, NEW z \in s \ {y} PROVE Sum(F, s \ {y}) = F[z] + Sum(F, (s \ {y}) \ {z})
  <2>1. s \ {y} \subseteq s /\ s \ {y} # s /\ s \ {y} \in SUBSET S
    BY <1>3
  <2> QED BY <1>1, <1>7, <2>1 DEF B
<1>8. /\ Sum(F, s \ {o}) = F[x] + Sum(F, (s \ {o}) \ {x})
      /\ Sum(F, s \ {x}) = F[o] + Sum(F, (s \ {x}) \ {o})
  BY <1>5, <1>6, <1>7
<1>9. (s \ {o}) \ {x} = (s \ {x}) \ {o} /\ (s \ {x}) \ {o} \in SUBSET s
  OBVIOUS
<1> DEFINE rest == Sum(F, (s \ {x}) \ {o})
           fo == F[o]
           fx == F[x]
<1>10. rest \in Nat /\ fo \in Nat /\ fx \in Nat
  BY <1>3, <1>5, <1>9
<1>11. Sum(F, s) = fo + (fx + rest) /\ Sum(F, s) # fx + (fo + rest)
  BY <1>2, <1>5, <1>8, <1>9
<1> HIDE DEF rest, fo, fx
<1> QED BY ONLY <1>10, <1>11

\* The sum over a part and the sum over the rest.
LEMMA SumOfParts ==
  ASSUME NEW S, IsFiniteSet(S), NEW T \in SUBSET S, NEW F, \A x \in S : F[x] \in Nat
  PROVE  Sum(F, S) = Sum(F, T) + Sum(F, S \ T)
<1>0. \A s \in SUBSET S : IsFiniteSet(s) /\ Sum(F, s) \in Nat
  BY FS_Subset, SumIsNatural
<1> DEFINE B == {s \in SUBSET T : Sum(F, S) # Sum(F, s) + Sum(F, S \ s)}
<1> SUFFICES ASSUME B # {} PROVE FALSE
  OBVIOUS
<1> HIDE DEF B
<1>1. PICK s \in B : \A t \in B : t \subseteq s => t = s
  <2>1. B \subseteq SUBSET T /\ IsFiniteSet(T)
    BY <1>0 DEF B
  <2> QED BY <2>1, MinimalSubset
<1>2. s \in SUBSET T /\ s \in SUBSET S /\ S \ s \in SUBSET S /\ Sum(F, S) # Sum(F, s) + Sum(F, S \ s)
  BY DEF B
<1>3. CASE s = {}
  <2>1. Sum(F, s) = 0 /\ S \ s = S
    BY <1>0, <1>2, <1>3, SumOpens
  <2> QED BY <1>0, <1>2, <2>1
<1>4. ASSUME NEW x \in s PROVE FALSE
  <2> DEFINE t == s \ {x}
  <2>1. t \in SUBSET T /\ t \subseteq s /\ t # s /\ t \in SUBSET S /\ S \ t \in SUBSET S /\ x \in S \ t
    BY <1>2
  <2>2. Sum(F, S) = Sum(F, t) + Sum(F, S \ t)
    BY <1>1, <2>1 DEF B
  <2>3. Sum(F, s) = F[x] + Sum(F, t)
    BY <1>0, <1>2, SumWithout
  <2>4. (S \ t) \ {x} = S \ s
    BY <1>2
  <2>5. \A y \in S \ t : Sum(F, S \ t) = F[y] + Sum(F, (S \ t) \ {y})
    <3> HIDE DEF t
    <3> QED BY <1>0, <2>1, SumWithout
  <2>6. Sum(F, S \ t) = F[x] + Sum(F, S \ s)
    BY <2>1, <2>4, <2>5
  <2>7. {Sum(F, t), Sum(F, S \ s), F[x], Sum(F, S \ t)} \subseteq Nat
    BY <1>0, <1>2, <2>1
  <2> HIDE DEF t
  <2> QED BY <1>2, <2>2, <2>3, <2>6, <2>7
<1> QED BY <1>3, <1>4

\* A sum of nothings.
LEMMA SumOfNothing ==
  ASSUME NEW S, IsFiniteSet(S), NEW F, \A x \in S : F[x] = 0
  PROVE  Sum(F, S) = 0
<1> DEFINE B == {s \in SUBSET S : Sum(F, s) # 0}
<1> SUFFICES ASSUME B # {} PROVE FALSE
  OBVIOUS
<1> HIDE DEF B
<1>1. PICK s \in B : \A t \in B : t \subseteq s => t = s
  <2>1. B \subseteq SUBSET S
    BY DEF B
  <2> QED BY <2>1, MinimalSubset
<1>2. s \in SUBSET S /\ Sum(F, s) # 0 /\ IsFiniteSet(s)
  BY FS_Subset DEF B
<1>3. Sum(F, s) = IF s = {} THEN 0 ELSE F[One(s)] + Sum(F, s \ {One(s)})
  BY <1>2, SumOpens
<1>4. s # {}
  BY <1>2, <1>3
<1>5. s \ {One(s)} \in SUBSET S /\ s \ {One(s)} \subseteq s /\ s \ {One(s)} # s /\ One(s) \in S
  BY <1>2, <1>4, OneIsIn
<1>6. Sum(F, s \ {One(s)}) = 0
  BY <1>1, <1>5 DEF B
<1> QED BY <1>2, <1>3, <1>4, <1>5, <1>6

----------------------------------------------------------------------------
(* Rows, requests, sweep and orders.                                       *)

USE PieceAssumption

OrdersOK == orders \in [Orders -> Rollup!OrderStatus]

\* Rows, requests and sweep are well formed, and the rows satisfy the
\* exclusion constraint: inductive, since a request not yet written is bound
\* to what Sound allows it to write.
BookingInv == RowsOK /\ RequestsOK /\ ClockOK /\ OrdersOK /\ Exclusion(piece)

Tables == RowsOK /\ Exclusion(piece)

----------------------------------------------------------------------------
(* What writes to the tables preserve.                                     *)

LEMMA RowFields ==
  ASSUME NEW row \in Row
  PROVE  /\ \A st \in Rollup!PieceStatus : [row EXCEPT !.status = st] \in Row
         /\ \A p : WithoutSpool(p, row) \in Row
         /\ Unbooked(row) \in Row
<1>1. ASSUME NEW st \in Rollup!PieceStatus PROVE [row EXCEPT !.status = st] \in Row
  BY DEF Row
<1>2. [row EXCEPT !.source = None] \in Row
  BY DEF Row
<1>3. 0 \in 0..MaxTime
  BY DEF PieceAssumption
<1>4. [row EXCEPT !.from = 0, !.to = 0] \in Row
  BY <1>3 DEF Row
<1> QED
  BY <1>1, <1>2, <1>4 DEF WithoutSpool, Unbooked

LEMMA AssignedRow ==
  ASSUME NEW row \in Row, NEW r \in Request
  PROVE  Assigned(row, r) \in Row
<1> DEFINE q == row.qty \/ r.qty
           src == IF r.stock = None THEN row.source ELSE r.stock
<1>1. /\ q \in BOOLEAN /\ src \in Stocks \cup {None}
      /\ r.printer \in Printers \cup {None}
  BY DEF Row, Request
<1> HIDE DEF q, src
<1>2. [row EXCEPT !.printer = r.printer, !.qty = q, !.source = src] \in Row
  BY <1>1 DEF Row
<1> QED
  BY <1>2 DEF q, src, Assigned

LEMMA UnassignedRow ==
  ASSUME NEW row \in Row
  PROVE  [row EXCEPT !.printer = None, !.status = "pending"] \in Row
<1>1. "pending" \in Rollup!PieceStatus
  BY DEF Rollup!PieceStatus
<1> QED
  BY <1>1 DEF Row

LEMMA BookedRow ==
  ASSUME NEW row \in Row, NEW a \in 0..MaxTime, NEW b \in 0..MaxTime
  PROVE  [row EXCEPT !.status = "scheduled", !.from = a, !.to = b] \in Row
<1>1. "scheduled" \in Rollup!PieceStatus
  BY DEF Rollup!PieceStatus
<1> QED
  BY <1>1 DEF Row

LEMMA EndedRow ==
  ASSUME NEW row \in Row, NEW p, NEW st \in {"done", "failed"}
  PROVE  /\ Ended(p, row, st) \in Row
         /\ Ended(p, row, st).status = st
<1> DEFINE q == row.post \/ (st = "done" /\ p \in Resin)
<1>1. q \in BOOLEAN /\ st \in Rollup!PieceStatus
  BY DEF Rollup!PieceStatus
<1> HIDE DEF q
<1>2. /\ [row EXCEPT !.status = st, !.post = q] \in Row
      /\ [row EXCEPT !.status = st, !.post = q].status = st
  BY <1>1 DEF Row
<1> QED
  BY <1>2 DEF q, Ended

LEMMA RequeuedRow ==
  ASSUME NEW row \in Row, NEW st \in Rollup!PieceStatus
  PROVE  [Unbooked(row) EXCEPT !.status = st, !.post = FALSE] \in Row
<1> DEFINE u == Unbooked(row)
<1>1. u \in Row
  BY RowFields
<1> HIDE DEF u
<1>2. [u EXCEPT !.status = st, !.post = FALSE] \in Row
  BY <1>1 DEF Row
<1> QED
  BY <1>2 DEF u

LEMMA RestoredRow ==
  ASSUME NEW row \in Row, NEW p, NEW st \in Rollup!PieceStatus
  PROVE  Restored(p, row, st) \in Row
<1> DEFINE off == [Unbooked(row) EXCEPT !.status = st]
           q == row.qty /\ p \in Resin
<1>1. off \in Row /\ q \in BOOLEAN
  BY RowFields
<1> HIDE DEF off, q
<1>2. [off EXCEPT !.printer = None, !.qty = q] \in Row
  BY <1>1 DEF Row
<1> QED
  BY <1>1, <1>2 DEF off, q, Restored

LEMMA OrderRowsType ==
  ASSUME NEW r, piece \in [Pieces -> Row]
  PROVE  OrderRows(r) \in [Pieces -> Row]
<1>1. ASSUME NEW p \in Pieces, NEW to PROVE Reopened(p, piece[p], to) \in Row
  <2>1. {"ready", "assigned", "pending", "scheduled"} \subseteq Rollup!PieceStatus
    BY DEF Rollup!PieceStatus
  <2>2. Unbooked(piece[p]) \in Row
    BY RowFields
  <2>3. \A row \in Row, st \in Rollup!PieceStatus : [row EXCEPT !.status = st] \in Row
    BY RowFields
  <2> QED
    BY <2>1, <2>2, <2>3 DEF Reopened
<1>2. "cancelled" \in Rollup!PieceStatus
  BY DEF Rollup!PieceStatus
<1>3. \A p \in Pieces : [piece[p] EXCEPT !.status = "cancelled"] \in Row
  BY <1>2, RowFields
<1> QED
  BY <1>1, <1>3 DEF OrderRows

\* A guarded write keeps what the constraints demand, or writes nothing.
LEMMA WriteKeeps ==
  ASSUME NEW w \in Workers, NEW rows \in [Pieces -> Row], NEW pc, Tables, Write(w, rows, pc)
  PROVE  Tables'
BY DEF Write, Put, Legal, Tables, RowsOK

\* An unguarded write is harmless if it books nothing.
LEMMA PutKeeps ==
  ASSUME NEW rows \in [Pieces -> Row], Tables, Put(rows),
         \A p \in Pieces : /\ ChecksHold(p, rows[p])
                           /\ rows[p].status \in Busy =>
                                /\ piece[p].status \in Busy
                                /\ rows[p].printer = piece[p].printer
                                /\ rows[p].from = piece[p].from
                                /\ rows[p].to = piece[p].to
  PROVE  Tables'
<1>1. Exclusion(rows)
  BY DEF Exclusion, Windowed, Meet, Tables
<1> QED
  BY <1>1 DEF Put, Tables, RowsOK

LEMMA GotoKeeps ==
  ASSUME NEW w \in Workers, RequestsOK,
         NEW pc \in {"idle", "write", "reload", "release", "check", "tx", "sync"}, Goto(w, pc)
  PROVE  RequestsOK'
<1>1. Sound(Idle)
  BY DEF Sound, Request, Idle
<1>2. Sound(req[w]) /\ req[w] \in Request
  BY DEF RequestsOK
<1>3. Sound([Idle EXCEPT !.pc = "sync", !.o = req[w].o])
  <2>1. req[w].o \in Orders \cup {None}
    BY <1>2 DEF Request
  <2>2. Idle \in Request
    BY <1>1 DEF Sound
  <2>3. [Idle EXCEPT !.pc = "sync", !.o = req[w].o] \in Request
    BY <2>1, <2>2 DEF Request
  <2> QED
    BY <2>3 DEF Sound, Idle
<1>4. ASSUME pc \notin {"idle", "sync"} PROVE Sound([req[w] EXCEPT !.pc = pc])
  BY <1>4, <1>2 DEF Sound, Request
<1> DEFINE r == CASE pc = "idle" -> Idle
                  [] pc = "sync" -> [Idle EXCEPT !.pc = pc, !.o = req[w].o]
                  [] OTHER       -> [req[w] EXCEPT !.pc = pc]
<1>5. Sound(r)
  BY <1>1, <1>3, <1>4
<1>6. req' = [req EXCEPT ![w] = r]
  BY DEF Goto, RequestsOK
<1> HIDE DEF r
<1> QED
  BY <1>5, <1>6 DEF RequestsOK, Sound

LEMMA BeginKeeps ==
  ASSUME NEW w \in Workers, NEW r, Sound(r), BookingInv, Begin(w, r)
  PROVE  BookingInv'
<1>1. RequestsOK'
  BY DEF Begin, BookingInv, RequestsOK, Sound
<1> QED
  BY <1>1 DEF Begin, BookingInv, RowsOK, ClockOK, OrdersOK, world

\* What a request loaded keeps to the fields' domains; `q` is what it was
\* asked for.
LEMMA LoadFields ==
  ASSUME NEW p \in Pieces, NEW pc \in {"write", "release", "check", "tx"}, Tables,
         NEW op \in {"assign", "unassign", "reserve", "schedule", "unschedule", "start",
                     "complete", "reprint", "restore", "cancel"}
  PROVE  /\ Load(op, p, pc) \in Request
         /\ Load(op, p, pc).op = op /\ Load(op, p, pc).pc = pc /\ Load(op, p, pc).p = p
         /\ Load(op, p, pc).to = "none"
<1>1. /\ OrderOf[p] \in Orders
      /\ piece[p].printer \in Printers \cup {None}
      /\ (IF p \in Resin THEN piece[p].source ELSE None) \in Stocks \cup {None}
      /\ 0 \in 0..MaxTime
  BY DEF Tables, RowsOK, Row, PieceAssumption
<1>2. Load(op, p, pc) \in Request
  BY <1>1 DEF Load, Request
<1> QED
  BY <1>2 DEF Load

\* The rollup yields an order status.
LEMMA RecomputedType ==
  ASSUME NEW current \in Rollup!OrderStatus, NEW pcs, NEW known \in BOOLEAN
  PROVE  Rollup!Target(pcs) \in Rollup!OrderStatus
         /\ Rollup!Recomputed(current, pcs, known) \in Rollup!OrderStatus
<1>1. Rollup!LeastAdvancedStage(pcs) \in Rollup!OrderStatus
  BY DEF Rollup!LeastAdvancedStage, Rollup!OrderStatus, Rollup!Shipping, Rollup!Fulfilment
<1>2. Rollup!Target(pcs) \in Rollup!OrderStatus
  BY <1>1 DEF Rollup!Target, Rollup!OrderStatus
<1>3. "completed" \in Rollup!OrderStatus
  BY DEF Rollup!OrderStatus
<1> QED
  BY <1>2, <1>3 DEF Rollup!Recomputed, Rollup!Clamped

\* A request is given the arguments of its call.
LEMMA GivenStock ==
  ASSUME NEW r \in Request, NEW st \in Stocks \cup {None}, NEW q, q = [r EXCEPT !.stock = st]
  PROVE  q \in Request /\ q.op = r.op /\ q.pc = r.pc /\ q.p = r.p /\ q.stock = st
BY DEF Request

LEMMA GivenTime ==
  ASSUME NEW r \in Request, NEW t \in 0..MaxTime, NEW q, q = [r EXCEPT !.at = t]
  PROVE  q \in Request /\ q.op = r.op /\ q.pc = r.pc /\ q.p = r.p /\ q.at = t
BY DEF Request

LEMMA GivenTarget ==
  ASSUME NEW r \in Request, NEW to \in Rollup!PieceStatus, NEW q, q = [r EXCEPT !.to = to]
  PROVE  q \in Request /\ q.op = r.op /\ q.pc = r.pc /\ q.p = r.p /\ q.to = to
BY DEF Request

----------------------------------------------------------------------------
(* Requests begin soundly.                                                 *)

LEMMA CallStep ==
  ASSUME NEW w \in Workers, BookingInv, Call(w)
  PROVE  BookingInv'
<1> USE DEF BookingInv, Tables
<1>1. ASSUME NEW p \in Pieces, NEW pr \in Printers, NEW tank \in Tanks \cup {None},
             NEW qty \in BOOLEAN, Assign(w, p, pr, tank, qty)
      PROVE  BookingInv'
  <2> DEFINE l == Load("assign", p, "write")
             r == [l EXCEPT !.printer = pr, !.stock = tank, !.qty = qty]
  <2>1. tank \in Stocks \cup {None} /\ pr \in Printers \cup {None}
    BY DEF Stocks
  <2>2. l \in Request /\ l.op = "assign" /\ l.pc = "write" /\ l.p = p
    BY LoadFields
  <2> HIDE DEF l
  <2>3. r \in Request /\ r.op = "assign" /\ r.pc = "write" /\ r.p = p
    BY <2>1, <2>2 DEF Request
  <2>4. Sound(r)
    BY <2>3 DEF Sound
  <2> QED
    BY <1>1, <2>4, BeginKeeps DEF Assign, l
<1>2. ASSUME NEW p \in Pieces, NEW s \in Spools, Reserve(w, p, s) PROVE BookingInv'
  <2> DEFINE r == [Load("reserve", p, "tx") EXCEPT !.stock = s]
  <2>1. r \in Request /\ r.op = "reserve" /\ r.pc = "tx" /\ r.p = p /\ r.stock = s
    BY LoadFields, GivenStock DEF Stocks
  <2>2. Sound(r)
    BY <2>1 DEF Sound, Stocks
  <2> QED
    BY <1>2, <2>2, BeginKeeps DEF Reserve
<1>3. ASSUME NEW p \in Pieces, NEW t \in 0..MaxTime, t + Minutes[p] <= MaxTime, Schedule(w, p, t)
      PROVE  BookingInv'
  <2> DEFINE r == [Load("schedule", p, "check") EXCEPT !.at = t]
  <2>1. r \in Request /\ r.op = "schedule" /\ r.pc = "check" /\ r.p = p /\ r.at = t
    BY LoadFields, GivenTime
  <2>2. t + Minutes[p] \in 0..MaxTime
    BY <1>3 DEF PieceAssumption
  <2>3. Sound(r)
    BY <2>1, <2>2 DEF Sound
  <2> QED
    BY <1>3, <2>3, BeginKeeps DEF Schedule
<1>4. ASSUME NEW p \in Pieces, NEW outcome \in {"done", "failed"}, Complete(w, p, outcome)
      PROVE  BookingInv'
  <2> DEFINE r == [Load("complete", p, "write") EXCEPT !.to = outcome]
  <2>1. r \in Request /\ r.op = "complete" /\ r.pc = "write" /\ r.p = p /\ r.to = outcome
    BY LoadFields, GivenTarget DEF Rollup!PieceStatus
  <2>2. Sound(r)
    BY <2>1 DEF Sound
  <2> QED
    BY <1>4, <2>2, BeginKeeps DEF Complete
\* The three that put a piece back name the status it goes back to.
<1>5. ASSUME NEW p \in Pieces, NEW op \in {"unschedule", "reprint", "restore"},
             NEW to \in Rollup!PieceStatus,
             Begin(w, [Load(op, p, "write") EXCEPT !.to = to])
      PROVE  BookingInv'
  <2> DEFINE r == [Load(op, p, "write") EXCEPT !.to = to]
  <2>1. r \in Request /\ r.op = op /\ r.pc = "write" /\ r.p = p /\ r.to = to
    BY LoadFields, GivenTarget
  <2>2. Sound(r)
    BY <2>1 DEF Sound
  <2> QED
    BY <1>5, <2>2, BeginKeeps
<1>6. ASSUME NEW p \in Pieces, Unschedule(w, p) PROVE BookingInv'
  BY <1>5, <1>6 DEF Unschedule, Rollup!PieceStatus
<1>7. ASSUME NEW p \in Pieces, Reprint(w, p) PROVE BookingInv'
  BY <1>5, <1>7 DEF Reprint, Rollup!PieceStatus
<1>8. ASSUME NEW p \in Pieces, NEW to \in {"pending", "assigned"}, Restore(w, p, to)
      PROVE  BookingInv'
  BY <1>5, <1>8 DEF Restore, Rollup!PieceStatus
<1>9. ASSUME NEW p \in Pieces, Unassign(w, p) \/ Start(w, p) \/ Cancel(w, p) PROVE BookingInv'
  <2>1. ASSUME NEW op \in {"unassign", "start", "cancel"}, NEW pc \in {"release", "check", "tx"}
        PROVE  Sound(Load(op, p, pc))
    BY LoadFields DEF Sound
  <2> QED
    BY <1>9, <2>1, BeginKeeps DEF Unassign, Start, Cancel
<1>10. ASSUME NEW p \in Pieces, Release(w, p) PROVE BookingInv'
  <2> DEFINE rows == [piece EXCEPT ![p] = WithoutSpool(p, @)]
  <2>1. rows \in [Pieces -> Row]
    BY RowFields DEF RowsOK
  <2>2. \A q \in Pieces : /\ ChecksHold(q, rows[q])
                          /\ rows[q].status = piece[q].status
                          /\ rows[q].printer = piece[q].printer
                          /\ rows[q].from = piece[q].from
                          /\ rows[q].to = piece[q].to
    BY DEF RowsOK, Row, WithoutSpool, ChecksHold, CoreData
  <2>3. Put(rows)
    BY <1>10 DEF Release
  <2>4. Tables'
    BY <2>1, <2>2, <2>3, PutKeeps
  <2> QED
    BY <1>10, <2>4 DEF Release, RequestsOK, ClockOK, OrdersOK
<1>11. ASSUME NEW o \in Orders, NEW status \in Rollup!OrderStatus, SetOrder(w, o, status)
       PROVE  BookingInv'
  <2> DEFINE r == [Idle EXCEPT !.pc = "tx", !.op = "order", !.o = o, !.to = status, !.was = orders[o]]
  <2>1. orders[o] \in Rollup!OrderStatus
    BY DEF OrdersOK
  <2>2. Idle \in Request
    BY DEF Request, Idle, PieceAssumption
  <2>3. r \in Request /\ r.op = "order" /\ r.pc = "tx" /\ r.to = status
    <3> DEFINE was == orders[o]
               i == Idle
    <3>1. was \in Rollup!OrderStatus /\ i \in Request
      BY <2>1, <2>2
    <3> HIDE DEF was, i
    <3>2. ASSUME NEW q, q = [i EXCEPT !.pc = "tx", !.op = "order", !.o = o, !.to = status, !.was = was]
          PROVE  q \in Request /\ q.op = "order" /\ q.pc = "tx" /\ q.to = status
      <4> HIDE DEF r
      <4>1. /\ q.pc = "tx" /\ q.op = "order" /\ q.to = status /\ q.o = o /\ q.was = was
            /\ q.p = i.p /\ q.printer = i.printer /\ q.stock = i.stock
            /\ q.qty = i.qty /\ q.at = i.at
        BY <3>1, <3>2 DEF Request
      <4>2. q \in Request
        BY <2>1, <3>1, <3>2 DEF Request
      <4> QED
        BY <4>1, <4>2
    <3> QED
      BY <3>2 DEF was, i
  <2>4. Sound(r)
    BY <2>1, <2>3 DEF Sound
  <2> QED
    BY <1>11, <2>4, BeginKeeps DEF SetOrder
<1> HIDE DEF BookingInv, Tables
<1>12. CASE \E o \in Orders, status \in Rollup!OrderStatus : SetOrder(w, o, status)
  BY <1>11, <1>12
<1> QED
  BY <1>1, <1>2, <1>3, <1>4, <1>6, <1>7, <1>8, <1>9, <1>10, <1>12 DEF Call

----------------------------------------------------------------------------
(* Requests go on soundly.                                                 *)

LEMMA WriteStep ==
  ASSUME NEW w \in Workers, NEW rows \in [Pieces -> Row], BookingInv,
         NEW pc \in {"idle", "write", "reload", "release", "check", "tx", "sync"},
         Write(w, rows, pc), UNCHANGED <<orders, clock>>
  PROVE  BookingInv'
<1>1. Tables'
  BY WriteKeeps DEF BookingInv, Tables
<1>2. PICK q \in {"idle", "write", "reload", "release", "check", "tx", "sync"} : Goto(w, q)
  BY DEF Write
<1>3. RequestsOK'
  BY <1>2, GotoKeeps DEF BookingInv
<1> QED
  BY <1>1, <1>3 DEF BookingInv, Tables, ClockOK, OrdersOK

LEMMA PutStep ==
  ASSUME NEW w \in Workers, NEW rows \in [Pieces -> Row], BookingInv,
         NEW pc \in {"idle", "write", "reload", "release", "check", "tx", "sync"},
         Put(rows), Goto(w, pc), UNCHANGED clock, OrdersOK',
         \A p \in Pieces : /\ ChecksHold(p, rows[p])
                           /\ rows[p].status \in Busy =>
                                /\ piece[p].status \in Busy
                                /\ rows[p].printer = piece[p].printer
                                /\ rows[p].from = piece[p].from
                                /\ rows[p].to = piece[p].to
  PROVE  BookingInv'
<1>1. Tables'
  BY PutKeeps DEF BookingInv, Tables
<1>2. RequestsOK'
  BY GotoKeeps DEF BookingInv
<1> QED
  BY <1>1, <1>2 DEF BookingInv, Tables, ClockOK

LEMMA QuietStep ==
  ASSUME NEW w \in Workers, BookingInv,
         NEW pc \in {"idle", "write", "reload", "release", "check", "tx", "sync"},
         Goto(w, pc), UNCHANGED <<piece, clock>>, OrdersOK'
  PROVE  BookingInv'
<1>1. RequestsOK'
  BY GotoKeeps DEF BookingInv
<1> QED
  BY <1>1 DEF BookingInv, RowsOK, ClockOK

LEMMA ProceedStep ==
  ASSUME NEW w \in Workers, BookingInv, Proceed(w)
  PROVE  BookingInv'
<1> DEFINE r == req[w]
           p == r.p
<1>1. /\ Sound(r) /\ r \in Request
      /\ r.op \notin {"none", "order"} => p \in Pieces
      /\ r.printer \in Printers \cup {None} /\ r.stock \in Stocks \cup {None}
      /\ r.qty \in BOOLEAN
  BY DEF BookingInv, RequestsOK, Sound, Request
<1>2. piece \in [Pieces -> Row] /\ \A q \in Pieces : ChecksHold(q, piece[q])
  BY DEF BookingInv, RowsOK
<1>3. CASE AssignWrite(w)
  <2>1. p \in Pieces
    BY <1>1, <1>3 DEF AssignWrite, At
  <2>2. [piece EXCEPT ![p] = Assigned(@, r)] \in [Pieces -> Row]
    BY <1>1, <1>2, <2>1, AssignedRow
  <2> QED
    BY <1>3, <2>2, WriteStep DEF AssignWrite
<1>4. CASE AssignReload(w)
  <2> DEFINE target == IF Schedulable(p, piece[p]) THEN "ready" ELSE "assigned"
  <2>1. CASE Goto(w, "idle")
    BY <1>4, <2>1, QuietStep DEF AssignReload, world, BookingInv, OrdersOK
  <2>2. CASE req' = [req EXCEPT ![w].pc = "status", ![w].to = target]
    <3> DEFINE q == [r EXCEPT !.pc = "status", !.to = target]
    <3>1. r.op = "assign"
      BY <1>4 DEF AssignReload, At
    <3>2. target \in Rollup!PieceStatus
      BY DEF Rollup!PieceStatus
    <3> HIDE DEF target
    <3>3. q \in Request /\ q.op = r.op /\ q.p = r.p /\ q.pc = "status" /\ q.to = target
      BY <1>1, <3>2 DEF Request
    <3>4. Sound(q)
      BY <1>1, <3>1, <3>2, <3>3 DEF Sound
    <3>5. req' = [req EXCEPT ![w] = q]
      BY <2>2 DEF BookingInv, RequestsOK
    <3> HIDE DEF q
    <3>6. RequestsOK'
      BY <3>4, <3>5 DEF BookingInv, RequestsOK, Sound
    <3> QED
      BY <1>4, <3>6 DEF AssignReload, world, BookingInv, RowsOK, ClockOK, OrdersOK
  <2> QED
    BY <1>4, <2>1, <2>2 DEF AssignReload
<1>5. CASE AssignStatus(w)
  <2>1. p \in Pieces /\ r.to \in Rollup!PieceStatus
    BY <1>1, <1>5 DEF AssignStatus, At, Sound
  <2>2. [piece[p] EXCEPT !.status = r.to] \in Row
    BY <1>2, <2>1, RowFields
  <2>3. [piece EXCEPT ![p].status = r.to] \in [Pieces -> Row]
    BY <1>2, <2>1, <2>2
  <2> QED
    BY <1>5, <2>3, WriteStep DEF AssignStatus
<1>6. CASE UnassignRelease(w)
  <2> DEFINE rows == [piece EXCEPT ![p] = WithoutSpool(p, @)]
  <2>1. rows \in [Pieces -> Row]
    BY <1>1, <1>2, <1>6, RowFields DEF UnassignRelease, At
  <2>2. \A q \in Pieces : /\ ChecksHold(q, rows[q])
                          /\ rows[q].status = piece[q].status
                          /\ rows[q].printer = piece[q].printer
                          /\ rows[q].from = piece[q].from
                          /\ rows[q].to = piece[q].to
    BY <1>2 DEF Row, WithoutSpool, ChecksHold, CoreData
  <2>3. OrdersOK'
    BY <1>6 DEF UnassignRelease, BookingInv, OrdersOK
  <2> QED
    BY <1>6, <2>1, <2>2, <2>3, PutStep DEF UnassignRelease
<1>7. CASE UnassignWrite(w)
  <2>1. p \in Pieces
    BY <1>1, <1>7 DEF UnassignWrite, At
  <2>2. [piece EXCEPT ![p] = [@ EXCEPT !.printer = None, !.status = "pending"]] \in [Pieces -> Row]
    BY <1>2, <2>1, UnassignedRow
  <2> QED
    BY <1>7, <2>2, WriteStep DEF UnassignWrite
<1>8. CASE ReserveTx(w)
  <2> DEFINE rows == [piece EXCEPT ![p].source = r.stock]
  <2>1. p \in Pieces /\ r.stock \in Stocks /\ r.stock # None
    BY <1>1, <1>8 DEF ReserveTx, At, Sound, PieceAssumption
  <2>2. OrdersOK'
    BY <1>8 DEF ReserveTx, BookingInv, OrdersOK
  <2>3. CASE Put(rows)
    <3>1. rows \in [Pieces -> Row]
      BY <1>2, <2>1 DEF Row
    <3>2. \A q \in Pieces : /\ ChecksHold(q, rows[q])
                            /\ rows[q].status = piece[q].status
                            /\ rows[q].printer = piece[q].printer
                            /\ rows[q].from = piece[q].from
                            /\ rows[q].to = piece[q].to
      BY <1>2, <2>1 DEF Row, ChecksHold, CoreData
    <3> QED
      BY <1>8, <2>2, <2>3, <3>1, <3>2, PutStep DEF ReserveTx
  <2>4. CASE UNCHANGED piece
    BY <1>8, <2>2, <2>4, QuietStep DEF ReserveTx
  <2> QED
    BY <1>8, <2>3, <2>4 DEF ReserveTx
<1>9. CASE ScheduleCheck(w) \/ StartCheck(w)
  BY <1>9, QuietStep DEF ScheduleCheck, StartCheck, world, BookingInv, OrdersOK
<1>10. CASE ScheduleWrite(w)
  <2>1. p \in Pieces /\ r.at \in 0..MaxTime /\ r.at + Minutes[p] \in 0..MaxTime
    BY <1>1, <1>10 DEF ScheduleWrite, At, Sound, Request
  <2>2. ScheduledRows(w) \in [Pieces -> Row]
    BY <1>2, <2>1, BookedRow DEF ScheduledRows
  <2> QED
    BY <1>10, <2>2, WriteStep DEF ScheduleWrite
<1>11. CASE UnscheduleWrite(w)
  <2>1. p \in Pieces /\ r.to \in Rollup!PieceStatus
    BY <1>1, <1>11 DEF UnscheduleWrite, At, Sound
  <2>2. [piece EXCEPT ![p] = [Unbooked(@) EXCEPT !.status = r.to]] \in [Pieces -> Row]
    BY <1>2, <2>1, RowFields
  <2> QED
    BY <1>11, <2>2, WriteStep DEF UnscheduleWrite
<1>12. CASE StartTx(w)
  <2>1. p \in Pieces
    BY <1>1, <1>12 DEF StartTx, At
  <2>2. [piece EXCEPT ![p].status = "printing"] \in [Pieces -> Row]
    BY <1>2, <2>1, SMTT(30) DEF Row, Rollup!PieceStatus
  <2> QED
    BY <1>12, <2>2, WriteStep DEF StartTx
<1>13. CASE CompleteWrite(w)
  <2> DEFINE rows == [piece EXCEPT ![p] = Ended(p, @, r.to)]
  <2>1. p \in Pieces /\ r.to \in {"done", "failed"}
    BY <1>1, <1>13 DEF CompleteWrite, At, Sound
  <2>2. rows \in [Pieces -> Row] /\ rows[p].status \in {"done", "failed"}
    BY <1>2, <2>1, EndedRow
  <2>3. \A q \in Pieces : q # p => rows[q] = piece[q]
    BY <1>2
  <2> HIDE DEF rows
  <2>4. \A q \in Pieces : /\ ChecksHold(q, rows[q])
                          /\ rows[q].status \in Busy => rows[q] = piece[q]
    BY <1>2, <2>2, <2>3 DEF ChecksHold, Busy
  <2>5. OrdersOK'
    BY <1>13 DEF CompleteWrite, BookingInv, OrdersOK
  <2>6. Put(rows)
    BY <1>13 DEF CompleteWrite, rows
  <2> QED
    BY <1>13, <2>2, <2>4, <2>5, <2>6, PutStep DEF CompleteWrite
<1>14. CASE CompleteTx(w)
  BY <1>14, QuietStep DEF CompleteTx, BookingInv, OrdersOK
<1>15. CASE ReprintWrite(w)
  <2>1. p \in Pieces /\ r.to \in Rollup!PieceStatus
    BY <1>1, <1>15 DEF ReprintWrite, At, Sound
  <2>2. [piece EXCEPT ![p] = [Unbooked(@) EXCEPT !.status = r.to, !.post = FALSE]] \in [Pieces -> Row]
    BY <1>2, <2>1, RequeuedRow
  <2> QED
    BY <1>15, <2>2, WriteStep DEF ReprintWrite
<1>16. CASE RestoreWrite(w)
  <2>1. p \in Pieces /\ r.to \in Rollup!PieceStatus
    BY <1>1, <1>16 DEF RestoreWrite, At, Sound
  <2>2. [piece EXCEPT ![p] = Restored(p, @, r.to)] \in [Pieces -> Row]
    BY <1>2, <2>1, RestoredRow
  <2> QED
    BY <1>16, <2>2, WriteStep DEF RestoreWrite
<1>17. CASE CancelTx(w)
  <2> DEFINE rows == [piece EXCEPT ![p] = [Unbooked(WithoutSpool(p, @)) EXCEPT !.status = "cancelled"]]
  <2>1. p \in Pieces /\ "cancelled" \in Rollup!PieceStatus
    BY <1>1, <1>17 DEF CancelTx, At, Rollup!PieceStatus
  <2>2. rows \in [Pieces -> Row]
    BY <1>2, <2>1, RowFields
  <2>3. rows[p].status = "cancelled"
    BY <1>2, <2>1, RowFields DEF Row
  <2>4. \A q \in Pieces : q # p => rows[q] = piece[q]
    BY <1>2
  <2>5. Put(rows)
    BY <1>17 DEF CancelTx
  <2>6. OrdersOK'
    BY <1>17, RecomputedType DEF CancelTx, BookingInv, OrdersOK
  <2> HIDE DEF rows
  <2>7. \A q \in Pieces : /\ ChecksHold(q, rows[q])
                          /\ rows[q].status \in Busy => rows[q] = piece[q]
    BY <1>2, <2>3, <2>4 DEF ChecksHold, Busy
  <2> QED
    BY <1>17, <2>2, <2>5, <2>6, <2>7, PutStep DEF CancelTx
<1>18. CASE SyncRead(w)
  <2> DEFINE target == Rollup!Target(RowsOf(r.o, piece))
  <2>1. CASE Goto(w, "idle")
    BY <1>18, <2>1, QuietStep DEF SyncRead, world, BookingInv, OrdersOK
  <2>2. CASE req' = [req EXCEPT ![w].pc = "settle", ![w].to = target]
    <3> DEFINE q == [r EXCEPT !.pc = "settle", !.to = target]
    <3>1. target \in Rollup!OrderStatus
      BY RecomputedType DEF Rollup!OrderStatus
    <3> HIDE DEF target
    <3>2. q \in Request /\ q.op = r.op /\ q.p = r.p /\ q.pc = "settle" /\ q.to = target
      BY <1>1, <3>1 DEF Request
    <3>3. Sound(q)
      BY <1>1, <1>18, <3>1, <3>2 DEF Sound, SyncRead
    <3>4. req' = [req EXCEPT ![w] = q]
      BY <2>2 DEF BookingInv, RequestsOK
    <3> HIDE DEF q
    <3>5. RequestsOK'
      BY <3>3, <3>4 DEF BookingInv, RequestsOK, Sound
    <3> QED
      BY <1>18, <3>5 DEF SyncRead, world, BookingInv, RowsOK, ClockOK, OrdersOK
  <2> QED
    BY <1>18, <2>1, <2>2 DEF SyncRead
<1>19. CASE SyncWrite(w)
  <2>1. r.to \in Rollup!OrderStatus
    BY <1>1, <1>19 DEF SyncWrite, Sound
  <2>2. OrdersOK'
    BY <1>19, <2>1 DEF SyncWrite, OrdersOK, BookingInv
  <2> QED
    BY <1>19, <2>2, QuietStep DEF SyncWrite
<1>20. CASE OrderTx(w)
  <2>1. r.to \in Rollup!OrderStatus
    BY <1>1, <1>20 DEF OrderTx, At, Sound
  <2>2. OrdersOK'
    BY <1>20, <2>1 DEF OrderTx, BookingInv, OrdersOK
  <2>3. OrderRows(r) \in [Pieces -> Row]
    BY <1>2, OrderRowsType
  <2>4. CASE Legal(OrderRows(r)) /\ Put(OrderRows(r))
    <3>1. Tables'
      BY <2>3, <2>4 DEF Put, Legal, Tables, RowsOK
    <3>2. RequestsOK'
      BY <1>20, GotoKeeps DEF OrderTx, BookingInv
    <3> QED
      BY <1>20, <2>2, <3>1, <3>2 DEF OrderTx, BookingInv, Tables, ClockOK
  <2>5. CASE UNCHANGED piece
    BY <1>20, <2>2, <2>5, QuietStep DEF OrderTx
  <2> QED
    BY <1>20, <2>4, <2>5 DEF OrderTx
<1> QED
  BY <1>3, <1>4, <1>5, <1>6, <1>7, <1>8, <1>9, <1>10, <1>11, <1>12, <1>13, <1>14,
     <1>15, <1>16, <1>17, <1>18, <1>19, <1>20 DEF Proceed

----------------------------------------------------------------------------
(* The clock sweeps soundly.                                               *)

LEMMA TickStep ==
  ASSUME BookingInv, Tick
  PROVE  BookingInv'
<1>1. piece \in [Pieces -> Row] /\ \A q \in Pieces : ChecksHold(q, piece[q])
  BY DEF BookingInv, RowsOK
<1>2. CASE ClockAdvance
  <2> DEFINE due == {p \in Pieces : /\ piece[p].status = "scheduled"
                                   /\ Windowed(piece[p])
                                   /\ piece[p].from <= now}
             rows == [p \in Pieces |-> IF p \in due THEN [piece[p] EXCEPT !.status = "printing"]
                                                    ELSE piece[p]]
  <2>1. rows \in [Pieces -> Row]
    <3>1. "printing" \in Rollup!PieceStatus
      BY DEF Rollup!PieceStatus
    <3> QED
      BY <1>1, <3>1, RowFields
  \* Started in their own windows, the prints book nothing new.
  <2>2. \A q \in Pieces : /\ ChecksHold(q, rows[q])
                          /\ rows[q].status \in Busy =>
                               /\ piece[q].status \in Busy
                               /\ rows[q].printer = piece[q].printer
                               /\ rows[q].from = piece[q].from
                               /\ rows[q].to = piece[q].to
    <3> TAKE q \in Pieces
    <3>1. CASE q \in due
      BY <1>1, <3>1 DEF Row, ChecksHold, CoreData, Busy
    <3>2. CASE q \notin due
      BY <1>1, <3>2
    <3> QED
      BY <3>1, <3>2
  <2>3. Put(rows)
    BY <1>2 DEF ClockAdvance
  <2>4. Tables'
    BY <2>1, <2>2, <2>3, PutKeeps DEF BookingInv, Tables
  <2>5. ClockOK'
    BY <1>2 DEF ClockAdvance, BookingInv, ClockOK
  <2> QED
    BY <1>2, <2>4, <2>5 DEF ClockAdvance, BookingInv, Tables, RequestsOK, OrdersOK
<1>3. CASE ClockSelect
  <2> DEFINE due == {p \in Pieces : /\ piece[p].status = "printing"
                                   /\ Windowed(piece[p])
                                   /\ piece[p].to <= now}
  <2>1. {<<p, piece[p].printer>> : p \in due} \subseteq Pieces \X (Printers \cup {None})
    BY <1>1 DEF Row
  <2>2. ClockOK'
    BY <1>3, <2>1 DEF ClockSelect, ClockOK
  <2> QED
    BY <1>3, <2>2 DEF ClockSelect, world, BookingInv, RowsOK, RequestsOK, OrdersOK
<1>4. ASSUME NEW d \in clock.due, ClockComplete(d[1], d[2]) PROVE BookingInv'
  <2> DEFINE p == d[1]
             rows == [piece EXCEPT ![p].status = "done"]
  <2>1. p \in Pieces
    BY DEF BookingInv, ClockOK
  <2>2. rows \in [Pieces -> Row] /\ rows[p].status = "done"
    <3>1. "done" \in Rollup!PieceStatus
      BY DEF Rollup!PieceStatus
    <3>2. [piece[p] EXCEPT !.status = "done"] \in Row /\ [piece[p] EXCEPT !.status = "done"].status = "done"
      BY <1>1, <2>1, <3>1 DEF Row
    <3> QED BY <1>1, <2>1, <3>2
  <2>3. \A q \in Pieces : q # p => rows[q] = piece[q]
    BY <1>1
  <2>4. piece' = rows
    BY <1>4 DEF ClockComplete
  <2> HIDE DEF rows
  <2>5. \A q \in Pieces : /\ ChecksHold(q, rows[q])
                          /\ rows[q].status \in Busy => rows[q] = piece[q]
    BY <1>1, <2>2, <2>3 DEF ChecksHold, Busy
  <2>6. Exclusion(rows)
    BY <2>5 DEF Exclusion, BookingInv
  <2>7. Tables'
    BY <2>2, <2>4, <2>5, <2>6 DEF Tables, RowsOK
  <2>8. OrdersOK'
    BY <1>4, RecomputedType DEF ClockComplete, BookingInv, OrdersOK
  <2>9. ClockOK'
    BY <1>4 DEF ClockComplete, BookingInv, ClockOK
  <2> QED
    BY <1>4, <2>7, <2>8, <2>9 DEF ClockComplete, BookingInv, Tables, RequestsOK
<1> QED
  BY <1>2, <1>3, <1>4 DEF Tick, CompleteOne

----------------------------------------------------------------------------

LEMMA BookingInit == Init => BookingInv
<1> SUFFICES ASSUME Init PROVE BookingInv
  OBVIOUS
<1>1. Fresh \in Row /\ \A p : ChecksHold(p, Fresh)
  BY DEF Fresh, Row, ChecksHold, Busy, Rollup!PieceStatus, PieceAssumption
<1>2. RowsOK
  BY <1>1 DEF Init, RowsOK
<1>3. Sound(Idle)
  BY DEF Sound, Request, Idle, PieceAssumption
<1>4. RequestsOK
  BY <1>3 DEF Init, RequestsOK, Sound
<1>5. ClockOK
  BY DEF Init, ClockOK
<1>6. OrdersOK
  BY DEF Init, OrdersOK, Rollup!OrderStatus
<1>7. Exclusion(piece)
  BY DEF Init, Exclusion, Fresh, Busy
<1> QED
  BY <1>2, <1>4, <1>5, <1>6, <1>7 DEF BookingInv

LEMMA BookingStep == BookingInv /\ [Next]_vars => BookingInv'
<1> SUFFICES ASSUME BookingInv, [Next]_vars PROVE BookingInv'
  OBVIOUS
<1>1. ASSUME NEW w \in Workers, Call(w) PROVE BookingInv'
  BY <1>1, CallStep
<1>2. ASSUME NEW w \in Workers, Proceed(w) PROVE BookingInv'
  BY <1>2, ProceedStep
<1>3. ASSUME NEW w \in Workers, RequestFails(w) PROVE BookingInv'
  BY <1>3, QuietStep DEF RequestFails, world, BookingInv, OrdersOK
<1>4. CASE Tick
  BY <1>4, TickStep
<1>5. CASE TimePasses \/ UNCHANGED vars
  BY <1>5 DEF TimePasses, vars, world, BookingInv, RowsOK, RequestsOK, ClockOK, OrdersOK
<1>6. CASE TickFails
  BY <1>6 DEF TickFails, world, BookingInv, RowsOK, RequestsOK, ClockOK, OrdersOK
<1> QED
  BY <1>1, <1>2, <1>3, <1>4, <1>5, <1>6 DEF Next

\* Rows, requests, sweep and orders stay well formed, no row is past
\* assignment without its core data, and the exclusion constraint holds,
\* however requests and clock interleave or fail.
THEOREM BookingInvariance == Spec => []BookingInv
<1> QED
  BY BookingInit, BookingStep, PTL DEF Spec

\* No two committed windows overlap on one printer: the preflight may be
\* raced and updateOrder has none, the guard on every write is enough.
THEOREM NoDoubleBooking == Spec => []PrinterNeverDoubleBooked
<1>1. BookingInv => PrinterNeverDoubleBooked
  BY DEF BookingInv, Exclusion, PrinterNeverDoubleBooked, Overlap
<1> QED
  BY <1>1, BookingInvariance, PTL

----------------------------------------------------------------------------
(* What is reserved of a stock.                                            *)

BookedOn(s, rows) == {p \in Pieces : rows[p].source = s /\ rows[p].status \in Busy}

LEMMA BookedIsASum == \A s, rows : Booked(s, rows) = Sum(Need, BookedOn(s, rows))
BY DEF Booked, Sum, BookedOn

LEMMA BookedIsNatural ==
  ASSUME NEW s, NEW rows
  PROVE  Booked(s, rows) \in Nat
<1>1. BookedOn(s, rows) \in SUBSET Pieces
  BY DEF BookedOn
<1>2. IsFiniteSet(BookedOn(s, rows)) /\ \A p \in BookedOn(s, rows) : Need[p] \in Nat
  BY <1>1, RowsAreFinite, FS_Subset
<1> QED BY <1>2, BookedIsASum, SumIsNatural

\* No more is on record as reserved than is booked.
ReservedOK == reserved \in [Stocks -> Nat] /\ NothingReservedForNobody

\* The trigger fired for the new rows, and something may then have been taken off.
Retold ==
  /\ reserved' = [s \in Stocks |-> reserved'[s]]
  /\ \A s \in Stocks : \/ reserved'[s] = Recalculated(piece')[s]
                       \/ \E n \in Nat : reserved'[s] = Monus(Recalculated(piece')[s], n)

\* Stock that no written row touches is booked as it was.
LEMMA RetoldKeeps ==
  ASSUME ReservedOK, Retold
  PROVE  ReservedOK'
<1> SUFFICES ASSUME NEW s \in Stocks PROVE reserved'[s] \in Nat /\ reserved'[s] <= Booked(s, piece')
  BY DEF ReservedOK, NothingReservedForNobody, Retold
<1> DEFINE k == Recalculated(piece')[s]
<1>1. Booked(s, piece') \in Nat /\ reserved[s] \in Nat /\ reserved[s] <= Booked(s, piece)
  BY BookedIsNatural DEF ReservedOK, NothingReservedForNobody
<1>2. k \in Nat /\ k <= Booked(s, piece')
  <2>1. CASE k = Booked(s, piece')
    BY <1>1, <2>1
  <2>2. CASE k # Booked(s, piece')
    <3>1. /\ k = reserved[s]
          /\ \A p \in Pieces : s \in {piece[p].source, piece'[p].source} =>
               piece[p].status = piece'[p].status /\ piece[p].source = piece'[p].source
      BY <2>2 DEF Recalculated
    <3>2. BookedOn(s, piece') = BookedOn(s, piece)
      BY <3>1 DEF BookedOn
    <3>3. Booked(s, piece') = Booked(s, piece)
      BY <3>2, BookedIsASum
    <3> QED BY <1>1, <3>1, <3>3
  <2> QED BY <2>1, <2>2
<1> HIDE DEF k
<1>3. ASSUME NEW n \in Nat PROVE Monus(k, n) \in Nat /\ Monus(k, n) <= k
  BY <1>2 DEF Monus
<1> QED BY <1>1, <1>2, <1>3 DEF Retold, k

LEMMA PutRetells ==
  ASSUME NEW rows, Put(rows)
  PROVE  Retold
<1>1. piece' = rows /\ reserved' = Recalculated(rows)
  BY DEF Put
<1>2. Recalculated(rows) = [s \in Stocks |-> Recalculated(rows)[s]]
  BY DEF Recalculated
<1> HIDE DEF Recalculated
<1> QED BY <1>1, <1>2 DEF Retold

LEMMA WriteRetells ==
  ASSUME NEW w, NEW rows, NEW pc, Write(w, rows, pc)
  PROVE  Retold \/ UNCHANGED <<piece, reserved>>
BY PutRetells DEF Write

LEMMA ProceedRetells ==
  ASSUME NEW w \in Workers, Proceed(w)
  PROVE  Retold \/ UNCHANGED <<piece, reserved>>
<1>1. CASE AssignWrite(w) \/ AssignStatus(w) \/ UnassignWrite(w) \/ ScheduleWrite(w) \/ UnscheduleWrite(w)
           \/ StartTx(w) \/ ReprintWrite(w) \/ RestoreWrite(w)
  BY <1>1, WriteRetells DEF AssignWrite, AssignStatus, UnassignWrite, ScheduleWrite, UnscheduleWrite,
                            StartTx, ReprintWrite, RestoreWrite
<1>2. CASE UnassignRelease(w) \/ CompleteWrite(w)
  BY <1>2, PutRetells DEF UnassignRelease, CompleteWrite
<1>3. CASE ReserveTx(w)
  BY <1>3, PutRetells DEF ReserveTx
<1>4. CASE CancelTx(w)
  BY <1>4, PutRetells DEF CancelTx
<1>5. CASE OrderTx(w)
  BY <1>5, PutRetells DEF OrderTx
<1>6. CASE AssignReload(w) \/ ScheduleCheck(w) \/ StartCheck(w) \/ CompleteTx(w) \/ SyncRead(w) \/ SyncWrite(w)
  BY <1>6 DEF AssignReload, ScheduleCheck, StartCheck, CompleteTx, SyncRead, SyncWrite, world
<1> QED
  BY <1>1, <1>2, <1>3, <1>4, <1>5, <1>6 DEF Proceed

LEMMA TickRetells ==
  ASSUME BookingInv, Tick
  PROVE  Retold \/ UNCHANGED <<piece, reserved>>
<1>1. CASE ClockAdvance
  BY <1>1, PutRetells DEF ClockAdvance
<1>2. CASE ClockSelect
  BY <1>2 DEF ClockSelect, world
<1>3. ASSUME NEW d \in clock.due, ClockComplete(d[1], d[2]) PROVE Retold
  <2>1. d[1] \in Pieces /\ Need[d[1]] \in Nat
    BY DEF BookingInv, ClockOK
  <2> DEFINE rows == [piece EXCEPT ![d[1]].status = "done"]
             s == IF d[1] \in Resin THEN None ELSE piece[d[1]].source
  <2>2. /\ piece' = rows
        /\ reserved' = [t \in Stocks |-> IF t = s THEN Monus(Recalculated(rows)[t], Need[d[1]])
                                         ELSE Recalculated(rows)[t]]
    BY <1>3 DEF ClockComplete
  <2> HIDE DEF rows, s
  <2> QED BY <2>1, <2>2 DEF Retold
<1> QED
  BY <1>1, <1>2, <1>3 DEF Tick, CompleteOne

LEMMA ReservedStep ==
  ASSUME BookingInv, ReservedOK, [Next]_vars
  PROVE  ReservedOK'
<1>1. ASSUME NEW w \in Workers, Call(w) PROVE Retold \/ UNCHANGED <<piece, reserved>>
  <2>1. ASSUME NEW p \in Pieces, Release(w, p) PROVE Retold
    BY <2>1, PutRetells DEF Release
  <2>2. CASE \E p \in Pieces : Release(w, p)
    BY <2>1, <2>2
  <2>3. CASE ~\E p \in Pieces : Release(w, p)
    <3> DEFINE Begins == \E r : Begin(w, r)
    <3>1. ASSUME NEW p \in Pieces
          PROVE  /\ \A pr, tank, qty : Assign(w, p, pr, tank, qty) => Begins
                 /\ \A t : (Reserve(w, p, t) => Begins) /\ (Schedule(w, p, t) => Begins)
                         /\ (Complete(w, p, t) => Begins) /\ (Restore(w, p, t) => Begins)
                 /\ Unassign(w, p) \/ Unschedule(w, p) \/ Start(w, p) \/ Reprint(w, p) \/ Cancel(w, p) => Begins
      <4>1. \A pr, tank, qty : Assign(w, p, pr, tank, qty) => Begins
        BY DEF Assign
      <4>2. \A t : /\ Reserve(w, p, t) => Begins
                   /\ Schedule(w, p, t) => Begins
        BY DEF Reserve, Schedule
      <4>3. \A t : /\ Complete(w, p, t) => Begins
                   /\ Restore(w, p, t) => Begins
        BY DEF Complete, Restore
      <4>4. Unassign(w, p) \/ Unschedule(w, p) \/ Start(w, p) => Begins
        BY DEF Unassign, Unschedule, Start
      <4>5. Reprint(w, p) \/ Cancel(w, p) => Begins
        BY DEF Reprint, Cancel
      <4> HIDE DEF Begins
      <4> QED BY <4>1, <4>2, <4>3, <4>4, <4>5
    <3>2. \A o, status : SetOrder(w, o, status) => Begins
      BY DEF SetOrder
    <3> HIDE DEF Begins
    <3>3. Begins
      BY <1>1, <2>3, <3>1, <3>2 DEF Call
    <3>4. \E r : Begin(w, r)
      BY <3>3 DEF Begins
    <3> QED BY <3>4 DEF Begin, world
  <2> QED BY <2>2, <2>3
<1>2. CASE UNCHANGED <<piece, reserved>>
  BY <1>2 DEF ReservedOK, NothingReservedForNobody
<1> QED
  BY <1>1, <1>2, ProceedRetells, TickRetells, RetoldKeeps DEF Next, RequestFails, TimePasses, TickFails, vars, world

\* However requests, clock and failures interleave, no more is on record as
\* reserved of a spool or tank than the booked and running pieces take of it:
\* every write that ends a booking fires the trigger, and what the clock takes
\* off besides only lowers it.
THEOREM NothingStaysReserved == Spec => []NothingReservedForNobody
<1>1. Init => ReservedOK
  <2> SUFFICES ASSUME Init PROVE ReservedOK
    OBVIOUS
  <2>1. \A s : Booked(s, piece) \in Nat
    BY BookedIsNatural
  <2> QED BY <2>1 DEF Init, ReservedOK, NothingReservedForNobody
<1>2. ReservedOK => NothingReservedForNobody
  BY DEF ReservedOK
<1> QED
  BY <1>1, <1>2, ReservedStep, BookingInvariance, PTL DEF Spec

----------------------------------------------------------------------------
(* A cancelled order is reopened by an operator only.                      *)

LEMMA RollupKeepsManual ==
  ASSUME NEW current \in Rollup!Manual, NEW pcs, NEW known \in BOOLEAN
  PROVE  Rollup!Recomputed(current, pcs, known) = current
BY DEF Rollup!Recomputed

LEMMA ReopenStep ==
  ASSUME BookingInv, [Next]_vars, NEW o \in Orders,
         orders[o] = "cancelled", ~\E w \in Workers : OrderTx(w)
  PROVE  orders'[o] = "cancelled"
<1>1. /\ orders \in [Orders -> Rollup!OrderStatus]
      /\ "cancelled" \in Rollup!Manual
      /\ \A d \in clock.due : d[1] \in Pieces
  BY DEF BookingInv, OrdersOK, ClockOK, Rollup!Manual
<1>2. ASSUME NEW w \in Workers, Call(w) PROVE UNCHANGED orders
  BY <1>2 DEF Call, Begin, world, Assign, Reserve, Schedule, Complete, Restore, Release,
              Unassign, Unschedule, Start, Reprint, Cancel, SetOrder
<1>3. ASSUME NEW w \in Workers, Proceed(w) PROVE orders'[o] = "cancelled"
  <2>1. CASE SyncWrite(w)
    BY <1>1, <2>1 DEF SyncWrite
  <2>2. CASE CancelTx(w)
    BY <1>1, <2>2, RollupKeepsManual DEF CancelTx
  <2>3. CASE AssignWrite(w) \/ AssignReload(w) \/ AssignStatus(w) \/ UnassignRelease(w)
             \/ UnassignWrite(w) \/ ReserveTx(w) \/ ScheduleCheck(w) \/ ScheduleWrite(w)
             \/ UnscheduleWrite(w) \/ StartCheck(w) \/ StartTx(w)
    BY <2>3 DEF AssignWrite, AssignReload, AssignStatus, UnassignRelease, UnassignWrite,
                ReserveTx, ScheduleCheck, ScheduleWrite, UnscheduleWrite, StartCheck, StartTx, world
  <2>4. CASE CompleteWrite(w) \/ CompleteTx(w) \/ ReprintWrite(w) \/ RestoreWrite(w) \/ SyncRead(w)
    BY <2>4 DEF CompleteWrite, CompleteTx, ReprintWrite, RestoreWrite, SyncRead, world
  <2>5. ~OrderTx(w)
    OBVIOUS
  <2> QED
    BY <1>3, <2>1, <2>2, <2>3, <2>4, <2>5 DEF Proceed
<1>4. CASE Tick
  <2>1. CASE ClockAdvance \/ ClockSelect
    BY <2>1 DEF ClockAdvance, ClockSelect, world
  <2>2. ASSUME NEW d \in clock.due, ClockComplete(d[1], d[2]) PROVE orders'[o] = "cancelled"
    BY <1>1, <2>2, RollupKeepsManual DEF ClockComplete
  <2> QED
    BY <1>4, <2>1, <2>2 DEF Tick, CompleteOne
<1> QED
  BY <1>2, <1>3, <1>4 DEF Next, RequestFails, TimePasses, TickFails, vars, world

\* No rollup behind a piece's request and no tick revives a cancelled order:
\* every such write keeps a manual status.
THEOREM CancelledStaysCancelled == Spec => OnlyOperatorsReopenOrders
<1>1. BookingInv /\ [Next]_vars =>
        [\A o \in Orders : (orders[o] = "cancelled" /\ orders'[o] # "cancelled")
                              => \E w \in Workers : OrderTx(w)]_vars
  BY ReopenStep
<1> QED
  BY <1>1, BookingInvariance, PTL DEF Spec, OnlyOperatorsReopenOrders

----------------------------------------------------------------------------
(* Requests and sweeps one after another: printer locks, charges, orders.  *)

\* Requests and sweeps take turns and no request is cut short; a sweep may be.
TakingTurns == Serial /\ "request" \notin Faults

Turns == /\ \A v, w \in Workers : req[v] # Idle /\ req[w] # Idle => v = w
         /\ clock.pc # "idle" => \A w \in Workers : req[w] = Idle
         /\ clock.pc # "complete" => clock.due = {}

\* r is the request under way, Idle when none is.
UnderWay(r) == \/ r # Idle /\ \E w \in Workers : req[w] = r
               \/ r = Idle /\ \A w \in Workers : req[w] = Idle

Settles(r, p) == r.op = "complete" /\ r.pc = "tx" /\ r.p = p
Tells(r, o)   == r.o = o /\ r.pc \in {"sync", "settle"}

Early == {"pending", "assigned", "ready", "scheduled"}

\* What a request found when it was let in is still so when it writes.
Grounded(r, row) ==
  /\ r.op \notin {"none", "order"} => r.o = OrderOf[r.p]
  /\ r.op = "assign" => row.status \in Early \ {"scheduled"}
  /\ r.op = "assign" /\ r.pc = "status" => r.to \in Early
  /\ r.op = "unassign" => row.status \in Early
  /\ r.op = "reserve" => row.status \in Early \cup {"cancelled"}
  /\ r.op \in {"schedule", "unschedule", "start"} => row.status \in Early
  /\ r.op = "complete" => \/ r.pc = "write" /\ row.status \in Busy
                          \/ r.pc = "tx" /\ row.status \in {"done", "failed"}
  /\ r.op = "reprint" => /\ row.status = "failed"
                         /\ r.to = "ready" => CoreData(r.p, row)
                         /\ r.to = "assigned" => row.printer # None
  /\ r.op = "restore" => row.status = "cancelled"
  /\ r.op \in {"unschedule", "reprint", "restore"} => r.to \in Early \ {"scheduled"}
  /\ r.op = "cancel" => row.status \notin {"done", "cancelled"}
  /\ r.op \in {"start", "complete", "cancel"} => r.printer = row.printer

\* A printer in use is held by its print, or by the print being settled.
LockFine(r, rows, held) ==
  /\ held \in [Printers -> Pieces \cup {None}]
  /\ \A pr \in Printers : held[pr] # None =>
       /\ rows[held[pr]].printer = pr
       /\ rows[held[pr]].status = "printing" \/ Settles(r, held[pr])

\* A filament print is charged once it has ended, and never before.
ChargedFine(r, rows, times) ==
  /\ times \in [Pieces -> Nat]
  /\ \A p \in Pieces \ Resin :
       /\ rows[p].status \in Early \cup {"printing"} => times[p] = 0
       /\ rows[p].status \in {"done", "failed"} =>
            rows[p].source = None \/ times[p] = IF Settles(r, p) THEN 0 ELSE 1

\* All that is left of order o is done.
AllDone(o, rows) ==
  /\ \E p \in Pieces : OrderOf[p] = o /\ rows[p].status # "cancelled"
  /\ \A p \in Pieces : OrderOf[p] = o => rows[p].status \in {"done", "cancelled"}

\* An order called completed is, or is about to be told that it is not.
OrdersFine(r, rows, called) ==
  /\ \A o \in Orders : called[o] = "completed" => AllDone(o, rows) \/ Tells(r, o)
  /\ r.pc = "settle" /\ r.to = "completed" => AllDone(r.o, rows)

Fine(r, rows, held, times, called) ==
  LockFine(r, rows, held) /\ ChargedFine(r, rows, times) /\ OrdersFine(r, rows, called)

DueOK == \A d \in clock.due : piece[d[1]].status = "printing" /\ piece[d[1]].printer = d[2]

SerialInv ==
  /\ Turns /\ DueOK
  /\ \A r \in Request : UnderWay(r) => /\ Grounded(r, piece[r.p])
                                       /\ Fine(r, piece, lock, charged, orders)

----------------------------------------------------------------------------
(* What the rollup says of an order.                                       *)

LEMMA ProducedIsAllDone ==
  ASSUME NEW o, NEW rows
  PROVE  Rollup!Produced(RowsOf(o, rows)) <=> AllDone(o, rows)
<1> DEFINE pcs == RowsOf(o, rows)
<1>1. /\ DOMAIN pcs = {q \in Pieces : OrderOf[q] = o}
      /\ \A p \in DOMAIN pcs : pcs[p].status = rows[p].status
  BY DEF RowsOf
<1> HIDE DEF pcs
<1>2. Rollup!Produced(pcs) <=> AllDone(o, rows)
  BY <1>1 DEF Rollup!Produced, Rollup!Active, AllDone
<1> QED BY <1>2 DEF pcs

\* Only a produced order becomes completed.
LEMMA CompletedByRollup ==
  ASSUME NEW o, NEW rows, NEW current
  PROVE  /\ Rollup!Target(RowsOf(o, rows)) = "completed" => AllDone(o, rows)
         /\ Rollup!Recomputed(current, RowsOf(o, rows), TRUE) = "completed" => AllDone(o, rows)
<1> DEFINE pcs == RowsOf(o, rows)
<1>1. Rollup!Produced(pcs) <=> AllDone(o, rows)
  BY ProducedIsAllDone
<1> HIDE DEF pcs
<1>2. Rollup!Target(pcs) = "completed" => AllDone(o, rows)
  BY <1>1 DEF Rollup!Target
<1>3. Rollup!Recomputed(current, pcs, TRUE) = "completed" =>
        \/ current = "completed" /\ (Rollup!KeptConfirmed(current, pcs) \/ current \in Rollup!Manual)
        \/ Rollup!Target(pcs) = "completed"
  BY DEF Rollup!Recomputed, Rollup!Clamped
<1>4. current = "completed" => ~Rollup!KeptConfirmed(current, pcs) /\ current \notin Rollup!Manual
  BY DEF Rollup!KeptConfirmed, Rollup!Manual
<1> QED BY <1>2, <1>3, <1>4 DEF pcs

----------------------------------------------------------------------------
(* What a change of one row and of the request leaves right.               *)

\* Neither settling a print nor telling an order.
Between(r) == ~(r.op = "complete" /\ r.pc = "tx") /\ r.pc \notin {"sync", "settle"}

\* A request that goes on to q without touching a row.
LEMMA FineUntouched ==
  ASSUME NEW r, NEW q, NEW rows, NEW held, NEW times, NEW called,
         Fine(r, rows, held, times, called), Between(r), Between(q) \/ (q.op = "none" /\ q.pc = "sync")
  PROVE  Fine(q, rows, held, times, called)
<1>1. LockFine(q, rows, held)
  BY DEF Fine, LockFine, Between, Settles
<1>2. ChargedFine(q, rows, times)
  <2>1. \A p : ~Settles(r, p) /\ ~Settles(q, p)
    BY DEF Between, Settles
  <2> QED BY <2>1 DEF Fine, ChargedFine
<1>3. OrdersFine(q, rows, called)
  BY DEF Fine, OrdersFine, Between, Tells
<1> QED BY <1>1, <1>2, <1>3 DEF Fine

\* A row that is not printing changes: no printer is held by it.
LEMMA LockUnprinted ==
  ASSUME NEW r, NEW q, NEW rows, NEW held, NEW p \in Pieces, NEW new, LockFine(r, rows, held),
         ~Settles(r, p), rows[p].status # "printing" \/ (new[p].status = "printing" /\ new[p].printer = rows[p].printer),
         \A x : Settles(r, x) => Settles(q, x), \A x \in Pieces \ {p} : new[x] = rows[x]
  PROVE  LockFine(q, new, held)
<1> SUFFICES ASSUME NEW pr \in Printers, held[pr] # None
             PROVE  new[held[pr]].printer = pr /\ (new[held[pr]].status = "printing" \/ Settles(q, held[pr]))
  BY DEF LockFine
<1>1. /\ held[pr] \in Pieces /\ rows[held[pr]].printer = pr
      /\ rows[held[pr]].status = "printing" \/ Settles(r, held[pr])
  BY DEF LockFine
<1>2. CASE held[pr] = p
  BY <1>1, <1>2
<1>3. CASE held[pr] # p
  BY <1>1, <1>3
<1> QED BY <1>2, <1>3

\* The charges of a row that has not ended, or is not ended by this change.
LEMMA ChargedChanged ==
  ASSUME NEW r, NEW q, NEW rows, NEW times, NEW p \in Pieces, NEW new, ChargedFine(r, rows, times),
         \A x : ~Settles(r, x), \A x : ~Settles(q, x), \A x \in Pieces \ {p} : new[x] = rows[x],
         \/ new[p].status = "cancelled"
         \/ new[p].status \in Early \cup {"printing"} /\ rows[p].status \in Early \cup {"printing"}
         \/ new[p].status = rows[p].status /\ new[p].source \in {rows[p].source, None}
  PROVE  ChargedFine(q, new, times)
<1> SUFFICES ASSUME NEW x \in Pieces \ Resin
             PROVE  /\ new[x].status \in Early \cup {"printing"} => times[x] = 0
                    /\ new[x].status \in {"done", "failed"} => new[x].source = None \/ times[x] = 1
  BY DEF ChargedFine
<1>1. /\ rows[x].status \in Early \cup {"printing"} => times[x] = 0
      /\ rows[x].status \in {"done", "failed"} => rows[x].source = None \/ times[x] = 1
  BY DEF ChargedFine
<1>2. CASE x = p
  BY <1>1, <1>2 DEF Early
<1>3. CASE x # p
  BY <1>1, <1>3
<1> QED BY <1>2, <1>3

\* An order with a piece that is neither done nor cancelled is not completed.
LEMMA OrdersChanged ==
  ASSUME NEW r, NEW q, NEW rows, NEW called, NEW p \in Pieces, NEW new, OrdersFine(r, rows, called),
         r.pc \notin {"sync", "settle"}, q.pc # "settle", \A x \in Pieces \ {p} : new[x] = rows[x],
         \/ rows[p].status \notin {"done", "cancelled"}
         \/ new[p].status = rows[p].status
         \/ Tells(q, OrderOf[p])
  PROVE  OrdersFine(q, new, called)
<1> SUFFICES ASSUME NEW o \in Orders, called[o] = "completed" PROVE AllDone(o, new) \/ Tells(q, o)
  BY DEF OrdersFine
<1>1. AllDone(o, rows)
  BY DEF OrdersFine, Tells
<1>2. CASE OrderOf[p] # o
  BY <1>1, <1>2 DEF AllDone
<1>3. CASE OrderOf[p] = o
  BY <1>1, <1>3 DEF AllDone
<1> QED BY <1>2, <1>3

\* Together: request r goes on as q, and the row of p from old to new.
Harmless(r, q, p, old, new) ==
  /\ Between(r)
  /\ Between(q) \/ (q.op = "none" /\ q.pc = "sync")
  /\ \/ old.status # "printing"
     \/ new.status = "printing" /\ new.printer = old.printer
  /\ \/ new.status \in Early \cup {"printing"} /\ old.status \in Early \cup {"printing"}
     \/ new.status = old.status /\ new.source \in {old.source, None}
     \/ new.status = "cancelled"
  /\ \/ old.status \notin {"done", "cancelled"}
     \/ new.status = old.status
     \/ Tells(q, OrderOf[p])

LEMMA FineChanged ==
  ASSUME NEW r, NEW q, NEW rows, NEW held, NEW times, NEW called, NEW p \in Pieces, NEW new,
         Fine(r, rows, held, times, called), Harmless(r, q, p, rows[p], new[p]),
         \A x \in Pieces \ {p} : new[x] = rows[x]
  PROVE  Fine(q, new, held, times, called)
<1>1. \A x : ~Settles(r, x) /\ ~Settles(q, x)
  BY DEF Harmless, Between, Settles
<1>2. r.pc \notin {"sync", "settle"} /\ q.pc # "settle"
  BY DEF Harmless, Between
<1>3. LockFine(q, new, held)
  BY <1>1, LockUnprinted DEF Fine, Harmless
<1>4. ChargedFine(q, new, times)
  BY <1>1, ChargedChanged DEF Fine, Harmless
<1>5. OrdersFine(q, new, called)
  BY <1>2, OrdersChanged DEF Fine, Harmless
<1> QED BY <1>3, <1>4, <1>5 DEF Fine

----------------------------------------------------------------------------
(* Steps of a request that has its turn.                                   *)

\* The turn of w: it is under way, or begins when nothing is.
HasTurn(w) == UnderWay(req[w]) /\ clock.pc = "idle"

LEMMA TurnOf ==
  ASSUME SerialInv, NEW w \in Workers, req[w].pc # "idle"
  PROVE  HasTurn(w)
BY DEF SerialInv, Turns, HasTurn, UnderWay, Idle

\* Everyone else is idle and the clock sleeps, before and after.
LEMMA HandedOn ==
  ASSUME BookingInv, SerialInv, NEW w \in Workers, HasTurn(w), clock' = clock,
         NEW q, req' = [req EXCEPT ![w] = q],
         Grounded(q, piece'[q.p]), Fine(q, piece', lock', charged', orders')
  PROVE  SerialInv'
<1>1. \A v \in Workers \ {w} : req[v] = Idle
  BY DEF HasTurn, UnderWay, SerialInv, Turns
<1>2. \A v \in Workers \ {w} : req'[v] = Idle
  BY <1>1 DEF BookingInv, RequestsOK
<1>3. req'[w] = q
  BY DEF BookingInv, RequestsOK
<1>4. clock.due = {}
  BY DEF HasTurn, SerialInv, Turns
<1>5. Turns' /\ DueOK'
  BY <1>2, <1>4 DEF Turns, DueOK, HasTurn
<1>6. ASSUME NEW r, UnderWay(r)' PROVE r = q
  <2>1. UnderWay(r)' <=> \/ r # Idle /\ \E v \in Workers : req'[v] = r
                         \/ r = Idle /\ \A v \in Workers : req'[v] = Idle
    BY DEF UnderWay
  <2> QED BY <1>2, <1>3, <1>6, <2>1
<1>7. \A r \in Request : UnderWay(r)' => Grounded(r, piece'[r.p]) /\ Fine(r, piece', lock', charged', orders')
  BY <1>6
<1> QED BY <1>5, <1>7 DEF SerialInv, Grounded, Fine, LockFine, ChargedFine, OrdersFine, AllDone, Settles, Tells

\* What follows in a request.
Then(r, pc) == IF pc = "idle" THEN Idle
               ELSE IF pc = "sync" THEN [Idle EXCEPT !.pc = pc, !.o = r.o]
               ELSE [r EXCEPT !.pc = pc]

LEMMA GotoThen ==
  ASSUME RequestsOK, NEW w \in Workers, NEW pc, Goto(w, pc)
  PROVE  req' = [req EXCEPT ![w] = Then(req[w], pc)]
BY DEF Goto, Then, RequestsOK

LEMMA ThenFields ==
  ASSUME NEW r \in Request, NEW pc
  PROVE  /\ pc = "idle" => Then(r, pc) = Idle
         /\ pc = "sync" => LET q == Then(r, pc) IN q.pc = "sync" /\ q.op = "none" /\ q.o = r.o
         /\ pc \notin {"idle", "sync"} =>
              LET q == Then(r, pc) IN
              q.pc = pc /\ q.op = r.op /\ q.p = r.p /\ q.o = r.o /\ q.printer = r.printer /\ q.to = r.to
BY DEF Then, Idle, Request

\* An idle request, or one that tells an order, is grounded.
LEMMA GroundedEnds ==
  ASSUME NEW r \in Request, NEW pc \in {"idle", "sync"}, NEW row
  PROVE  Grounded(Then(r, pc), row)
<1> DEFINE q == Then(r, pc)
<1>1. q.op = "none"
  BY ThenFields DEF Idle
<1> HIDE DEF q
<1>2. Grounded(q, row)
  BY <1>1 DEF Grounded
<1> QED BY <1>2 DEF q

\* A guarded write ends the request without effect, or goes on.
LEMMA WriteCases ==
  ASSUME RequestsOK, NEW w \in Workers, NEW rows, NEW pc, Write(w, rows, pc)
  PROVE  \/ piece' = rows /\ req' = [req EXCEPT ![w] = Then(req[w], pc)] /\ Legal(rows)
         \/ piece' = piece /\ req' = [req EXCEPT ![w] = Then(req[w], "idle")] /\ ~Legal(rows)
BY GotoThen DEF Write, Put

LEMMA BetweenEnds ==
  ASSUME NEW r \in Request
  PROVE  /\ Between(Then(r, "idle"))
         /\ Then(r, "sync").op = "none" /\ Then(r, "sync").pc = "sync"
<1>1. Then(r, "idle") = Idle /\ Then(r, "sync").op = "none" /\ Then(r, "sync").pc = "sync"
  BY ThenFields
<1> QED BY <1>1 DEF Between, Idle

\* A write of one row by a request that settles nothing.
LEMMA RowWritten ==
  ASSUME BookingInv, SerialInv, NEW w \in Workers, HasTurn(w), clock' = clock,
         NEW p \in Pieces, NEW new \in Row, NEW pc, Write(w, [piece EXCEPT ![p] = new], pc),
         Harmless(req[w], Then(req[w], pc), p, piece[p], new),
         Grounded(Then(req[w], pc), [piece EXCEPT ![p] = new][Then(req[w], pc).p]),
         lock' = lock, charged' = charged, orders' = orders
  PROVE  SerialInv'
<1> DEFINE r == req[w]
           rows == [piece EXCEPT ![p] = new]
           q == Then(r, pc)
<1>0. RequestsOK /\ piece \in [Pieces -> Row]
  BY DEF BookingInv, RowsOK
<1>1. r \in Request /\ UnderWay(r)
  BY <1>0 DEF RequestsOK, HasTurn
<1>2. Fine(r, piece, lock, charged, orders)
  BY <1>1 DEF SerialInv
<1>3. rows[p] = new /\ \A x \in Pieces \ {p} : rows[x] = piece[x]
  BY <1>0
<1>4. CASE piece' = rows /\ req' = [req EXCEPT ![w] = q]
  <2>1. Harmless(r, q, p, piece[p], rows[p])
    BY <1>3
  <2>2. Grounded(q, rows[q.p])
    OBVIOUS
  <2> HIDE DEF q, r, rows
  <2>3. Fine(q, rows, lock, charged, orders)
    BY <1>2, <1>3, <2>1, FineChanged, ZenonT(60)
  <2> QED
    BY <1>4, <2>2, <2>3, HandedOn
<1>5. CASE piece' = piece /\ req' = [req EXCEPT ![w] = Then(r, "idle")]
  <2>1. Between(r)
    BY DEF Harmless
  <2>2. Fine(Then(r, "idle"), piece, lock, charged, orders)
    BY <1>1, <1>2, <2>1, BetweenEnds, FineUntouched
  <2>3. Grounded(Then(r, "idle"), piece[Then(r, "idle").p])
    BY <1>1, GroundedEnds
  <2> QED
    BY <1>5, <2>2, <2>3, HandedOn
<1> QED
  BY <1>0, <1>4, <1>5, WriteCases

----------------------------------------------------------------------------
(* The requests, one after another.                                        *)

\* A request that goes on, or ends, and changes nothing.
LEMMA Passed ==
  ASSUME BookingInv, SerialInv, NEW w \in Workers, HasTurn(w), clock' = clock,
         piece' = piece, lock' = lock, charged' = charged, orders' = orders,
         NEW q, req' = [req EXCEPT ![w] = q], Between(req[w]),
         Between(q) \/ (q.op = "none" /\ q.pc = "sync"), Grounded(q, piece[q.p])
  PROVE  SerialInv'
<1>1. req[w] \in Request /\ UnderWay(req[w])
  BY DEF BookingInv, RequestsOK, HasTurn
<1>2. Fine(req[w], piece, lock, charged, orders)
  BY <1>1 DEF SerialInv
<1>3. Fine(q, piece, lock, charged, orders)
  BY <1>2, FineUntouched
<1> QED BY <1>3, HandedOn

\* What holds when request w goes on.
LEMMA Taken ==
  ASSUME BookingInv, SerialInv, NEW w \in Workers, req[w].pc # "idle"
  PROVE  /\ HasTurn(w) /\ RequestsOK /\ req[w] \in Request /\ Sound(req[w])
         /\ Grounded(req[w], piece[req[w].p]) /\ Fine(req[w], piece, lock, charged, orders)
         /\ req[w].op \notin {"none", "order"} => /\ req[w].p \in Pieces /\ piece[req[w].p] \in Row
                                                  /\ ChecksHold(req[w].p, piece[req[w].p])
         /\ piece \in [Pieces -> Row]
<1>1. HasTurn(w)
  BY TurnOf
<1>2. RequestsOK /\ req[w] \in Request /\ Sound(req[w])
  BY DEF BookingInv, RequestsOK
<1>3. Grounded(req[w], piece[req[w].p]) /\ Fine(req[w], piece, lock, charged, orders)
  BY <1>1, <1>2 DEF SerialInv, HasTurn
<1>4. RowsOK
  BY DEF BookingInv
<1> QED BY <1>1, <1>2, <1>3, <1>4 DEF Sound, RowsOK

\* The row of the request, written with another status, as it goes on.
LEMMA AssignSerially ==
  ASSUME BookingInv, SerialInv, NEW w \in Workers,
         AssignWrite(w) \/ AssignReload(w) \/ AssignStatus(w)
  PROVE  SerialInv'
<1> DEFINE r == req[w]
           p == r.p
<1>0. r.op = "assign" /\ r.pc \in {"write", "reload", "status"}
  BY DEF AssignWrite, AssignReload, AssignStatus, At
<1>1. /\ HasTurn(w) /\ RequestsOK /\ r \in Request /\ Sound(r) /\ Grounded(r, piece[p])
      /\ p \in Pieces /\ piece[p] \in Row /\ piece \in [Pieces -> Row]
  BY <1>0, Taken
<1>2. Between(r)
  BY <1>0 DEF Between
<1>3. piece[p].status \in Early
  BY <1>0, <1>1 DEF Grounded
<1>4. CASE AssignWrite(w)
  <2> DEFINE new == Assigned(piece[p], r)
             q == Then(r, "reload")
  <2>1. new \in Row
    BY <1>1, AssignedRow
  <2>2. new.status = piece[p].status
    BY <1>1 DEF Assigned, Row
  <2>3. q.pc = "reload" /\ q.op = "assign" /\ q.p = p /\ q.o = r.o
    BY <1>0, <1>1, ThenFields
  <2>4. [piece EXCEPT ![p] = new][p] = new
    BY <1>1
  <2> HIDE DEF new, q
  <2>5. Harmless(r, q, p, piece[p], new)
    BY <1>2, <1>3, <2>2, <2>3 DEF Harmless, Between, Early
  <2>6. Grounded(q, [piece EXCEPT ![p] = new][q.p])
    BY <1>0, <1>1, <2>2, <2>3, <2>4 DEF Grounded
  <2>7. Write(w, [piece EXCEPT ![p] = new], "reload")
    BY <1>4 DEF AssignWrite, new
  <2> QED
    BY <1>1, <1>4, <2>1, <2>5, <2>6, <2>7, RowWritten DEF AssignWrite, q
<1>5. CASE AssignReload(w)
  <2>1. CASE Goto(w, "idle")
    <3>1. req' = [req EXCEPT ![w] = Then(r, "idle")]
      BY <1>1, <2>1, GotoThen
    <3>2. Between(Then(r, "idle")) /\ Grounded(Then(r, "idle"), piece[Then(r, "idle").p])
      BY <1>1, BetweenEnds, GroundedEnds
    <3> QED BY <1>1, <1>2, <1>5, <3>1, <3>2, Passed DEF AssignReload, world
  <2>2. ASSUME NEW to \in {"ready", "assigned"}, req' = [req EXCEPT ![w].pc = "status", ![w].to = to]
        PROVE  SerialInv'
    <3> DEFINE q == [r EXCEPT !.pc = "status", !.to = to]
    <3>1. q.pc = "status" /\ q.to = to /\ q.op = "assign" /\ q.p = p /\ q.o = r.o
      BY <1>0, <1>1 DEF Request
    <3>2. req' = [req EXCEPT ![w] = q]
      BY <1>1, <2>2 DEF RequestsOK
    <3> HIDE DEF q
    <3>3. Between(q) /\ Grounded(q, piece[q.p])
      BY <1>0, <1>1, <3>1 DEF Between, Grounded, Early
    <3> QED BY <1>1, <1>2, <1>5, <3>2, <3>3, Passed DEF AssignReload, world
  <2> QED
    BY <1>5, <2>1, <2>2 DEF AssignReload
<1>6. CASE AssignStatus(w)
  <2> DEFINE new == [piece[p] EXCEPT !.status = r.to]
             q == Then(r, "idle")
  <2>1. r.to \in Early /\ r.to \in Rollup!PieceStatus
    BY <1>0, <1>1, <1>6 DEF AssignStatus, At, Grounded, Sound
  <2>2. new \in Row /\ new.status = r.to
    BY <1>1, <2>1 DEF Row
  <2>3. Between(q) /\ Grounded(q, [piece EXCEPT ![p] = new][q.p])
    BY <1>1, BetweenEnds, GroundedEnds
  <2>4. Write(w, [piece EXCEPT ![p] = new], "idle")
    BY <1>1, <1>6 DEF AssignStatus
  <2> HIDE DEF new
  <2>5. Harmless(r, q, p, piece[p], new)
    BY <1>2, <1>3, <2>1, <2>2, <2>3 DEF Harmless, Early
  <2> QED
    BY <1>1, <1>6, <2>2, <2>3, <2>4, <2>5, RowWritten DEF AssignStatus
<1> QED
  BY <1>4, <1>5, <1>6

\* An unguarded write of one row by a request that settles nothing.
LEMMA RowPut ==
  ASSUME BookingInv, SerialInv, NEW w \in Workers, HasTurn(w), clock' = clock,
         NEW p \in Pieces, NEW new \in Row, NEW pc, Put([piece EXCEPT ![p] = new]), Goto(w, pc),
         Harmless(req[w], Then(req[w], pc), p, piece[p], new),
         Grounded(Then(req[w], pc), [piece EXCEPT ![p] = new][Then(req[w], pc).p]),
         lock' = lock, charged' = charged, orders' = orders
  PROVE  SerialInv'
<1> DEFINE r == req[w]
           rows == [piece EXCEPT ![p] = new]
           q == Then(r, pc)
<1>0. RequestsOK /\ piece \in [Pieces -> Row]
  BY DEF BookingInv, RowsOK
<1>1. r \in Request /\ UnderWay(r)
  BY <1>0 DEF RequestsOK, HasTurn
<1>2. Fine(r, piece, lock, charged, orders)
  BY <1>1 DEF SerialInv
<1>3. rows[p] = new /\ \A x \in Pieces \ {p} : rows[x] = piece[x]
  BY <1>0
<1>4. req' = [req EXCEPT ![w] = q] /\ piece' = rows
  BY <1>0, GotoThen DEF Put
<1>5. Harmless(r, q, p, piece[p], rows[p]) /\ Grounded(q, rows[q.p])
  BY <1>3
<1>6. CASE piece' = rows /\ req' = [req EXCEPT ![w] = q]
  <2> HIDE DEF q, r, rows
  <2>1. Fine(q, rows, lock, charged, orders)
    BY <1>2, <1>3, <1>5, FineChanged, ZenonT(60)
  <2> QED
    BY <1>5, <1>6, <2>1, HandedOn
<1> QED
  BY <1>4, <1>6

LEMMA UnassignSerially ==
  ASSUME BookingInv, SerialInv, NEW w \in Workers, UnassignRelease(w) \/ UnassignWrite(w)
  PROVE  SerialInv'
<1> DEFINE r == req[w]
           p == r.p
<1>0. r.op = "unassign" /\ r.pc \in {"release", "write"}
  BY DEF UnassignRelease, UnassignWrite, At
<1>1. /\ HasTurn(w) /\ RequestsOK /\ r \in Request /\ Sound(r) /\ Grounded(r, piece[p])
      /\ p \in Pieces /\ piece[p] \in Row /\ piece \in [Pieces -> Row]
  BY <1>0, Taken
<1>2. Between(r)
  BY <1>0 DEF Between
<1>3. piece[p].status \in Early
  BY <1>0, <1>1 DEF Grounded
<1>4. CASE UnassignRelease(w)
  <2> DEFINE new == WithoutSpool(p, piece[p])
             q == Then(r, "write")
  <2>1. new \in Row /\ new.status = piece[p].status
    BY <1>1, RowFields DEF WithoutSpool, Row
  <2>2. q.pc = "write" /\ q.op = "unassign" /\ q.p = p /\ q.o = r.o
    BY <1>0, <1>1, ThenFields
  <2>3. Put([piece EXCEPT ![p] = new]) /\ Goto(w, "write")
    BY <1>1, <1>4 DEF UnassignRelease
  <2>4. [piece EXCEPT ![p] = new][p] = new
    BY <1>1
  <2> HIDE DEF new, q
  <2>5. Harmless(r, q, p, piece[p], new)
    BY <1>2, <1>3, <2>1, <2>2 DEF Harmless, Between, Early
  <2>6. Grounded(q, [piece EXCEPT ![p] = new][q.p])
    BY <1>0, <1>1, <2>1, <2>2, <2>4 DEF Grounded
  <2> QED
    BY <1>1, <1>4, <2>1, <2>3, <2>5, <2>6, RowPut DEF UnassignRelease, q
<1>5. CASE UnassignWrite(w)
  <2> DEFINE new == [piece[p] EXCEPT !.printer = None, !.status = "pending"]
             q == Then(r, "sync")
  <2>1. new \in Row /\ new.status = "pending"
    BY <1>1 DEF Row, Rollup!PieceStatus
  <2>2. q.op = "none" /\ q.pc = "sync" /\ Grounded(q, [piece EXCEPT ![p] = new][q.p])
    BY <1>1, BetweenEnds, GroundedEnds
  <2>3. Write(w, [piece EXCEPT ![p] = new], "sync")
    BY <1>1, <1>5 DEF UnassignWrite
  <2> HIDE DEF new
  <2>4. Harmless(r, q, p, piece[p], new)
    BY <1>2, <1>3, <2>1, <2>2 DEF Harmless, Early
  <2> QED
    BY <1>1, <1>5, <2>1, <2>2, <2>3, <2>4, RowWritten DEF UnassignWrite
<1> QED
  BY <1>4, <1>5

LEMMA ReserveSerially ==
  ASSUME BookingInv, SerialInv, NEW w \in Workers, ReserveTx(w)
  PROVE  SerialInv'
<1> DEFINE r == req[w]
           p == r.p
           new == [piece[p] EXCEPT !.source = r.stock]
           q == Then(r, "idle")
<1>0. r.op = "reserve" /\ r.pc = "tx"
  BY DEF ReserveTx, At
<1>1. /\ HasTurn(w) /\ RequestsOK /\ r \in Request /\ Sound(r) /\ Grounded(r, piece[p])
      /\ p \in Pieces /\ piece[p] \in Row /\ piece \in [Pieces -> Row]
  BY <1>0, Taken
<1>2. Between(r)
  BY <1>0 DEF Between
<1>3. piece[p].status \in Early \cup {"cancelled"}
  BY <1>0, <1>1 DEF Grounded
<1>4. Between(q) /\ Grounded(q, [piece EXCEPT ![p] = new][q.p]) /\ Grounded(q, piece[q.p])
  BY <1>1, BetweenEnds, GroundedEnds
<1>5. Goto(w, "idle") /\ req' = [req EXCEPT ![w] = q]
  BY <1>1, GotoThen DEF ReserveTx
<1>6. CASE Put([piece EXCEPT ![p].source = r.stock])
  <2>1. new \in Row /\ new.status = piece[p].status
    BY <1>0, <1>1 DEF Row, Sound
  <2>2. Put([piece EXCEPT ![p] = new])
    BY <1>1, <1>6
  <2> HIDE DEF new, q
  <2>3. Harmless(r, q, p, piece[p], new)
    BY <1>2, <1>3, <1>4, <2>1 DEF Harmless, Early
  <2> QED
    BY <1>1, <1>4, <1>5, <2>1, <2>2, <2>3, RowPut DEF ReserveTx, q
<1>7. CASE piece' = piece
  BY <1>1, <1>2, <1>4, <1>5, <1>7, Passed DEF ReserveTx
<1> QED
  BY <1>6, <1>7 DEF ReserveTx

\* The conflict queries change nothing.
LEMMA CheckSerially ==
  ASSUME BookingInv, SerialInv, NEW w \in Workers, ScheduleCheck(w) \/ StartCheck(w)
  PROVE  SerialInv'
<1> DEFINE r == req[w]
           p == r.p
<1>0. r.op \in {"schedule", "start"} /\ r.pc = "check"
  BY DEF ScheduleCheck, StartCheck, At
<1>1. /\ HasTurn(w) /\ RequestsOK /\ r \in Request /\ Sound(r) /\ Grounded(r, piece[p])
      /\ p \in Pieces /\ piece[p] \in Row /\ piece \in [Pieces -> Row]
  BY <1>0, Taken
<1>2. Between(r)
  BY <1>0 DEF Between
<1>3. PICK pc \in {"idle", "write", "tx"} : Goto(w, pc)
  BY DEF ScheduleCheck, StartCheck
<1> DEFINE q == Then(r, pc)
<1>4. req' = [req EXCEPT ![w] = q]
  BY <1>1, <1>3, GotoThen
<1>5. Between(q) /\ Grounded(q, piece[q.p])
  <2>1. CASE pc = "idle"
    BY <1>1, <2>1, BetweenEnds, GroundedEnds
  <2>2. CASE pc # "idle"
    <3>1. q.pc = pc /\ q.op = r.op /\ q.p = p /\ q.o = r.o /\ q.printer = r.printer
      BY <1>1, <2>2, ThenFields
    <3> HIDE DEF q
    <3>2. Between(q)
      BY <1>0, <3>1 DEF Between
    <3>3. Grounded(q, piece[q.p])
      BY <1>0, <1>1, <3>1 DEF Grounded
    <3> QED BY <3>2, <3>3
  <2> QED BY <2>1, <2>2
<1> QED
  BY <1>1, <1>2, <1>4, <1>5, Passed DEF ScheduleCheck, StartCheck, world

LEMMA ScheduleSerially ==
  ASSUME BookingInv, SerialInv, NEW w \in Workers, ScheduleWrite(w) \/ UnscheduleWrite(w)
  PROVE  SerialInv'
<1> DEFINE r == req[w]
           p == r.p
           q == Then(r, "sync")
<1>0. r.op \in {"schedule", "unschedule"} /\ r.pc = "write"
  BY DEF ScheduleWrite, UnscheduleWrite, At
<1>1. /\ HasTurn(w) /\ RequestsOK /\ r \in Request /\ Sound(r) /\ Grounded(r, piece[p])
      /\ p \in Pieces /\ piece[p] \in Row /\ piece \in [Pieces -> Row]
  BY <1>0, Taken
<1>2. Between(r)
  BY <1>0 DEF Between
<1>3. piece[p].status \in Early
  BY <1>0, <1>1 DEF Grounded
<1>4. q.op = "none" /\ q.pc = "sync" /\ \A row : Grounded(q, row)
  BY <1>1, BetweenEnds, GroundedEnds
<1>5. ASSUME NEW new \in Row, new.status \in Early, Write(w, [piece EXCEPT ![p] = new], "sync")
      PROVE  SerialInv'
  <2>1. Harmless(r, q, p, piece[p], new)
    BY <1>2, <1>3, <1>4, <1>5 DEF Harmless, Early
  <2> QED
    BY <1>1, <1>4, <1>5, <2>1, RowWritten DEF ScheduleWrite, UnscheduleWrite
<1>6. CASE ScheduleWrite(w)
  <2> DEFINE new == [piece[p] EXCEPT !.status = "scheduled", !.from = r.at, !.to = r.at + Minutes[p]]
  <2>1. r.at \in 0..MaxTime /\ r.at + Minutes[p] \in 0..MaxTime
    BY <1>1, <1>6 DEF ScheduleWrite, At, Sound, Request
  <2>2. new \in Row /\ new.status = "scheduled"
    BY <1>1, <2>1 DEF Row, Rollup!PieceStatus
  <2>3. Write(w, [piece EXCEPT ![p] = new], "sync")
    BY <1>1, <1>6 DEF ScheduleWrite, ScheduledRows
  <2> QED BY <1>5, <2>2, <2>3 DEF Early
<1>7. CASE UnscheduleWrite(w)
  <2> DEFINE new == [Unbooked(piece[p]) EXCEPT !.status = r.to]
  <2>1. r.to \in Early /\ r.to \in Rollup!PieceStatus
    BY <1>1, <1>7 DEF UnscheduleWrite, At, Grounded, Sound
  <2>2. Unbooked(piece[p]) \in Row
    BY <1>1, RowFields
  <2>3. new \in Row /\ new.status = r.to
    BY <2>1, <2>2, RowFields DEF Row
  <2>4. Write(w, [piece EXCEPT ![p] = new], "sync")
    BY <1>1, <1>7 DEF UnscheduleWrite
  <2> QED BY <1>5, <2>1, <2>3, <2>4
<1> QED
  BY <1>6, <1>7

LEMMA StartSerially ==
  ASSUME BookingInv, SerialInv, NEW w \in Workers, StartTx(w)
  PROVE  SerialInv'
<1> DEFINE r == req[w]
           p == r.p
           q == Then(r, "sync")
           new == [piece[p] EXCEPT !.status = "printing"]
           rows == [piece EXCEPT ![p] = new]
<1>0. r.op = "start" /\ r.pc = "tx"
  BY DEF StartTx, At
<1>1. /\ HasTurn(w) /\ RequestsOK /\ r \in Request /\ Sound(r) /\ Grounded(r, piece[p])
      /\ p \in Pieces /\ piece[p] \in Row /\ piece \in [Pieces -> Row]
      /\ Fine(r, piece, lock, charged, orders)
  BY <1>0, Taken
<1>2. Between(r)
  BY <1>0 DEF Between
<1>3. piece[p].status \in Early /\ r.printer = piece[p].printer
  BY <1>0, <1>1 DEF Grounded
<1>4. q.op = "none" /\ q.pc = "sync" /\ \A row : Grounded(q, row)
  BY <1>1, BetweenEnds, GroundedEnds
<1>5. new.status = "printing" /\ new.printer = piece[p].printer
  BY <1>1 DEF Row
<1>6. rows[p] = new /\ \A x \in Pieces \ {p} : rows[x] = piece[x]
  BY <1>1
<1>7. Write(w, rows, "sync") /\ UNCHANGED <<orders, charged, clock>>
      /\ lock' = IF Legal(rows) THEN [lock EXCEPT ![r.printer] = p] ELSE lock
  BY <1>1 DEF StartTx
<1>8. Harmless(r, q, p, piece[p], rows[p])
  BY <1>2, <1>3, <1>4, <1>5, <1>6 DEF Harmless, Early
<1>9. CASE piece' = rows /\ req' = [req EXCEPT ![w] = q] /\ Legal(rows)
  <2>0. /\ p \in Pieces /\ Fine(r, piece, lock, charged, orders)
        /\ Harmless(r, q, p, piece[p], rows[p]) /\ \A x \in Pieces \ {p} : rows[x] = piece[x]
    BY <1>1, <1>6, <1>8
  <2> HIDE DEF q, r, p, rows, new
  <2>1. Fine(q, rows, lock, charged, orders)
    BY ONLY <2>0, FineChanged, ZenonT(60)
  <2>2. LockFine(q, rows, lock')
    <3>1. lock' = [lock EXCEPT ![r.printer] = p]
      BY <1>7, <1>9
    <3>2. rows[p].printer = r.printer /\ rows[p].status = "printing"
      BY <1>3, <1>5, <1>6
    <3> QED BY <1>1, <2>1, <3>1, <3>2 DEF Fine, LockFine
  <2>3. Fine(q, rows, lock', charged, orders)
    BY <2>1, <2>2 DEF Fine
  <2> QED BY <1>1, <1>4, <1>7, <1>9, <2>3, HandedOn DEF r, p
<1>10. CASE piece' = piece /\ req' = [req EXCEPT ![w] = Then(r, "idle")] /\ ~Legal(rows)
  <2>1. Between(Then(r, "idle")) /\ Grounded(Then(r, "idle"), piece[Then(r, "idle").p])
    BY <1>1, BetweenEnds, GroundedEnds
  <2> HIDE DEF rows
  <2> QED BY <1>1, <1>2, <1>7, <1>10, <2>1, Passed
<1> QED
  BY <1>1, <1>7, <1>9, <1>10, WriteCases

LEMMA CompleteSerially ==
  ASSUME BookingInv, SerialInv, NEW w \in Workers, CompleteWrite(w)
  PROVE  SerialInv'
<1> DEFINE r == req[w]
           p == r.p
           q == Then(r, "tx")
           new == Ended(p, piece[p], r.to)
           rows == [piece EXCEPT ![p] = new]
<1>0. r.op = "complete" /\ r.pc = "write"
  BY DEF CompleteWrite, At
<1>1. /\ HasTurn(w) /\ RequestsOK /\ r \in Request /\ Sound(r) /\ Grounded(r, piece[p])
      /\ p \in Pieces /\ piece[p] \in Row /\ piece \in [Pieces -> Row]
      /\ Fine(r, piece, lock, charged, orders)
  BY <1>0, Taken
<1>2. piece[p].status \in Busy /\ r.printer = piece[p].printer /\ r.o = OrderOf[p]
  BY <1>0, <1>1 DEF Grounded
<1>3. r.to \in {"done", "failed"}
  BY <1>0, <1>1 DEF Sound
<1>4. new.status \in {"done", "failed"} /\ new.printer = piece[p].printer
  BY <1>1, <1>3 DEF Ended, Row
<1>5. q.pc = "tx" /\ q.op = "complete" /\ q.p = p /\ q.o = r.o /\ q.printer = r.printer
  BY <1>0, <1>1, ThenFields
<1>6. rows[p] = new /\ \A x \in Pieces \ {p} : rows[x] = piece[x]
  BY <1>1
<1>7. /\ piece' = rows /\ req' = [req EXCEPT ![w] = q]
      /\ UNCHANGED <<lock, orders, charged, clock>>
  BY <1>1, GotoThen DEF CompleteWrite, Put
<1> HIDE DEF q, r, rows, new
<1>8. \A x : ~Settles(r, x) /\ (Settles(q, x) <=> x = p)
  BY <1>0, <1>5 DEF Settles
<1>9. LockFine(q, rows, lock)
  <2>1. ASSUME NEW pr \in Printers, lock[pr] # None
        PROVE  rows[lock[pr]].printer = pr /\ (rows[lock[pr]].status = "printing" \/ Settles(q, lock[pr]))
    BY <1>1, <1>4, <1>6, <1>8, <2>1 DEF Fine, LockFine
  <2> QED BY <1>1, <2>1 DEF Fine, LockFine
<1>10. ChargedFine(q, rows, charged)
  <2>1. ASSUME NEW x \in Pieces \ Resin
        PROVE  /\ rows[x].status \in Early \cup {"printing"} => charged[x] = 0
               /\ rows[x].status \in {"done", "failed"} =>
                    rows[x].source = None \/ charged[x] = IF Settles(q, x) THEN 0 ELSE 1
    <3>1. CASE x = p
      BY <1>1, <1>2, <1>4, <1>6, <1>8, <3>1 DEF Fine, ChargedFine, Busy, Early
    <3>2. CASE x # p
      BY <1>1, <1>6, <1>8, <3>2 DEF Fine, ChargedFine
    <3> QED BY <3>1, <3>2
  <2> QED BY <1>1, <2>1 DEF Fine, ChargedFine
<1>11. OrdersFine(q, rows, orders)
  <2>1. OrdersFine(r, piece, orders) /\ r.pc \notin {"sync", "settle"} /\ q.pc # "settle"
    BY <1>0, <1>1, <1>5 DEF Fine
  <2>2. piece[p].status \notin {"done", "cancelled"} /\ p \in Pieces
    BY <1>1, <1>2 DEF Busy
  <2> QED BY <1>6, <2>1, <2>2, OrdersChanged
<1>12. Grounded(q, rows[q.p])
  BY <1>2, <1>4, <1>5, <1>6 DEF Grounded
<1>13. Fine(q, rows, lock, charged, orders)
  BY <1>9, <1>10, <1>11 DEF Fine
<1> QED
  BY <1>1, <1>7, <1>12, <1>13, HandedOn

\* Settling the print: it is charged, and its printer given back.
LEMMA SettleSerially ==
  ASSUME BookingInv, SerialInv, NEW w \in Workers, CompleteTx(w)
  PROVE  SerialInv'
<1> DEFINE r == req[w]
           p == r.p
           q == Then(r, "sync")
<1>0. r.op = "complete" /\ r.pc = "tx"
  BY DEF CompleteTx, At
<1>1. /\ HasTurn(w) /\ RequestsOK /\ r \in Request /\ Sound(r) /\ Grounded(r, piece[p])
      /\ p \in Pieces /\ piece[p] \in Row /\ piece \in [Pieces -> Row]
      /\ Fine(r, piece, lock, charged, orders)
  BY <1>0, Taken
<1>2. r.printer = piece[p].printer /\ piece[p].status \in {"done", "failed"}
  BY <1>0, <1>1 DEF Grounded
<1>3. q.op = "none" /\ q.pc = "sync" /\ \A row : Grounded(q, row)
  BY <1>1, BetweenEnds, GroundedEnds
<1>4. /\ req' = [req EXCEPT ![w] = q] /\ UNCHANGED <<piece, orders, clock>>
      /\ lock' = FreeLock(r.printer, p)
      /\ charged' = [charged EXCEPT ![p] = IF piece[p].source = None THEN @ ELSE @ + 1]
  BY <1>1, GotoThen DEF CompleteTx
<1> HIDE DEF q, r
<1>5. \A x : ~Settles(q, x) /\ (Settles(r, x) <=> x = p)
  BY <1>0, <1>3 DEF Settles
<1>6. LockFine(q, piece, lock')
  <2>1. lock' \in [Printers -> Pieces \cup {None}]
    BY <1>1, <1>4 DEF FreeLock, Fine, LockFine
  <2>2. ASSUME NEW pr \in Printers, lock'[pr] # None
        PROVE  piece[lock'[pr]].printer = pr /\ piece[lock'[pr]].status = "printing"
    <3>1. lock'[pr] = lock[pr] /\ ~(pr = r.printer /\ lock[pr] = p)
      BY <1>4, <2>2 DEF FreeLock
    <3>2. /\ piece[lock[pr]].printer = pr
          /\ piece[lock[pr]].status = "printing" \/ lock[pr] = p
      BY <1>1, <1>5, <2>2, <3>1 DEF Fine, LockFine
    <3> QED BY <1>2, <3>1, <3>2
  <2> QED BY <2>1, <2>2 DEF LockFine
<1>7. ChargedFine(q, piece, charged')
  <2>1. charged \in [Pieces -> Nat]
    BY <1>1 DEF Fine, ChargedFine
  <2>2. charged' \in [Pieces -> Nat]
    BY <1>1, <1>4, <2>1
  <2>3. ASSUME NEW x \in Pieces \ Resin
        PROVE  /\ piece[x].status \in Early \cup {"printing"} => charged'[x] = 0
               /\ piece[x].status \in {"done", "failed"} => piece[x].source = None \/ charged'[x] = 1
    <3>1. CASE x = p
      <4>1. piece[p].source = None \/ charged[p] = 0
        BY <1>1, <1>2, <1>5, <3>1 DEF Fine, ChargedFine
      <4>2. piece[p].source # None => charged'[p] = 1
        BY <1>1, <1>4, <2>1, <4>1
      <4> QED BY <1>2, <3>1, <4>2 DEF Early
    <3>2. CASE x # p
      <4>1. charged'[x] = charged[x]
        BY <1>4, <2>1, <3>2
      <4> QED BY <1>1, <1>5, <3>2, <4>1 DEF Fine, ChargedFine
    <3> QED BY <3>1, <3>2
  <2> QED BY <1>5, <2>2, <2>3 DEF ChargedFine
<1>8. OrdersFine(q, piece, orders)
  BY <1>0, <1>1, <1>3 DEF Fine, OrdersFine, Tells
<1>9. Fine(q, piece, lock', charged', orders)
  BY <1>6, <1>7, <1>8 DEF Fine
<1> QED
  BY <1>1, <1>3, <1>4, <1>9, HandedOn

\* A run that is over starts anew: its charge is forgotten, whether or not
\* the write is let through.
LEMMA PutBack ==
  ASSUME BookingInv, SerialInv, NEW w \in Workers, HasTurn(w), clock' = clock, Between(req[w]),
         NEW p \in Pieces, NEW new \in Row, new.status \in Early, req[w].o = OrderOf[p],
         NEW rows, rows = [piece EXCEPT ![p] = new], Write(w, rows, "sync"),
         \/ piece[p].status = "cancelled"
         \/ piece[p].status = "failed" /\ Legal(rows),
         charged' = [charged EXCEPT ![p] = 0], lock' = lock, orders' = orders
  PROVE  SerialInv'
<1> DEFINE r == req[w]
           q == Then(r, "sync")
           e == Then(r, "idle")
<1>0. RequestsOK /\ piece \in [Pieces -> Row]
  BY DEF BookingInv, RowsOK
<1>1. r \in Request /\ UnderWay(r) /\ Between(r)
  BY <1>0 DEF RequestsOK, HasTurn
<1>2. Fine(r, piece, lock, charged, orders)
  BY <1>1 DEF SerialInv
<1>3. rows[p] = new /\ \A x \in Pieces \ {p} : rows[x] = piece[x]
  BY <1>0
<1>4. q.op = "none" /\ q.pc = "sync" /\ q.o = OrderOf[p] /\ Between(e)
  BY <1>1, BetweenEnds, ThenFields
<1>5. \A row : Grounded(q, row) /\ Grounded(e, row)
  BY <1>1, GroundedEnds
<1>6. charged \in [Pieces -> Nat] /\ charged' \in [Pieces -> Nat]
  BY <1>2 DEF Fine, ChargedFine
<1>7. charged'[p] = 0 /\ \A x \in Pieces \ {p} : charged'[x] = charged[x]
  BY <1>6
<1>8. \/ piece' = rows /\ req' = [req EXCEPT ![w] = q]
      \/ piece' = piece /\ req' = [req EXCEPT ![w] = e] /\ piece[p].status = "cancelled"
  BY <1>0, WriteCases
<1> HIDE DEF q, r, e
<1>9. \A x : ~Settles(r, x) /\ ~Settles(q, x) /\ ~Settles(e, x)
  BY <1>1, <1>4 DEF Settles, Between
<1>10. CASE piece' = rows /\ req' = [req EXCEPT ![w] = q]
  <2>1. LockFine(q, rows, lock)
    BY <1>2, <1>3, <1>9, LockUnprinted DEF Fine
  <2>2. ASSUME NEW x \in Pieces \ Resin
        PROVE  /\ rows[x].status \in Early \cup {"printing"} => charged'[x] = 0
               /\ rows[x].status \in {"done", "failed"} => rows[x].source = None \/ charged'[x] = 1
    <3>1. CASE x = p
      BY <1>3, <1>7, <3>1 DEF Early
    <3>2. CASE x # p
      BY <1>2, <1>3, <1>7, <1>9, <3>2 DEF Fine, ChargedFine
    <3> QED BY <3>1, <3>2
  <2>3. ChargedFine(q, rows, charged')
    BY <1>6, <1>9, <2>2 DEF ChargedFine
  <2>4. r.pc \notin {"sync", "settle"} /\ q.pc # "settle" /\ Tells(q, OrderOf[p])
    BY <1>1, <1>4 DEF Between, Tells
  <2>5. OrdersFine(q, rows, orders)
    BY <1>2, <1>3, <2>4, OrdersChanged DEF Fine
  <2>6. Fine(q, rows, lock, charged', orders)
    BY <2>1, <2>3, <2>5 DEF Fine
  <2> QED BY <1>5, <1>10, <2>6, HandedOn
<1>11. CASE piece' = piece /\ req' = [req EXCEPT ![w] = e] /\ piece[p].status = "cancelled"
  <2>1. Fine(e, piece, lock, charged, orders)
    BY <1>1, <1>2, <1>4, FineUntouched
  <2>2. ASSUME NEW x \in Pieces \ Resin
        PROVE  /\ piece[x].status \in Early \cup {"printing"} => charged'[x] = 0
               /\ piece[x].status \in {"done", "failed"} => piece[x].source = None \/ charged'[x] = 1
    <3>1. CASE x = p
      BY <1>11, <3>1 DEF Early
    <3>2. CASE x # p
      BY <1>2, <1>7, <1>9, <3>2 DEF Fine, ChargedFine
    <3> QED BY <3>1, <3>2
  <2>3. Fine(e, piece, lock, charged', orders)
    BY <1>6, <1>9, <2>1, <2>2 DEF Fine, ChargedFine
  <2> QED BY <1>5, <1>11, <2>3, HandedOn
<1> QED
  BY <1>8, <1>10, <1>11

\* A reprint was let in on a failed piece and its data: it is never refused.
LEMMA ReprintSerially ==
  ASSUME BookingInv, SerialInv, NEW w \in Workers, ReprintWrite(w)
  PROVE  SerialInv'
<1> DEFINE r == req[w]
           p == r.p
           new == [Unbooked(piece[p]) EXCEPT !.status = r.to, !.post = FALSE]
           rows == [piece EXCEPT ![p] = new]
<1>0. r.op = "reprint" /\ r.pc = "write"
  BY DEF ReprintWrite, At
<1>1. /\ HasTurn(w) /\ RequestsOK /\ r \in Request /\ Sound(r) /\ Grounded(r, piece[p])
      /\ p \in Pieces /\ piece[p] \in Row /\ piece \in [Pieces -> Row]
  BY <1>0, Taken
<1>2. Between(r)
  BY <1>0 DEF Between
<1>3. /\ piece[p].status = "failed" /\ r.o = OrderOf[p] /\ r.to \in {"pending", "assigned", "ready"}
      /\ r.to = "ready" => CoreData(p, piece[p])
      /\ r.to = "assigned" => piece[p].printer # None
  BY <1>0, <1>1 DEF Grounded, Early
<1>4. r.to \in Rollup!PieceStatus
  BY <1>3 DEF Rollup!PieceStatus
<1>5. new \in Row
  <2>1. Unbooked(piece[p]) \in Row
    BY <1>1, RowFields
  <2> QED BY <1>4, <2>1 DEF Row
<1>6. /\ new.status = r.to /\ new.printer = piece[p].printer
      /\ new.qty = piece[p].qty /\ new.source = piece[p].source
  BY <1>1 DEF Row, Unbooked
<1>7. rows[p] = new /\ \A x \in Pieces \ {p} : rows[x] = piece[x]
  BY <1>1
<1>8. Write(w, rows, "sync") /\ UNCHANGED <<orders, lock, clock>> /\ charged' = [charged EXCEPT ![p] = 0]
  BY <1>1 DEF ReprintWrite
<1>9. p \in Pieces /\ new.status \notin Busy /\ new.status \in Early
  BY <1>1, <1>3, <1>6 DEF Busy, Early
<1>10. RowsOK /\ Exclusion(piece)
  BY DEF BookingInv
<1>11. ChecksHold(p, new)
  BY <1>3, <1>6, <1>9 DEF ChecksHold, CoreData
<1> HIDE DEF new, rows, p, r
<1>12. Exclusion(rows)
  BY <1>7, <1>9, <1>10 DEF Exclusion, Windowed, Meet
<1>13. Legal(rows)
  BY <1>7, <1>10, <1>11, <1>12 DEF Legal, RowsOK
<1> QED
  BY <1>1, <1>2, <1>3, <1>5, <1>8, <1>9, <1>13, PutBack DEF rows, r

LEMMA RestoreSerially ==
  ASSUME BookingInv, SerialInv, NEW w \in Workers, RestoreWrite(w)
  PROVE  SerialInv'
<1> DEFINE r == req[w]
           p == r.p
           new == Restored(p, piece[p], r.to)
           rows == [piece EXCEPT ![p] = new]
<1>0. r.op = "restore" /\ r.pc = "write"
  BY DEF RestoreWrite, At
<1>1. /\ HasTurn(w) /\ RequestsOK /\ r \in Request /\ Sound(r) /\ Grounded(r, piece[p])
      /\ p \in Pieces /\ piece[p] \in Row /\ piece \in [Pieces -> Row]
  BY <1>0, Taken
<1>2. Between(r)
  BY <1>0 DEF Between
<1>3. piece[p].status = "cancelled" /\ r.o = OrderOf[p] /\ r.to \in Early
  BY <1>0, <1>1 DEF Grounded
<1>4. r.to \in Rollup!PieceStatus
  BY <1>0, <1>1 DEF Sound
<1>5. new \in Row
  BY <1>1, <1>4, RestoredRow
<1>6. new.status = r.to
  <2> DEFINE off == [Unbooked(piece[p]) EXCEPT !.status = r.to]
  <2>1. off \in Row /\ off.status = r.to
    BY <1>1, <1>4, RowFields DEF Row
  <2> HIDE DEF off
  <2>2. ASSUME NEW q PROVE [off EXCEPT !.printer = None, !.qty = q].status = r.to
    BY <2>1 DEF Row
  <2>3. new = IF r.to = "pending" THEN [off EXCEPT !.printer = None, !.qty = piece[p].qty /\ p \in Resin]
                                  ELSE off
    BY DEF Restored, off
  <2> QED BY <2>1, <2>2, <2>3
<1>7. Write(w, rows, "sync") /\ UNCHANGED <<orders, lock, clock>> /\ charged' = [charged EXCEPT ![p] = 0]
  BY <1>1 DEF RestoreWrite
<1> HIDE DEF new, p, r
<1> QED
  BY <1>1, <1>2, <1>3, <1>5, <1>6, <1>7, PutBack DEF rows, r

\* One transaction: the piece, its printer and its order.
LEMMA CancelSerially ==
  ASSUME BookingInv, SerialInv, NEW w \in Workers, CancelTx(w)
  PROVE  SerialInv'
<1> DEFINE r == req[w]
           p == r.p
           q == Then(r, "idle")
           new == [Unbooked(WithoutSpool(p, piece[p])) EXCEPT !.status = "cancelled"]
           rows == [piece EXCEPT ![p] = new]
<1>0. r.op = "cancel" /\ r.pc = "tx"
  BY DEF CancelTx, At
<1>1. /\ HasTurn(w) /\ RequestsOK /\ r \in Request /\ Sound(r) /\ Grounded(r, piece[p])
      /\ p \in Pieces /\ piece[p] \in Row /\ piece \in [Pieces -> Row]
      /\ Fine(r, piece, lock, charged, orders)
  BY <1>0, Taken
<1>2. Between(r)
  BY <1>0 DEF Between
<1>3. r.printer = piece[p].printer /\ r.o = OrderOf[p]
  BY <1>0, <1>1 DEF Grounded
<1>4. Between(q) /\ (\A row : Grounded(q, row)) /\ q.pc = "idle"
  BY <1>1, BetweenEnds, GroundedEnds, ThenFields DEF Idle
<1>5. new.status = "cancelled"
  <2>1. WithoutSpool(p, piece[p]) \in Row
    BY <1>1, RowFields
  <2>2. \A row \in Row : [Unbooked(row) EXCEPT !.status = "cancelled"].status = "cancelled"
    BY DEF Row, Unbooked
  <2> QED BY <2>1, <2>2
<1>6. rows[p] = new /\ \A x \in Pieces \ {p} : rows[x] = piece[x]
  BY <1>1
<1>7. /\ piece' = rows /\ req' = [req EXCEPT ![w] = q] /\ UNCHANGED <<charged, clock>>
      /\ lock' = FreeLock(r.printer, p)
      /\ orders' = [orders EXCEPT ![r.o] = Rollup!Recomputed(@, RowsOf(r.o, rows), TRUE)]
  BY <1>1, GotoThen DEF CancelTx, Put
<1>8. orders \in [Orders -> Rollup!OrderStatus]
  BY DEF BookingInv, OrdersOK
<1> HIDE DEF new, rows, p, q, r
<1>9. \A x : ~Settles(q, x) /\ ~Settles(r, x)
  BY <1>2, <1>4 DEF Settles, Between
<1>10. LockFine(q, rows, lock')
  <2>1. lock' \in [Printers -> Pieces \cup {None}]
    BY <1>1, <1>7 DEF FreeLock, Fine, LockFine
  <2>2. ASSUME NEW pr \in Printers, lock'[pr] # None
        PROVE  rows[lock'[pr]].printer = pr /\ rows[lock'[pr]].status = "printing"
    <3>1. lock'[pr] = lock[pr] /\ ~(pr = r.printer /\ lock[pr] = p)
      BY <1>7, <2>2 DEF FreeLock
    <3>2. lock[pr] \in Pieces /\ piece[lock[pr]].printer = pr /\ piece[lock[pr]].status = "printing"
      BY <1>1, <1>9, <2>2, <3>1 DEF Fine, LockFine
    <3> QED BY <1>3, <1>6, <3>1, <3>2
  <2> QED BY <2>1, <2>2 DEF LockFine
<1>11. ChargedFine(q, rows, charged)
  BY <1>1, <1>5, <1>6, <1>9, ChargedChanged DEF Fine
<1>12. OrdersFine(q, rows, orders')
  <2>1. ASSUME NEW o \in Orders, orders'[o] = "completed" PROVE AllDone(o, rows)
    <3>1. CASE o = r.o
      BY <1>7, <1>8, <2>1, <3>1, CompletedByRollup
    <3>2. CASE o # r.o
      <4>1. orders[o] = "completed"
        BY <1>7, <1>8, <2>1, <3>2
      <4>2. AllDone(o, piece)
        BY <1>1, <1>2, <4>1 DEF Fine, OrdersFine, Tells, Between
      <4> QED BY <1>3, <1>6, <3>2, <4>2 DEF AllDone
    <3> QED BY <3>1, <3>2
  <2> QED BY <1>4, <2>1 DEF OrdersFine
<1>13. Fine(q, rows, lock', charged, orders')
  BY <1>10, <1>11, <1>12 DEF Fine
<1> QED
  BY <1>1, <1>4, <1>7, <1>13, HandedOn

\* Telling the order: what was read, between requests, is still so.
LEMMA SyncSerially ==
  ASSUME BookingInv, SerialInv, NEW w \in Workers, SyncRead(w) \/ SyncWrite(w)
  PROVE  SerialInv'
<1> DEFINE r == req[w]
           e == Then(r, "idle")
<1>0. r.pc \in {"sync", "settle"}
  BY DEF SyncRead, SyncWrite
<1>1. /\ HasTurn(w) /\ RequestsOK /\ r \in Request /\ Sound(r) /\ Fine(r, piece, lock, charged, orders)
  BY <1>0, Taken
<1>2. r.op = "none"
  BY <1>0, <1>1 DEF Sound
<1>3. Between(e) /\ (\A row : Grounded(e, row)) /\ e.pc = "idle"
  BY <1>1, BetweenEnds, GroundedEnds, ThenFields DEF Idle
<1>4. orders \in [Orders -> Rollup!OrderStatus]
  BY DEF BookingInv, OrdersOK
<1>5. UNCHANGED <<piece, lock, charged, clock>>
  BY DEF SyncRead, SyncWrite, world
<1>6. ASSUME NEW q, q.op = "none", req' = [req EXCEPT ![w] = q], OrdersFine(q, piece, orders')
      PROVE  SerialInv'
  <2>1. Grounded(q, piece[q.p])
    BY <1>6 DEF Grounded
  <2>2. \A x : ~Settles(r, x) /\ ~Settles(q, x)
    BY <1>2, <1>6 DEF Settles
  <2>3. LockFine(q, piece, lock) /\ ChargedFine(q, piece, charged)
    BY <1>1, <2>2 DEF Fine, LockFine, ChargedFine
  <2>4. Fine(q, piece, lock, charged, orders')
    BY <1>6, <2>3 DEF Fine
  <2> QED BY <1>1, <1>5, <1>6, <2>1, <2>4, HandedOn
<1>7. e.op = "none"
  BY <1>1, ThenFields DEF Idle
<1>8. CASE SyncRead(w) /\ Goto(w, "idle") /\ Rollup!KeptConfirmed(orders[r.o], RowsOf(r.o, piece))
  <2>1. req' = [req EXCEPT ![w] = e] /\ orders' = orders
    BY <1>1, <1>8, GotoThen DEF SyncRead, world
  <2>2. orders[r.o] # "completed"
    BY <1>8 DEF Rollup!KeptConfirmed
  <2>3. OrdersFine(e, piece, orders)
    BY <1>1, <1>3, <2>2 DEF Fine, OrdersFine, Tells
  <2> QED BY <1>6, <1>7, <2>1, <2>3
<1>9. CASE SyncRead(w) /\ req' = [req EXCEPT ![w].pc = "settle", ![w].to = Rollup!Target(RowsOf(r.o, piece))]
  <2> DEFINE to == Rollup!Target(RowsOf(r.o, piece))
             q == [r EXCEPT !.pc = "settle", !.to = to]
  <2>1. to = "completed" => AllDone(r.o, piece)
    BY CompletedByRollup
  <2>2. req' = [req EXCEPT ![w].pc = "settle", ![w].to = to] /\ orders' = orders
    BY <1>9 DEF SyncRead, world
  <2> HIDE DEF to
  <2>3. q.pc = "settle" /\ q.to = to /\ q.op = "none" /\ q.o = r.o
    BY <1>1, <1>2 DEF Request
  <2>4. req' = [req EXCEPT ![w] = q]
    BY <1>1, <2>2 DEF RequestsOK
  <2> HIDE DEF q
  <2>5. OrdersFine(q, piece, orders)
    BY <1>1, <2>1, <2>3 DEF Fine, OrdersFine, Tells
  <2> QED BY <1>6, <2>2, <2>3, <2>4, <2>5
<1>10. CASE SyncWrite(w)
  <2>1. /\ req' = [req EXCEPT ![w] = e] /\ r.pc = "settle"
        /\ orders' = [orders EXCEPT ![r.o] = IF @ \in Rollup!Manual THEN @ ELSE r.to]
    BY <1>1, <1>10, GotoThen DEF SyncWrite
  <2>2. ASSUME NEW o \in Orders, orders'[o] = "completed" PROVE AllDone(o, piece)
    <3>1. CASE o = r.o
      <4>1. r.to = "completed"
        BY <1>4, <2>1, <2>2, <3>1 DEF Rollup!Manual
      <4> QED BY <1>1, <2>1, <3>1, <4>1 DEF Fine, OrdersFine
    <3>2. CASE o # r.o
      <4>1. orders[o] = "completed"
        BY <1>4, <2>1, <2>2, <3>2
      <4> QED BY <1>1, <3>2, <4>1 DEF Fine, OrdersFine, Tells
    <3> QED BY <3>1, <3>2
  <2>3. OrdersFine(e, piece, orders')
    BY <1>3, <2>2 DEF OrdersFine
  <2> QED BY <1>6, <1>7, <2>1, <2>3
<1> QED
  BY <1>8, <1>9, <1>10 DEF SyncRead

\* An operator's status for the order moves none of its prints.
LEMMA OrderRowsMove ==
  ASSUME NEW r, NEW p \in Pieces, piece \in [Pieces -> Row]
  PROVE  \/ OrderRows(r)[p] = piece[p]
         \/ /\ OrderOf[p] = r.o /\ piece[p].status \in Early \cup {"cancelled"}
            /\ OrderRows(r)[p].status \in Early \cup {"cancelled"}
<1>1. CASE OrderOf[p] = r.o /\ r.to = "cancelled" /\ piece[p].status \in Early
  <2>1. [piece[p] EXCEPT !.status = "cancelled"].status = "cancelled"
    BY DEF Row
  <2>2. OrderRows(r)[p] = [piece[p] EXCEPT !.status = "cancelled"]
    BY <1>1 DEF OrderRows, Early
  <2> QED BY <1>1, <2>1, <2>2
<1>2. CASE /\ OrderOf[p] = r.o /\ r.was = "cancelled" /\ piece[p].status = "cancelled"
  <2>1. OrderRows(r)[p] = Reopened(p, piece[p], r.to)
    BY <1>2 DEF OrderRows
  <2>2. \A st : /\ [Unbooked(piece[p]) EXCEPT !.status = st].status = st
                /\ [piece[p] EXCEPT !.status = st].status = st
    BY DEF Row, Unbooked
  <2>3. Reopened(p, piece[p], r.to).status \in Early
    BY <2>2 DEF Reopened, Early
  <2> QED BY <1>2, <2>1, <2>3
<1>3. CASE /\ ~(OrderOf[p] = r.o /\ r.to = "cancelled" /\ piece[p].status \in Early)
           /\ ~(OrderOf[p] = r.o /\ r.was = "cancelled" /\ piece[p].status = "cancelled")
  BY <1>3 DEF OrderRows, Early
<1> QED BY <1>1, <1>2, <1>3

LEMMA OrderSerially ==
  ASSUME BookingInv, SerialInv, NEW w \in Workers, OrderTx(w)
  PROVE  SerialInv'
<1> DEFINE r == req[w]
           e == Then(r, "idle")
           rows == OrderRows(r)
<1>0. r.op = "order" /\ r.pc = "tx"
  BY DEF OrderTx, At
<1>1. /\ HasTurn(w) /\ RequestsOK /\ r \in Request /\ Sound(r) /\ Fine(r, piece, lock, charged, orders)
      /\ piece \in [Pieces -> Row]
  BY <1>0, Taken
<1>2. Between(r)
  BY <1>0 DEF Between
<1>3. Between(e) /\ (\A row : Grounded(e, row)) /\ e.pc = "idle"
  BY <1>1, BetweenEnds, GroundedEnds, ThenFields DEF Idle
<1>4. orders \in [Orders -> Rollup!OrderStatus]
  BY DEF BookingInv, OrdersOK
<1>5. \A p \in Pieces : \/ rows[p] = piece[p]
                        \/ /\ OrderOf[p] = r.o /\ piece[p].status \in Early \cup {"cancelled"}
                           /\ rows[p].status \in Early \cup {"cancelled"}
  BY <1>1, OrderRowsMove
<1>6. req' = [req EXCEPT ![w] = e] /\ UNCHANGED <<lock, clock>>
  BY <1>1, GotoThen DEF OrderTx
<1>7. \/ UNCHANGED <<piece, orders, charged>>
      \/ /\ piece' = rows /\ orders' = [orders EXCEPT ![r.o] = r.to] /\ OrderMayBe(r.to, RowsOf(r.o, rows))
         /\ charged' = [p \in Pieces |-> IF rows[p].status \in Early THEN 0 ELSE charged[p]]
  BY DEF OrderTx, Put, Early
<1>8. \A x : ~Settles(r, x) /\ ~Settles(e, x)
  BY <1>2, <1>3 DEF Settles, Between
<1>9. OrderMayBe("completed", RowsOf(r.o, rows)) => AllDone(r.o, rows)
  BY DEF OrderMayBe, RowsOf, AllDone
<1> HIDE DEF rows, r, e
<1>10. CASE UNCHANGED <<piece, orders, charged>>
  BY <1>1, <1>2, <1>3, <1>6, <1>10, Passed DEF r
<1>11. CASE /\ piece' = rows /\ orders' = [orders EXCEPT ![r.o] = r.to] /\ OrderMayBe(r.to, RowsOf(r.o, rows))
            /\ charged' = [p \in Pieces |-> IF rows[p].status \in Early THEN 0 ELSE charged[p]]
  <2>1. LockFine(e, rows, lock)
    BY <1>1, <1>5, <1>8 DEF Fine, LockFine, Early
  <2>2. charged' \in [Pieces -> Nat]
    BY <1>1, <1>11 DEF Fine, ChargedFine
  <2>3. ASSUME NEW x \in Pieces \ Resin
        PROVE  /\ rows[x].status \in Early \cup {"printing"} => charged'[x] = 0
               /\ rows[x].status \in {"done", "failed"} => rows[x].source = None \/ charged'[x] = 1
    <3>1. charged'[x] = IF rows[x].status \in Early THEN 0 ELSE charged[x]
      BY <1>11
    <3>2. CASE rows[x] = piece[x]
      BY <1>1, <1>8, <3>1, <3>2 DEF Fine, ChargedFine, Early
    <3>3. CASE rows[x].status \in Early \cup {"cancelled"}
      BY <3>1, <3>3 DEF Early
    <3> QED BY <1>5, <3>2, <3>3
  <2>4. ChargedFine(e, rows, charged')
    BY <1>8, <2>2, <2>3 DEF ChargedFine
  <2>5. ASSUME NEW o \in Orders, orders'[o] = "completed" PROVE AllDone(o, rows)
    <3>1. CASE o = r.o
      BY <1>4, <1>9, <1>11, <2>5, <3>1
    <3>2. CASE o # r.o
      <4>1. orders[o] = "completed"
        BY <1>4, <1>11, <2>5, <3>2
      <4>2. AllDone(o, piece)
        BY <1>1, <1>2, <4>1 DEF Fine, OrdersFine, Tells, Between
      <4> QED BY <1>5, <3>2, <4>2 DEF AllDone
    <3> QED BY <3>1, <3>2
  <2>6. OrdersFine(e, rows, orders')
    BY <1>3, <2>5 DEF OrdersFine
  <2>7. Fine(e, rows, lock, charged', orders')
    BY <2>1, <2>4, <2>6 DEF Fine
  <2> QED BY <1>1, <1>3, <1>6, <1>11, <2>7, HandedOn
<1> QED
  BY <1>7, <1>10, <1>11

----------------------------------------------------------------------------
(* A call begins when all is quiet.                                        *)

LEMMA BegunSerially ==
  ASSUME BookingInv, SerialInv, Serial, NEW w \in Workers, NEW r, Begin(w, r),
         Between(r), Grounded(r, piece[r.p])
  PROVE  SerialInv'
<1>1. /\ clock.pc = "idle" /\ req[w] = Idle /\ \A v \in Workers : req[v] = Idle
      /\ req' = [req EXCEPT ![w] = r] /\ UNCHANGED <<piece, orders, lock, clock, charged>>
  BY DEF Begin, Quiet, world
<1>2. HasTurn(w)
  BY <1>1 DEF HasTurn, UnderWay
<1>3. Between(req[w])
  BY <1>1 DEF Between, Idle
<1> QED
  BY <1>1, <1>2, <1>3, Passed

\* Loaded for a piece: its order and its printer.
LEMMA LoadedFrom ==
  ASSUME NEW op, NEW p, NEW pc
  PROVE  /\ Load(op, p, pc).op = op /\ Load(op, p, pc).pc = pc /\ Load(op, p, pc).p = p
         /\ Load(op, p, pc).o = OrderOf[p] /\ Load(op, p, pc).printer = piece[p].printer
         /\ Load(op, p, pc).to = "none"
BY DEF Load

\* A request that carries no status to write.
LEMMA CallOfPiece ==
  ASSUME BookingInv, SerialInv, Serial, NEW w \in Workers, NEW p \in Pieces, NEW r, Begin(w, r),
         r.p = p, r.o = OrderOf[p], r.pc \in {"write", "release", "check", "tx"},
         \/ r.op = "assign" /\ r.pc = "write" /\ piece[p].status \in Early \ {"scheduled"}
         \/ r.op = "unassign" /\ piece[p].status \in Early
         \/ r.op = "reserve" /\ piece[p].status \in Early \cup {"cancelled"}
         \/ r.op = "schedule" /\ piece[p].status \in Early
         \/ r.op = "start" /\ piece[p].status \in Early /\ r.printer = piece[p].printer
         \/ r.op = "complete" /\ r.pc = "write" /\ piece[p].status \in Busy /\ r.printer = piece[p].printer
         \/ r.op = "cancel" /\ piece[p].status \notin {"done", "cancelled"} /\ r.printer = piece[p].printer
  PROVE  SerialInv'
<1>1. Grounded(r, piece[r.p])
  BY DEF Grounded
<1>2. Between(r)
  BY DEF Between
<1> QED BY <1>1, <1>2, BegunSerially

\* A request that puts its piece back.
LEMMA CallBack ==
  ASSUME BookingInv, SerialInv, Serial, NEW w \in Workers, NEW p \in Pieces, NEW r, Begin(w, r),
         r.p = p, r.o = OrderOf[p], r.pc = "write", r.to \in Early \ {"scheduled"},
         \/ r.op = "unschedule" /\ piece[p].status \in Early
         \/ r.op = "restore" /\ piece[p].status = "cancelled"
         \/ /\ r.op = "reprint" /\ piece[p].status = "failed"
            /\ r.to = "ready" => CoreData(p, piece[p])
            /\ r.to = "assigned" => piece[p].printer # None
  PROVE  SerialInv'
<1>1. Grounded(r, piece[r.p])
  BY DEF Grounded
<1>2. Between(r)
  BY DEF Between
<1> QED BY <1>1, <1>2, BegunSerially

LEMMA ReleaseSerially ==
  ASSUME BookingInv, SerialInv, Serial, NEW w \in Workers, NEW p \in Pieces, Release(w, p)
  PROVE  SerialInv'
<1> DEFINE new == WithoutSpool(p, piece[p])
           rows == [piece EXCEPT ![p] = new]
<1>0. RequestsOK /\ piece \in [Pieces -> Row]
  BY DEF BookingInv, RowsOK
<1>1. /\ clock.pc = "idle" /\ req[w] = Idle /\ \A v \in Workers : req[v] = Idle
      /\ piece' = rows /\ UNCHANGED <<req, orders, lock, clock, charged>>
  BY <1>0 DEF Release, Quiet, Put
<1>2. HasTurn(w) /\ UnderWay(Idle) /\ Idle \in Request
  BY <1>0, <1>1 DEF HasTurn, UnderWay, RequestsOK
<1>3. Fine(Idle, piece, lock, charged, orders)
  BY <1>2 DEF SerialInv
<1>4. rows[p] = new /\ \A x \in Pieces \ {p} : rows[x] = piece[x]
  BY <1>0
<1>5. /\ new.status = piece[p].status /\ new.printer = piece[p].printer
      /\ new.source \in {piece[p].source, None}
  BY <1>0 DEF WithoutSpool, Row
<1>6. Between(Idle) /\ \A row : Grounded(Idle, row)
  BY DEF Between, Grounded, Idle
<1> HIDE DEF new, rows
<1>7. Harmless(Idle, Idle, p, piece[p], rows[p])
  BY <1>4, <1>5, <1>6 DEF Harmless
<1>8. Fine(Idle, rows, lock, charged, orders)
  BY <1>3, <1>4, <1>7, FineChanged, ZenonT(60)
<1>9. req' = [req EXCEPT ![w] = Idle]
  BY <1>0, <1>1 DEF RequestsOK
<1> QED
  BY <1>1, <1>2, <1>6, <1>8, <1>9, HandedOn

LEMMA CallSerially ==
  ASSUME BookingInv, SerialInv, Serial, NEW w \in Workers, Call(w)
  PROVE  SerialInv'
<1>1. ASSUME NEW p \in Pieces, NEW pr \in Printers, NEW tank \in Tanks \cup {None},
             NEW qty \in BOOLEAN, Assign(w, p, pr, tank, qty)
      PROVE  SerialInv'
  <2> DEFINE r == [Load("assign", p, "write") EXCEPT !.printer = pr, !.stock = tank, !.qty = qty]
  <2>1. r.p = p /\ r.o = OrderOf[p] /\ r.pc = "write" /\ r.op = "assign"
    BY DEF Load
  <2>2. Begin(w, r) /\ piece[p].status \in Early \ {"scheduled"}
    BY <1>1 DEF Assign, Early
  <2> HIDE DEF r
  <2> QED BY <2>1, <2>2, CallOfPiece
<1>2. ASSUME NEW p \in Pieces, NEW s \in Spools, Reserve(w, p, s) PROVE SerialInv'
  <2> DEFINE r == [Load("reserve", p, "tx") EXCEPT !.stock = s]
  <2>1. r.p = p /\ r.o = OrderOf[p] /\ r.pc = "tx" /\ r.op = "reserve"
    BY DEF Load
  <2>2. Begin(w, r) /\ piece[p].status \in Early \cup {"cancelled"}
    BY <1>2 DEF Reserve, Early
  <2> HIDE DEF r
  <2> QED BY <2>1, <2>2, CallOfPiece
<1>3. ASSUME NEW p \in Pieces, NEW t \in 0..MaxTime, Schedule(w, p, t) PROVE SerialInv'
  <2> DEFINE r == [Load("schedule", p, "check") EXCEPT !.at = t]
  <2>1. r.p = p /\ r.o = OrderOf[p] /\ r.pc = "check" /\ r.op = "schedule"
    BY DEF Load
  <2>2. Begin(w, r) /\ piece[p].status \in Early
    BY <1>3 DEF Schedule, Early
  <2> HIDE DEF r
  <2> QED BY <2>1, <2>2, CallOfPiece
<1>4. ASSUME NEW p \in Pieces, NEW outcome \in {"done", "failed"}, Complete(w, p, outcome) PROVE SerialInv'
  <2> DEFINE r == [Load("complete", p, "write") EXCEPT !.to = outcome]
  <2>1. r.p = p /\ r.o = OrderOf[p] /\ r.pc = "write" /\ r.op = "complete" /\ r.printer = piece[p].printer
    BY DEF Load
  <2>2. Begin(w, r) /\ piece[p].status \in Busy
    BY <1>4 DEF Complete
  <2> HIDE DEF r
  <2> QED BY <2>1, <2>2, CallOfPiece
<1>5. ASSUME NEW p \in Pieces, NEW op, NEW to \in Early \ {"scheduled"},
             Begin(w, [Load(op, p, "write") EXCEPT !.to = to]),
             \/ op = "unschedule" /\ piece[p].status \in Early
             \/ op = "restore" /\ piece[p].status = "cancelled"
             \/ /\ op = "reprint" /\ piece[p].status = "failed"
                /\ to = "ready" => CoreData(p, piece[p])
                /\ to = "assigned" => piece[p].printer # None
      PROVE  SerialInv'
  <2> DEFINE r == [Load(op, p, "write") EXCEPT !.to = to]
  <2>1. r.p = p /\ r.o = OrderOf[p] /\ r.pc = "write" /\ r.op = op /\ r.to = to
    BY DEF Load
  <2>2. Begin(w, r)
    BY <1>5
  <2> HIDE DEF r
  <2> QED BY <1>5, <2>1, <2>2, CallBack
<1>6. ASSUME NEW p \in Pieces, Unschedule(w, p) PROVE SerialInv'
  BY <1>5, <1>6 DEF Unschedule, Early
<1>7. ASSUME NEW p \in Pieces, Reprint(w, p) PROVE SerialInv'
  <2> DEFINE to == IF Schedulable(p, piece[p]) THEN "ready"
                   ELSE IF piece[p].printer # None THEN "assigned" ELSE "pending"
  <2>1. /\ to \in Early \ {"scheduled"}
        /\ to = "ready" => CoreData(p, piece[p])
        /\ to = "assigned" => piece[p].printer # None
    BY DEF Early, Schedulable
  <2>2. piece[p].status = "failed" /\ Begin(w, [Load("reprint", p, "write") EXCEPT !.to = to])
    BY <1>7 DEF Reprint
  <2> HIDE DEF to
  <2> QED BY <1>5, <2>1, <2>2
<1>8. ASSUME NEW p \in Pieces, NEW to \in {"pending", "assigned"}, Restore(w, p, to) PROVE SerialInv'
  <2> DEFINE back == IF to = "pending" THEN to
                     ELSE IF Schedulable(p, piece[p]) THEN "ready" ELSE "assigned"
  <2>1. back \in Early \ {"scheduled"}
    BY DEF Early
  <2>2. piece[p].status = "cancelled" /\ Begin(w, [Load("restore", p, "write") EXCEPT !.to = back])
    BY <1>8 DEF Restore
  <2> HIDE DEF back
  <2> QED BY <1>5, <2>1, <2>2
<1>9. ASSUME NEW p \in Pieces, Unassign(w, p) \/ Start(w, p) \/ Cancel(w, p) PROVE SerialInv'
  <2>1. CASE Unassign(w, p)
    <3> DEFINE r == Load("unassign", p, "release")
    <3>1. r.p = p /\ r.o = OrderOf[p] /\ r.pc = "release" /\ r.op = "unassign"
      BY LoadedFrom
    <3>2. Begin(w, r) /\ piece[p].status \in Early
      BY <2>1 DEF Unassign, Early
    <3> HIDE DEF r
    <3> QED BY <3>1, <3>2, CallOfPiece
  <2>2. CASE Start(w, p)
    <3> DEFINE r == Load("start", p, "check")
    <3>1. r.p = p /\ r.o = OrderOf[p] /\ r.pc = "check" /\ r.op = "start" /\ r.printer = piece[p].printer
      BY LoadedFrom
    <3>2. Begin(w, r) /\ piece[p].status \in Early
      BY <2>2 DEF Start, Early
    <3> HIDE DEF r
    <3> QED BY <3>1, <3>2, CallOfPiece
  <2>3. CASE Cancel(w, p)
    <3> DEFINE r == Load("cancel", p, "tx")
    <3>1. r.p = p /\ r.o = OrderOf[p] /\ r.pc = "tx" /\ r.op = "cancel" /\ r.printer = piece[p].printer
      BY LoadedFrom
    <3>2. Begin(w, r) /\ piece[p].status \notin {"done", "cancelled"}
      BY <2>3 DEF Cancel
    <3> HIDE DEF r
    <3> QED BY <3>1, <3>2, CallOfPiece
  <2> QED BY <1>9, <2>1, <2>2, <2>3
<1>10. ASSUME NEW o \in Orders, NEW status, SetOrder(w, o, status) PROVE SerialInv'
  <2> DEFINE r == [Idle EXCEPT !.pc = "tx", !.op = "order", !.o = o, !.to = status, !.was = orders[o]]
  <2>1. r.pc = "tx" /\ r.op = "order"
    BY DEF Idle
  <2>2. Begin(w, r)
    BY <1>10 DEF SetOrder
  <2> HIDE DEF r
  <2>3. Between(r) /\ Grounded(r, piece[r.p])
    BY <2>1 DEF Between, Grounded
  <2> QED BY <2>2, <2>3, BegunSerially
<1> QED
  BY <1>1, <1>2, <1>3, <1>4, <1>6, <1>7, <1>8, <1>9, <1>10, ReleaseSerially, SMTT(40) DEF Call

----------------------------------------------------------------------------
(* The clock sweeps when no request is under way.                          *)

LEMMA AllIdle ==
  ASSUME SerialInv, clock.pc # "idle" \/ Quiet
  PROVE  /\ \A w \in Workers : req[w] = Idle
         /\ Fine(Idle, piece, lock, charged, orders)
<1>1. \A w \in Workers : req[w] = Idle
  BY DEF SerialInv, Turns, Quiet
<1>2. UnderWay(Idle)
  BY <1>1 DEF UnderWay
<1>3. Idle \in Request
  BY DEF Request, Idle, PieceAssumption
<1> QED BY <1>1, <1>2, <1>3 DEF SerialInv

LEMMA SweptOn ==
  ASSUME SerialInv, req' = req, \A w \in Workers : req[w] = Idle,
         clock'.pc # "complete" => clock'.due = {}, DueOK',
         Fine(Idle, piece', lock', charged', orders')
  PROVE  SerialInv'
<1>1. Turns'
  BY DEF Turns
<1>2. ASSUME NEW r, UnderWay(r)' PROVE r = Idle
  <2>1. UnderWay(r)' <=> \/ r # Idle /\ \E v \in Workers : req'[v] = r
                         \/ r = Idle /\ \A v \in Workers : req'[v] = Idle
    BY DEF UnderWay
  <2> QED BY <1>2, <2>1
<1>3. \A row : Grounded(Idle, row)
  BY DEF Grounded, Idle
<1>4. \A r \in Request : UnderWay(r)' => Grounded(r, piece'[r.p]) /\ Fine(r, piece', lock', charged', orders')
  BY <1>2, <1>3
<1> QED BY <1>1, <1>4 DEF SerialInv, Grounded, Fine, LockFine, ChargedFine, OrdersFine, AllDone, Settles, Tells

LEMMA NothingSettles == \A x : ~Settles(Idle, x)
BY DEF Settles, Idle

\* Every booked print whose time has come starts, and takes its printer.
LEMMA AdvanceSerially ==
  ASSUME BookingInv, SerialInv, Serial, ClockAdvance
  PROVE  SerialInv'
<1> DEFINE due == {p \in Pieces : piece[p].status = "scheduled" /\ Windowed(piece[p]) /\ piece[p].from <= now}
           rows == [p \in Pieces |-> IF p \in due THEN [piece[p] EXCEPT !.status = "printing"] ELSE piece[p]]
           starting(pr) == {p \in due : piece[p].printer = pr}
<1>1. /\ \A w \in Workers : req[w] = Idle
      /\ Fine(Idle, piece, lock, charged, orders) /\ clock.pc = "idle" /\ clock.due = {}
  BY AllIdle DEF ClockAdvance, SerialInv, Turns
<1>2. piece \in [Pieces -> Row] /\ ClockOK
  BY DEF BookingInv, RowsOK
<1>3. /\ piece' = rows /\ UNCHANGED <<orders, req, charged>>
      /\ clock' = [clock EXCEPT !.pc = "select"]
      /\ lock' \in [Printers -> Pieces \cup {None}]
      /\ \A pr \in Printers : IF starting(pr) = {} THEN lock'[pr] = lock[pr] ELSE lock'[pr] \in starting(pr)
  BY DEF ClockAdvance, Put
<1>4. \A p \in Pieces : /\ rows[p].printer = piece[p].printer /\ rows[p].source = piece[p].source
                        /\ p \in due => piece[p].status = "scheduled" /\ rows[p].status = "printing"
                        /\ p \notin due => rows[p] = piece[p]
  BY <1>2 DEF Row
<1>5. clock'.pc = "select" /\ clock'.due = {}
  BY <1>1, <1>2, <1>3 DEF ClockOK
<1>6. due \subseteq Pieces /\ \A p : p \in due => piece[p].status = "scheduled"
  OBVIOUS
<1>7. ASSUME NEW pr \in Printers
      PROVE  \/ lock'[pr] = lock[pr]
             \/ lock'[pr] \in due /\ piece[lock'[pr]].printer = pr
  BY <1>3
<1> HIDE DEF rows, due
<1>8. LockFine(Idle, rows, lock')
  <2>1. ASSUME NEW pr \in Printers, lock'[pr] # None
        PROVE  rows[lock'[pr]].printer = pr /\ rows[lock'[pr]].status = "printing"
    <3>1. CASE lock'[pr] = lock[pr]
      <4>1. lock[pr] \in Pieces /\ piece[lock[pr]].printer = pr /\ piece[lock[pr]].status = "printing"
        BY <1>1, <2>1, <3>1, NothingSettles DEF Fine, LockFine
      <4> QED BY <1>4, <1>6, <3>1, <4>1
    <3>2. CASE lock'[pr] \in due /\ piece[lock'[pr]].printer = pr
      BY <1>4, <1>6, <3>2
    <3> QED BY <1>7, <3>1, <3>2
  <2> QED BY <1>3, <2>1 DEF LockFine
<1>9. ChargedFine(Idle, rows, charged)
  <2>1. ASSUME NEW x \in Pieces \ Resin
        PROVE  /\ rows[x].status \in Early \cup {"printing"} => charged[x] = 0
               /\ rows[x].status \in {"done", "failed"} => rows[x].source = None \/ charged[x] = 1
    <3>1. /\ piece[x].status \in Early \cup {"printing"} => charged[x] = 0
          /\ piece[x].status \in {"done", "failed"} => piece[x].source = None \/ charged[x] = 1
      BY <1>1, NothingSettles DEF Fine, ChargedFine
    <3> QED BY <1>4, <3>1 DEF Early
  <2> QED BY <1>1, <2>1, NothingSettles DEF Fine, ChargedFine
<1>10. OrdersFine(Idle, rows, orders)
  <2>1. ASSUME NEW o \in Orders, orders[o] = "completed" PROVE AllDone(o, rows)
    <3>1. AllDone(o, piece)
      BY <1>1, <2>1 DEF Fine, OrdersFine, Tells, Idle
    <3> QED BY <1>4, <3>1 DEF AllDone
  <2> QED BY <2>1 DEF OrdersFine, Idle
<1>11. Fine(Idle, rows, lock', charged, orders)
  BY <1>8, <1>9, <1>10 DEF Fine
<1>12. DueOK'
  BY <1>5 DEF DueOK
<1> QED
  BY <1>1, <1>3, <1>5, <1>11, <1>12, SweptOn

LEMMA SelectSerially ==
  ASSUME BookingInv, SerialInv, ClockSelect
  PROVE  SerialInv'
<1> DEFINE due == {p \in Pieces : piece[p].status = "printing" /\ Windowed(piece[p]) /\ piece[p].to <= now}
<1>1. (\A w \in Workers : req[w] = Idle) /\ Fine(Idle, piece, lock, charged, orders)
  BY AllIdle DEF ClockSelect
<1>2. /\ UNCHANGED <<piece, lock, charged, orders, req>>
      /\ clock' = [pc |-> IF due = {} THEN "idle" ELSE "complete",
                   due |-> {<<p, piece[p].printer>> : p \in due}]
  BY DEF ClockSelect, world
<1>3. clock'.pc # "complete" => clock'.due = {}
  BY <1>2
<1>4. DueOK'
  BY <1>2 DEF DueOK
<1> QED
  BY <1>1, <1>2, <1>3, <1>4, SweptOn

\* A print found due is still the same when the sweep gets to it.
LEMMA DueSerially ==
  ASSUME BookingInv, SerialInv, NEW d \in clock.due, ClockComplete(d[1], d[2])
  PROVE  SerialInv'
<1> DEFINE p == d[1]
           printer == d[2]
           rows == [piece EXCEPT ![p].status = "done"]
           s == IF p \in Resin THEN None ELSE piece[p].source
           due == clock.due \ {<<p, printer>>}
<1>1. clock.pc = "complete" /\ <<p, printer>> \in clock.due
  BY DEF ClockComplete
<1>2. (\A w \in Workers : req[w] = Idle) /\ Fine(Idle, piece, lock, charged, orders)
  BY <1>1, AllIdle
<1>3. piece \in [Pieces -> Row] /\ ClockOK /\ orders \in [Orders -> Rollup!OrderStatus]
  BY DEF BookingInv, RowsOK, OrdersOK
<1>4. p \in Pieces /\ piece[p].status = "printing" /\ piece[p].printer = printer
  BY <1>1, <1>3 DEF SerialInv, DueOK, ClockOK
<1>5. /\ piece' = rows /\ req' = req
      /\ charged' = [charged EXCEPT ![p] = IF s = None THEN @ ELSE @ + 1]
      /\ lock' = FreeLock(printer, p)
      /\ orders' = [orders EXCEPT ![OrderOf[p]] = Rollup!Recomputed(@, RowsOf(OrderOf[p], rows), TRUE)]
      /\ clock' = [pc |-> IF due = {} THEN "idle" ELSE "complete", due |-> due]
  BY DEF ClockComplete
<1>6. /\ rows[p].status = "done" /\ rows[p].source = piece[p].source
      /\ \A x \in Pieces \ {p} : rows[x] = piece[x]
  BY <1>3, <1>4 DEF Row
<1>7. clock'.due = due /\ (clock'.pc # "complete" => clock'.due = {})
  BY <1>5
<1>8. ASSUME NEW e \in due PROVE e[1] \in Pieces \ {p} /\ piece[e[1]].status = "printing" /\ piece[e[1]].printer = e[2]
  <2>1. e \in clock.due /\ e = <<e[1], e[2]>> /\ e[1] \in Pieces
    BY <1>3, <1>8 DEF ClockOK
  <2>2. piece[e[1]].status = "printing" /\ piece[e[1]].printer = e[2]
    BY <2>1 DEF SerialInv, DueOK
  <2>3. e[1] # p
    BY <1>4, <1>8, <2>1, <2>2
  <2> QED BY <2>1, <2>2, <2>3
<1> HIDE DEF rows, due
<1>9. DueOK'
  BY <1>5, <1>6, <1>7, <1>8 DEF DueOK
<1>10. LockFine(Idle, rows, lock')
  <2>1. lock' \in [Printers -> Pieces \cup {None}]
    BY <1>2, <1>5 DEF FreeLock, Fine, LockFine
  <2>2. ASSUME NEW pr \in Printers, lock'[pr] # None
        PROVE  rows[lock'[pr]].printer = pr /\ rows[lock'[pr]].status = "printing"
    <3>1. lock'[pr] = lock[pr] /\ ~(pr = printer /\ lock[pr] = p)
      BY <1>5, <2>2 DEF FreeLock
    <3>2. lock[pr] \in Pieces /\ piece[lock[pr]].printer = pr /\ piece[lock[pr]].status = "printing"
      BY <1>2, <2>2, <3>1, NothingSettles DEF Fine, LockFine
    <3> QED BY <1>4, <1>6, <3>1, <3>2
  <2> QED BY <2>1, <2>2 DEF LockFine
<1>11. ChargedFine(Idle, rows, charged')
  <2>1. charged \in [Pieces -> Nat]
    BY <1>2 DEF Fine, ChargedFine
  <2>2. charged' \in [Pieces -> Nat]
    <3> DEFINE n == IF s = None THEN charged[p] ELSE charged[p] + 1
    <3>1. n \in Nat
      BY <1>4, <2>1
    <3>2. charged' = [charged EXCEPT ![p] = n]
      BY <1>5
    <3> HIDE DEF n
    <3> QED BY <1>4, <2>1, <3>1, <3>2
  <2>3. ASSUME NEW x \in Pieces \ Resin
        PROVE  /\ rows[x].status \in Early \cup {"printing"} => charged'[x] = 0
               /\ rows[x].status \in {"done", "failed"} => rows[x].source = None \/ charged'[x] = 1
    <3>1. /\ piece[x].status \in Early \cup {"printing"} => charged[x] = 0
          /\ piece[x].status \in {"done", "failed"} => piece[x].source = None \/ charged[x] = 1
      BY <1>2, NothingSettles DEF Fine, ChargedFine
    <3>2. CASE x = p
      <4>1. charged[p] = 0 /\ s = piece[p].source
        BY <1>4, <3>1, <3>2
      <4>2. piece[p].source # None => charged'[p] = 1
        BY <1>4, <1>5, <2>1, <4>1
      <4> QED BY <1>6, <3>2, <4>2 DEF Early
    <3>3. CASE x # p
      <4>1. charged'[x] = charged[x]
        BY <1>5, <2>1, <3>3
      <4> QED BY <1>6, <3>1, <3>3, <4>1
    <3> QED BY <3>2, <3>3
  <2> QED BY <2>2, <2>3, NothingSettles DEF ChargedFine
<1>12. OrdersFine(Idle, rows, orders')
  <2>1. ASSUME NEW o \in Orders, orders'[o] = "completed" PROVE AllDone(o, rows)
    <3>1. CASE o = OrderOf[p]
      BY <1>3, <1>5, <2>1, <3>1, CompletedByRollup
    <3>2. CASE o # OrderOf[p]
      <4>1. orders[o] = "completed"
        BY <1>3, <1>5, <2>1, <3>2
      <4>2. AllDone(o, piece)
        BY <1>2, <4>1 DEF Fine, OrdersFine, Tells, Idle
      <4> QED BY <1>6, <3>2, <4>2 DEF AllDone
    <3> QED BY <3>1, <3>2
  <2> QED BY <2>1 DEF OrdersFine, Idle
<1>13. Fine(Idle, rows, lock', charged', orders')
  BY <1>10, <1>11, <1>12 DEF Fine
<1> QED
  BY <1>2, <1>5, <1>7, <1>9, <1>13, SweptOn

LEMMA SerialInit ==
  ASSUME Init
  PROVE  SerialInv
<1>1. \A w \in Workers : req[w] = Idle
  BY DEF Init
<1>2. Turns /\ DueOK
  BY <1>1 DEF Init, Turns, DueOK
<1>3. ASSUME NEW r, UnderWay(r) PROVE r = Idle
  BY <1>1, <1>3 DEF UnderWay
<1>4. \A row : Grounded(Idle, row)
  BY DEF Grounded, Idle
<1>5. LockFine(Idle, piece, lock)
  BY DEF Init, LockFine
<1>6. ChargedFine(Idle, piece, charged)
  BY DEF Init, ChargedFine, Fresh
<1>7. OrdersFine(Idle, piece, orders)
  BY DEF Init, OrdersFine, Idle
<1>8. Fine(Idle, piece, lock, charged, orders)
  BY <1>5, <1>6, <1>7 DEF Fine
<1>9. \A r \in Request : UnderWay(r) => Grounded(r, piece[r.p]) /\ Fine(r, piece, lock, charged, orders)
  BY <1>3, <1>4, <1>8
<1> QED BY <1>2, <1>9 DEF SerialInv

LEMMA SerialStep ==
  ASSUME TakingTurns, BookingInv, SerialInv, [Next]_vars
  PROVE  SerialInv'
<1>1. Serial /\ "request" \notin Faults
  BY DEF TakingTurns
<1>2. ASSUME NEW w \in Workers, Proceed(w) PROVE SerialInv'
  BY <1>2, AssignSerially, UnassignSerially, ReserveSerially, CheckSerially, ScheduleSerially,
     StartSerially, CompleteSerially, SettleSerially, ReprintSerially, RestoreSerially,
     CancelSerially, SyncSerially, OrderSerially DEF Proceed
<1>3. CASE Tick
  BY <1>1, <1>3, AdvanceSerially, SelectSerially, DueSerially DEF Tick, CompleteOne
<1>4. CASE TimePasses \/ UNCHANGED vars
  <2>1. UNCHANGED <<piece, orders, lock, req, clock, charged>>
    BY <1>4 DEF TimePasses, vars, world
  <2> QED
    BY <2>1 DEF SerialInv, Turns, DueOK, UnderWay, Grounded, Fine, LockFine, ChargedFine,
                OrdersFine, AllDone, Settles, Tells
<1>5. CASE TickFails
  <2>1. (\A w \in Workers : req[w] = Idle) /\ Fine(Idle, piece, lock, charged, orders)
    BY <1>5, AllIdle DEF TickFails
  <2>2. UNCHANGED <<piece, orders, lock, req, charged>> /\ clock'.due = {}
    BY <1>5 DEF TickFails, world
  <2>3. DueOK'
    BY <2>2 DEF DueOK
  <2> QED BY <2>1, <2>2, <2>3, SweptOn
<1> QED
  BY <1>1, <1>2, <1>3, <1>4, <1>5, CallSerially DEF Next, RequestFails

\* As long as requests and sweeps take turns and no request is cut short,
\* every request still finds what it was let in on when it writes.
THEOREM SerialInvariance ==
  ASSUME TakingTurns
  PROVE  Spec => []SerialInv
<1>1. Init => SerialInv
  BY SerialInit
<1>2. BookingInv /\ SerialInv /\ [Next]_vars => SerialInv'
  BY SerialStep
<1> QED
  BY <1>1, <1>2, BookingInvariance, PTL DEF Spec

\* What is fine with no request under way.
LEMMA QuietIsFine ==
  ASSUME SerialInv, Quiet
  PROVE  Fine(Idle, piece, lock, charged, orders)
BY AllIdle

\* Between requests a printer in use is held by a piece printing on it: start
\* and the sweep take the printer with the status, and whatever ends the
\* print gives it back before the next request.
THEOREM LocksAreHeld ==
  ASSUME TakingTurns
  PROVE  Spec => []LockIsHeldByItsPrint
<1>1. SerialInv => LockIsHeldByItsPrint
  BY QuietIsFine, NothingSettles DEF LockIsHeldByItsPrint, Fine, LockFine
<1> QED
  BY <1>1, SerialInvariance, PTL

\* Between requests a filament print that ended, by an operator or by the
\* sweep, has been charged to its spool exactly once.  (The sweep charges no
\* resin.)
THEOREM EndedPrintsAreCharged ==
  ASSUME TakingTurns, Resin = {}
  PROVE  Spec => []EndedPrintsAreChargedOnce
<1>1. SerialInv => EndedPrintsAreChargedOnce
  BY QuietIsFine, NothingSettles DEF EndedPrintsAreChargedOnce, Fine, ChargedFine
<1> QED
  BY <1>1, SerialInvariance, PTL

\* Between requests an order called completed has produced pieces only:
\* whatever takes one back tells the order before the next request.
THEOREM CompletedOrdersAreProduced ==
  ASSUME TakingTurns
  PROVE  Spec => []CompletedMeansProduced
<1>1. SerialInv => CompletedMeansProduced
  <2> SUFFICES ASSUME SerialInv, Quiet, NEW o \in Orders, orders[o] = "completed"
               PROVE  Rollup!Produced(RowsOf(o, piece))
    BY DEF CompletedMeansProduced
  <2>1. AllDone(o, piece)
    BY QuietIsFine DEF Fine, OrdersFine, Tells, Idle
  <2> QED BY <2>1, ProducedIsAllDone
<1> QED
  BY <1>1, SerialInvariance, PTL
=============================================================================
