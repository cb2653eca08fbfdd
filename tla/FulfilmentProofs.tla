--------------------------- MODULE FulfilmentProofs ---------------------------
(***************************************************************************)
(* Proofs about Fulfilment, for any number of pieces: while requests come  *)
(* one at a time, whatever statement of theirs fails, and the clock ends   *)
(* no resin print, no uncured part is shipped and the order mirrors its    *)
(* pieces.  Both hypotheses are the program's: beside one another two      *)
(* requests may take back the state each other read, and the clock's       *)
(* completion is the finding of the run fulfil_clock.                      *)
(***************************************************************************)
EXTENDS Fulfilment, TLAPS

OneAtATime == \A v, w \in Workers : v = w
ClockSparesResin == Clocked \cap Resin = {}

----------------------------------------------------------------------------
(* The inductive invariant.                                                *)

Row == [status : {"printing", "done"}, fulfilment : Rollup!Fulfilment, post : Post]
Request == [pc : {"idle", "update", "count", "commit"}, op : {"none", "ship", "cure", "print", "clock"},
            p : Pieces \cup {None}, to : Rollup!Fulfilment \cup Post \cup {"done"},
            order : Rollup!OrderStatus]

\* What a piece has been through: only what is done is shipped, only resin is
\* cured, and a resin part is cured before it is shipped.
Sound(p, row) ==
  /\ row.status = "printing" => row.fulfilment = "none"
  /\ p \in Resin => (row.post = "none" <=> row.status = "printing")
  /\ p \notin Resin => row.post = "none"
  /\ p \in Resin /\ row.fulfilment # "none" => row.post = "cured"

PiecesOK == piece \in [Pieces -> Row] /\ \A p \in Pieces : Sound(p, piece[p])

\* What a request decided on is still so when it writes.
Grounded(q, row) ==
  \/ /\ q.op = "ship" /\ row.status = "done" /\ q.to \in Rollup!Fulfilment
     /\ q.to = "none" \/ row.post \in {"none", "cured"}
  \/ /\ q.op = "cure" /\ row.status = "done" /\ row.fulfilment = "none"
     /\ q.pc = "update" /\ q.to \in Post \ {"none"} /\ row.post # "none"
  \/ q.op = "print" /\ row.status = IF q.pc = "update" THEN "printing" ELSE "done"
  \/ q.op = "clock" /\ q.p \in Clocked /\ row.status = "printing"

RequestsOK ==
  /\ req \in [Workers -> Request]
  /\ \A w \in Workers :
       \/ req[w] = Idle
       \/ /\ req[w].pc # "idle" /\ req[w].p \in Pieces
          /\ Grounded(req[w], piece[req[w].p])
          /\ req[w].pc = "commit" => req[w].order = Rollup!Target(Seen(w))

\* A completion that has committed its piece and not yet counted the order's.
Unsynced == \E w \in Workers : req[w].op = "print" /\ req[w].pc \in {"count", "commit"}

OrderOK == /\ order \in Rollup!OrderStatus /\ lost \in BOOLEAN
           /\ ~lost /\ ~Unsynced => order = Rollup!Target(piece)

FulfilmentInv == PiecesOK /\ RequestsOK /\ OrderOK

----------------------------------------------------------------------------
(* The derived status.                                                     *)

\* A derived status is a status of an order.
LEMMA TargetIsAStatus == \A pcs : Rollup!Target(pcs) \in Rollup!OrderStatus
  BY DEF Rollup!Target, Rollup!LeastAdvancedStage, Rollup!OrderStatus, Rollup!Shipping,
         Rollup!Fulfilment

\* Washing and curing do not show in the derived status.
LEMMA TargetIgnoresPost ==
  ASSUME NEW P, NEW Q, DOMAIN P = DOMAIN Q,
         \A x \in DOMAIN P : P[x].status = Q[x].status /\ P[x].fulfilment = Q[x].fulfilment
  PROVE  Rollup!Target(P) = Rollup!Target(Q)
<1>1. Rollup!Active(P) = Rollup!Active(Q)
  BY DEF Rollup!Active
<1>2. {P[x].fulfilment : x \in Rollup!Active(P)} = {Q[x].fulfilment : x \in Rollup!Active(Q)}
  BY <1>1 DEF Rollup!Active
<1>3. Rollup!LeastAdvancedStage(P) = Rollup!LeastAdvancedStage(Q)
  BY <1>2 DEF Rollup!LeastAdvancedStage
<1>4. Rollup!Produced(P) <=> Rollup!Produced(Q)
  BY <1>1 DEF Rollup!Produced, Rollup!Active
<1>5. \A S : Rollup!SomeIn(P, S) <=> Rollup!SomeIn(Q, S)
  BY DEF Rollup!SomeIn
<1> QED BY <1>3, <1>4, <1>5 DEF Rollup!Target

\* The order of pieces that are printing or done is in progress, or as far as
\* the slowest of them.
LEMMA TargetMirrors ==
  ASSUME Pieces # {}, piece \in [Pieces -> Row]
  PROVE  IF \E p \in Pieces : piece[p].status = "printing"
         THEN Rollup!Target(piece) = "in_progress"
         ELSE /\ \A p \in Pieces : Rank(Rollup!Target(piece)) <= Rank(piece[p].fulfilment)
              /\ \E p \in Pieces : Rank(Rollup!Target(piece)) = Rank(piece[p].fulfilment)
<1>1. DOMAIN piece = Pieces /\ \A p \in Pieces : piece[p].status \in {"printing", "done"}
                                                  /\ piece[p].fulfilment \in Rollup!Fulfilment
  BY DEF Row
<1>2. Rollup!Active(piece) = Pieces
  BY <1>1 DEF Rollup!Active
<1>3. CASE \E p \in Pieces : piece[p].status = "printing"
  <2>1. ~Rollup!Produced(piece)
    BY <1>2, <1>3 DEF Rollup!Produced
  <2>2. Rollup!SomeIn(piece, {"printing", "scheduled", "done", "failed"})
    BY <1>1, <1>3 DEF Rollup!SomeIn
  <2> QED BY <2>1, <2>2, <1>3 DEF Rollup!Target
<1>4. CASE \A p \in Pieces : piece[p].status = "done"
  <2>1. Rollup!Target(piece) = Rollup!LeastAdvancedStage(piece)
    BY <1>2, <1>4 DEF Rollup!Target, Rollup!Produced
  <2> DEFINE S == {piece[p].fulfilment : p \in Pieces}
  <2>2. S \subseteq Rollup!Fulfilment /\ \A p \in Pieces : piece[p].fulfilment \in S
    BY <1>1
  <2>3. Rollup!LeastAdvancedStage(piece) =
          IF "none" \in S THEN "completed"
          ELSE IF "ready_for_shipping" \in S THEN "ready_for_shipping"
          ELSE IF "out_for_shipping" \in S THEN "out_for_shipping"
          ELSE "fulfilled"
    BY <1>2 DEF Rollup!LeastAdvancedStage
  <2>4. \E s \in S : Rank(Rollup!LeastAdvancedStage(piece)) = Rank(s)
                      /\ \A t \in S : Rank(Rollup!LeastAdvancedStage(piece)) <= Rank(t)
    <3> HIDE DEF S
    <3>1. Rank("completed") = 1 /\ Rank("none") = 1 /\ Rank("ready_for_shipping") = 2
          /\ Rank("out_for_shipping") = 3 /\ Rank("fulfilled") = 4
      BY DEF Rank
    <3>2. \A t \in S : t \in {"none", "ready_for_shipping", "out_for_shipping", "fulfilled"}
      BY <2>2 DEF Rollup!Fulfilment
    <3>3. S # {}
      BY <2>2
    <3>8. \A t \in S : Rank(t) \in 1..4
      BY <3>1, <3>2
    <3>4. CASE "none" \in S
      <4>1. Rollup!LeastAdvancedStage(piece) = "completed"
        BY <2>3, <3>4
      <4> QED BY <3>1, <3>8, <3>4, <4>1
    <3>5. CASE "none" \notin S /\ "ready_for_shipping" \in S
      <4>1. Rollup!LeastAdvancedStage(piece) = "ready_for_shipping"
        BY <2>3, <3>5
      <4>2. \A t \in S : Rank(t) \in 2..4
        BY <3>1, <3>2, <3>5
      <4> QED BY <3>1, <4>2, <3>5, <4>1
    <3>6. CASE "none" \notin S /\ "ready_for_shipping" \notin S /\ "out_for_shipping" \in S
      BY <2>3, <3>1, <3>2, <3>6
    <3>7. CASE "none" \notin S /\ "ready_for_shipping" \notin S /\ "out_for_shipping" \notin S
      BY <2>3, <3>1, <3>2, <3>3, <3>7
    <3> QED BY <3>4, <3>5, <3>6, <3>7
  <2>5. PICK p \in Pieces : Rank(Rollup!LeastAdvancedStage(piece)) = Rank(piece[p].fulfilment)
    BY <2>4
  <2>6. \A q \in Pieces : Rank(Rollup!LeastAdvancedStage(piece)) <= Rank(piece[q].fulfilment)
    BY <2>4
  <2> QED BY <2>1, <2>5, <2>6, <1>4
<1> QED BY <1>1, <1>3, <1>4

----------------------------------------------------------------------------
(* The invariant holds.                                                    *)

\* A piece as jobs.complete leaves it, field by field.
LEMMA CompletedIs ==
  \A p : Completed(p) = [status |-> "done", fulfilment |-> "none",
                         post |-> IF p \in Resin THEN "print_done" ELSE "none"]
<1> TAKE p
<1>1. [OnMachine EXCEPT !.status = "done"] = [status |-> "done", fulfilment |-> "none", post |-> "none"]
  BY DEF OnMachine
<1>2. PICK done : done = [OnMachine EXCEPT !.status = "done"]
  OBVIOUS
<1>3. Completed(p) = [done EXCEPT !.post = IF p \in Resin THEN "print_done" ELSE "none"]
  BY <1>2 DEF Completed, OnMachine
<1> QED BY <1>1, <1>2, <1>3

\* The order as the model starts is in the invariant.
LEMMA InitInv == ClockSparesResin /\ Init => FulfilmentInv
<1> SUFFICES ASSUME ClockSparesResin, Init PROVE FulfilmentInv
  OBVIOUS
<1> USE FulfilmentAssumption
<1>1. \A p \in Pieces : Completed(p) = [status |-> "done", fulfilment |-> "none",
                                        post |-> IF p \in Resin THEN "print_done" ELSE "none"]
  BY CompletedIs
<1>2. PiecesOK
  <2>1. \A p \in Pieces : piece[p] \in Row /\ Sound(p, piece[p])
    BY <1>1 DEF Init, OnMachine, Row, Sound, Post, Rollup!Fulfilment
  <2> QED BY <2>1 DEF PiecesOK, Init
<1>3. Idle \in Request
  BY DEF Idle, Request, Rollup!Fulfilment, Rollup!OrderStatus
<1>4. RequestsOK
  BY <1>3 DEF RequestsOK, Init
<1>5. OrderOK
  BY TargetIsAStatus DEF OrderOK, Init
<1> QED BY <1>2, <1>4, <1>5 DEF FulfilmentInv

\* With one request at a time the others are idle, and nobody holds a lock.
LEMMA OneRequest ==
  ASSUME OneAtATime, RequestsOK, NEW w \in Workers
  PROVE  /\ Workers = {w}
         /\ req \in [{w} -> Request]
         /\ \A q : [req EXCEPT ![w] = q] = [v \in {w} |-> q]
<1>1. Workers = {w} /\ req \in [Workers -> Request]
  BY DEF OneAtATime, RequestsOK
<1> QED BY <1>1

\* A step of a request that leaves pieces and order alone.
LEMMA DecideStep ==
  ASSUME OneAtATime, FulfilmentInv, NEW w \in Workers, NEW q \in Request,
         req' = [req EXCEPT ![w] = q], UNCHANGED <<piece, order>>, lost' \in BOOLEAN,
         q = Idle \/ /\ q.pc # "idle" /\ q.p \in Pieces /\ Grounded(q, piece[q.p])
                     /\ q.pc = "commit" => q.order = Rollup!Target(Seen(w)'),
         ~lost' /\ ~(q.op = "print" /\ q.pc \in {"count", "commit"}) => ~lost /\ ~Unsynced
  PROVE  FulfilmentInv'
<1>1. /\ Workers = {w} /\ req' = [v \in {w} |-> q]
  BY OneRequest DEF FulfilmentInv
<1>2. PiecesOK'
  BY DEF FulfilmentInv, PiecesOK
<1>3. RequestsOK'
  <2>1. \A v \in Workers : req'[v] = q
    BY <1>1
  <2>2. Grounded(q, piece[q.p])' <=> Grounded(q, piece[q.p])
    BY DEF Grounded
  <2>3. \A v \in Workers : Seen(v)' = Seen(w)'
    BY <1>1
  <2> QED BY <1>1, <2>1, <2>2, <2>3 DEF RequestsOK
<1>4. OrderOK'
  <2>1. Unsynced' <=> (q.op = "print" /\ q.pc \in {"count", "commit"})
    BY <1>1 DEF Unsynced
  <2> QED BY <2>1 DEF FulfilmentInv, OrderOK
<1> QED BY <1>2, <1>3, <1>4 DEF FulfilmentInv

\* A piece is updated, and nothing else of the order.
LEMMA RowUpdated ==
  ASSUME PiecesOK, NEW p \in Pieces, NEW r \in Row, Sound(p, r)
  PROVE  /\ [piece EXCEPT ![p] = r] \in [Pieces -> Row]
         /\ \A x \in Pieces : Sound(x, [piece EXCEPT ![p] = r][x])
BY DEF PiecesOK

\* What the update of a grounded request leaves its piece as.
LEMMA UpdateIsSound ==
  ASSUME ClockSparesResin, FulfilmentInv, NEW w \in Workers, req[w] # Idle,
         req[w].op = "print" => req[w].pc = "update"
  PROVE  \E r \in Row : /\ Updated(w) = [piece EXCEPT ![req[w].p] = r]
                        /\ Sound(req[w].p, r)
                        /\ req[w].op # "cure" => r.status = "done"
                        /\ req[w].op = "cure" =>
                             r.status = piece[req[w].p].status
                               /\ r.fulfilment = piece[req[w].p].fulfilment
<1> DEFINE q == req[w]
           p == q.p
           row == piece[p]
<1>1. p \in Pieces /\ Grounded(q, row)
  BY DEF FulfilmentInv, RequestsOK
<1>2. row \in Row /\ Sound(p, row) /\ row = [status |-> row.status, fulfilment |-> row.fulfilment, post |-> row.post]
  BY <1>1 DEF FulfilmentInv, PiecesOK, Row
<1>3. CASE q.op = "ship"
  <2>1. Updated(w) = [piece EXCEPT ![p] = [row EXCEPT !.fulfilment = q.to]]
    BY <1>3, <1>1 DEF Updated, FulfilmentInv, PiecesOK
  <2>2. [row EXCEPT !.fulfilment = q.to] = [status |-> row.status, fulfilment |-> q.to, post |-> row.post]
    BY <1>2 DEF Row
  <2>3. row.status = "done" /\ q.to \in Rollup!Fulfilment /\ (q.to = "none" \/ row.post \in {"none", "cured"})
    BY <1>1, <1>3 DEF Grounded
  <2>4. [row EXCEPT !.fulfilment = q.to] \in Row /\ Sound(p, [row EXCEPT !.fulfilment = q.to])
    BY <1>2, <2>2, <2>3 DEF Row, Sound
  <2> QED BY <2>1, <2>2, <2>3, <2>4, <1>3
<1>4. CASE q.op = "cure"
  <2>1. Updated(w) = [piece EXCEPT ![p] = [row EXCEPT !.post = q.to]]
    BY <1>4, <1>1 DEF Updated, FulfilmentInv, PiecesOK
  <2>2. [row EXCEPT !.post = q.to] = [status |-> row.status, fulfilment |-> row.fulfilment, post |-> q.to]
    BY <1>2 DEF Row
  <2>3. row.status = "done" /\ row.fulfilment = "none" /\ q.to \in Post \ {"none"} /\ row.post # "none"
    BY <1>1, <1>4 DEF Grounded
  <2>4. [row EXCEPT !.post = q.to] \in Row /\ Sound(p, [row EXCEPT !.post = q.to])
    BY <1>2, <2>2, <2>3 DEF Row, Sound
  <2> QED BY <2>1, <2>2, <2>4, <1>4
<1>5. CASE q.op = "print"
  <2>1. Updated(w) = [piece EXCEPT ![p] = Completed(p)]
    BY <1>5 DEF Updated
  <2>2. Completed(p) = [status |-> "done", fulfilment |-> "none",
                        post |-> IF p \in Resin THEN "print_done" ELSE "none"]
    BY CompletedIs
  <2>3. Completed(p) \in Row /\ Sound(p, Completed(p)) /\ Completed(p).status = "done"
    BY <2>2 DEF Row, Sound, Post, Rollup!Fulfilment
  <2> QED BY <2>1, <2>3, <1>5
<1>6. CASE q.op = "clock"
  <2>1. Updated(w) = [piece EXCEPT ![p] = [row EXCEPT !.status = "done"]]
    BY <1>6, <1>1 DEF Updated, FulfilmentInv, PiecesOK
  <2>2. [row EXCEPT !.status = "done"] = [status |-> "done", fulfilment |-> row.fulfilment, post |-> row.post]
    BY <1>2 DEF Row
  <2>3. row.status = "printing" /\ p \notin Resin
    BY <1>1, <1>6 DEF Grounded, ClockSparesResin
  <2>4. [row EXCEPT !.status = "done"] \in Row /\ Sound(p, [row EXCEPT !.status = "done"])
    BY <1>2, <2>2, <2>3 DEF Row, Sound
  <2> QED BY <2>1, <2>2, <2>4, <1>6
<1> QED BY <1>1, <1>3, <1>4, <1>5, <1>6 DEF Grounded

\* A request is accepted: what it decided on holds when it decides.
LEMMA AcceptStep ==
  ASSUME OneAtATime, FulfilmentInv, NEW w \in Workers, NEW op \in {"ship", "cure", "print", "clock"},
         NEW p \in Pieces, NEW to \in Rollup!Fulfilment \cup Post \cup {"done"}, Accept(w, op, p, to),
         \A q \in Request : q.pc = "update" /\ q.op = op /\ q.p = p /\ q.to = to => Grounded(q, piece[p])
  PROVE  FulfilmentInv'
<1>1. PICK q : q = [pc |-> "update", op |-> op, p |-> p, to |-> to, order |-> "draft"]
  OBVIOUS
<1>2. q \in Request
  BY <1>1 DEF Request, Rollup!OrderStatus
<1>3. [Idle EXCEPT !.pc = "update", !.op = op, !.p = p, !.to = to] = q
  <2>1. PICK a : a = [Idle EXCEPT !.pc = "update"]
    OBVIOUS
  <2>2. PICK b : b = [a EXCEPT !.op = op]
    OBVIOUS
  <2>3. PICK c : c = [b EXCEPT !.p = p]
    OBVIOUS
  <2>4. a = [pc |-> "update", op |-> "none", p |-> None, to |-> "none", order |-> "draft"]
    BY <2>1 DEF Idle
  <2>5. b = [pc |-> "update", op |-> op, p |-> None, to |-> "none", order |-> "draft"]
    BY <2>2, <2>4
  <2>6. c = [pc |-> "update", op |-> op, p |-> p, to |-> "none", order |-> "draft"]
    BY <2>3, <2>5
  <2>7. [c EXCEPT !.to = to] = q
    BY <2>6, <1>1
  <2>8. [Idle EXCEPT !.pc = "update", !.op = op, !.p = p, !.to = to] = [c EXCEPT !.to = to]
    BY <2>1, <2>2, <2>3 DEF Idle
  <2> QED BY <2>7, <2>8
<1>4. /\ req' = [req EXCEPT ![w] = q] /\ UNCHANGED <<piece, order>> /\ lost' = lost /\ req[w] = Idle
  BY <1>3 DEF Accept
<1>5. ~Unsynced
  BY <1>4 DEF OneAtATime, Unsynced, Idle
<1>6. lost' \in BOOLEAN
  BY <1>4 DEF FulfilmentInv, OrderOK
<1>7. Grounded(q, piece[q.p]) /\ q.pc = "update" /\ q.p \in Pieces
  BY <1>1, <1>2
<1> QED BY <1>2, <1>4, <1>5, <1>6, <1>7, DecideStep

\* Each step keeps the invariant.
LEMMA StepInv ==
  ASSUME OneAtATime, ClockSparesResin, FulfilmentInv, NEW w \in Workers,
         \/ \E p \in Pieces : \/ \E to \in Rollup!Fulfilment : Ship(w, p, to)
                              \/ \E to \in Post : PostProcess(w, p, to)
                              \/ Finish(w, p)
         \/ UpdateAndCommit(w) \/ Update(w) \/ Count(w) \/ Commit(w) \/ Fail(w)
  PROVE  FulfilmentInv'
<1> USE FulfilmentAssumption
<1>0. /\ Workers = {w} /\ req \in [{w} -> Request] /\ req[w] \in Request
      /\ \A q : [req EXCEPT ![w] = q] = [v \in {w} |-> q]
      /\ lost \in BOOLEAN /\ Idle \in Request
  BY OneRequest DEF FulfilmentInv, OrderOK, Idle, Request, Rollup!Fulfilment, Rollup!OrderStatus
<1>00. /\ req[w] # Idle <=> req[w].pc # "idle"
       /\ req[w] # Idle => /\ req[w].p \in Pieces /\ Grounded(req[w], piece[req[w].p])
                           /\ req[w].pc = "commit" => req[w].order = Rollup!Target(Seen(w))
  BY DEF FulfilmentInv, RequestsOK, Idle
<1>01. Unsynced <=> (req[w].op = "print" /\ req[w].pc \in {"count", "commit"})
  BY <1>0 DEF Unsynced
<1>1. ASSUME NEW p \in Pieces, NEW to \in Rollup!Fulfilment, Ship(w, p, to) PROVE FulfilmentInv'
  <2>1. \A q \in Request : q.pc = "update" /\ q.op = "ship" /\ q.p = p /\ q.to = to => Grounded(q, piece[p])
    BY <1>1 DEF Ship, Grounded
  <2>2. Accept(w, "ship", p, to)
    BY <1>1 DEF Ship
  <2> QED BY <2>1, <2>2, AcceptStep
<1>2. ASSUME NEW p \in Pieces, NEW to \in Post, PostProcess(w, p, to) PROVE FulfilmentInv'
  <2>1. /\ piece[p].status = "done" /\ piece[p].fulfilment = "none" /\ <<piece[p].post, to>> \in PostEdges
        /\ Accept(w, "cure", p, to)
    BY <1>2 DEF PostProcess
  <2>2. piece[p].post # "none" /\ to # "none"
    BY <2>1 DEF PostEdges, WithUndo
  <2>3. \A q \in Request : q.pc = "update" /\ q.op = "cure" /\ q.p = p /\ q.to = to => Grounded(q, piece[p])
    BY <2>1, <2>2 DEF Grounded
  <2> QED BY <2>1, <2>3, AcceptStep
<1>3. ASSUME NEW p \in Pieces, Finish(w, p) PROVE FulfilmentInv'
  <2>1. /\ piece[p].status = "printing"
        /\ Accept(w, "print", p, "done") \/ (p \in Clocked /\ Accept(w, "clock", p, "done"))
    BY <1>3 DEF Finish
  <2>2. \A q \in Request : q.pc = "update" /\ q.p = p /\ q.op = "print" => Grounded(q, piece[p])
    BY <2>1 DEF Grounded
  <2>3. p \in Clocked => \A q \in Request : q.pc = "update" /\ q.p = p /\ q.op = "clock" => Grounded(q, piece[p])
    BY <2>1 DEF Grounded
  <2> QED BY <2>1, <2>2, <2>3, AcceptStep
<1>4. ASSUME UpdateAndCommit(w) PROVE FulfilmentInv'
  <2>1. /\ req[w].pc = "update" /\ req[w].op \in {"cure", "print"} /\ piece' = Updated(w)
        /\ UNCHANGED <<order, lost>>
        /\ req' = [req EXCEPT ![w] = IF req[w].op = "cure" THEN Idle ELSE [req[w] EXCEPT !.pc = "count"]]
    BY <1>4, <1>0 DEF UpdateAndCommit
  <2>2. PICK r \in Row : /\ piece' = [piece EXCEPT ![req[w].p] = r] /\ Sound(req[w].p, r)
                         /\ req[w].op # "cure" => r.status = "done"
                         /\ req[w].op = "cure" => r.status = piece[req[w].p].status
                                                  /\ r.fulfilment = piece[req[w].p].fulfilment
    BY <2>1, <1>00, UpdateIsSound
  <2>3. PiecesOK'
    BY <2>2, <2>1, <1>00, RowUpdated DEF FulfilmentInv, PiecesOK
  <2>4. CASE req[w].op = "cure"
    <3>1. \A v \in Workers : req'[v] = Idle
      BY <2>1, <2>4, <1>0
    <3>2. RequestsOK'
      BY <3>1, <2>1, <2>4, <1>0 DEF RequestsOK
    <3>3. Rollup!Target(piece') = Rollup!Target(piece)
      <4>1. DOMAIN piece' = DOMAIN piece /\ \A x \in DOMAIN piece' : piece'[x].status = piece[x].status
                                              /\ piece'[x].fulfilment = piece[x].fulfilment
        BY <2>2, <2>4
      <4> QED BY <4>1, TargetIgnoresPost
    <3>4. OrderOK'
      BY <3>3, <2>1, <2>4, <1>01 DEF OrderOK, FulfilmentInv
    <3> QED BY <2>3, <3>2, <3>4 DEF FulfilmentInv
  <2>5. CASE req[w].op = "print"
    <3>1. PICK q : q = [req[w] EXCEPT !.pc = "count"]
      OBVIOUS
    <3>2. q \in Request /\ q.pc = "count" /\ q.op = "print" /\ q.p = req[w].p
      BY <3>1, <2>5, <1>0 DEF Request
    <3>3. \A v \in Workers : req'[v] = q
      BY <2>1, <2>5, <1>0, <3>1
    <3>4. piece'[q.p].status = "done"
      BY <2>2, <3>2, <2>5, <1>00, <2>1 DEF FulfilmentInv, PiecesOK
    <3>5. RequestsOK'
      BY <3>2, <3>3, <3>4, <2>1, <1>0, <1>00 DEF RequestsOK, Grounded
    <3>6. OrderOK'
      BY <3>2, <3>3, <2>1 DEF OrderOK, FulfilmentInv, Unsynced
    <3> QED BY <2>3, <3>5, <3>6 DEF FulfilmentInv
  <2> QED BY <2>1, <2>4, <2>5
<1>5. ASSUME Update(w) PROVE FulfilmentInv'
  <2>1. /\ req[w].pc = "update" /\ req[w].op \in {"ship", "clock"} /\ UNCHANGED <<piece, order, lost>>
        /\ req' = [req EXCEPT ![w] = [req[w] EXCEPT !.pc = "count"]]
    BY <1>5, <1>0 DEF Update
  <2>2. PICK q : q = [req[w] EXCEPT !.pc = "count"]
    OBVIOUS
  <2>3. q \in Request /\ q.pc = "count" /\ q.op = req[w].op /\ q.p = req[w].p /\ q.to = req[w].to
    BY <2>2, <1>0 DEF Request
  <2>4. Grounded(q, piece[q.p])
    BY <2>3, <2>1, <1>00 DEF Grounded
  <2> QED BY <2>1, <2>2, <2>3, <2>4, <1>00, <1>01, <1>0, DecideStep
<1>6. ASSUME Count(w) PROVE FulfilmentInv'
  <2>1. /\ req[w].pc = "count" /\ UNCHANGED <<piece, order, lost>>
        /\ req' = [req EXCEPT ![w] = [req[w] EXCEPT !.pc = "commit", !.order = Rollup!Target(Seen(w))]]
    BY <1>6, <1>0 DEF Count
  <2>2. PICK s : s = Rollup!Target(Seen(w))
    OBVIOUS
  <2>3. PICK q : q = [req[w] EXCEPT !.pc = "commit", !.order = s]
    OBVIOUS
  <2>4. /\ q \in Request /\ q.pc = "commit" /\ q.op = req[w].op /\ q.p = req[w].p /\ q.to = req[w].to
        /\ q.order = s
    BY <2>2, <2>3, <1>0, TargetIsAStatus DEF Request
  <2>5. Grounded(q, piece[q.p])
    BY <2>4, <2>1, <1>00 DEF Grounded
  <2>6. req' = [req EXCEPT ![w] = q] /\ req'[w] = q
    BY <2>1, <2>2, <2>3, <1>0
  <2>7. Seen(w)' = Seen(w)
    BY <2>1, <2>4, <2>6 DEF Seen, InTransaction, Updated
  <2>8. q.order = Rollup!Target(Seen(w)')
    BY <2>2, <2>4, <2>7
  <2> QED BY <2>1, <2>4, <2>5, <2>6, <2>8, <1>00, <1>01, <1>0, DecideStep
<1>7. ASSUME Commit(w) PROVE FulfilmentInv'
  <2>1. /\ req[w].pc = "commit" /\ piece' = Seen(w) /\ order' = req[w].order
        /\ req' = [req EXCEPT ![w] = Idle] /\ lost' = FALSE
    BY <1>7 DEF Commit
  <2>2. req[w] # Idle /\ req[w].p \in Pieces /\ req[w].order = Rollup!Target(piece')
    BY <2>1, <1>00
  <2>3. PiecesOK'
    <3>1. CASE InTransaction(w)
      <4>1. PICK r \in Row : piece' = [piece EXCEPT ![req[w].p] = r] /\ Sound(req[w].p, r)
        BY <3>1, <2>1, <2>2, UpdateIsSound DEF InTransaction, Seen
      <4> QED BY <4>1, <2>2, RowUpdated DEF FulfilmentInv, PiecesOK
    <3>2. CASE ~InTransaction(w)
      BY <3>2, <2>1 DEF Seen, FulfilmentInv, PiecesOK
    <3> QED BY <3>1, <3>2
  <2>4. \A v \in Workers : req'[v] = Idle
    BY <2>1, <1>0
  <2>5. RequestsOK'
    BY <2>1, <2>4, <1>0 DEF RequestsOK
  <2>6. OrderOK'
    BY <2>1, <2>2, TargetIsAStatus DEF OrderOK
  <2> QED BY <2>3, <2>5, <2>6 DEF FulfilmentInv
<1>8. ASSUME Fail(w) PROVE FulfilmentInv'
  <2>1. /\ req' = [req EXCEPT ![w] = Idle] /\ UNCHANGED <<piece, order>>
        /\ lost' = (lost \/ (req[w].op = "print" /\ req[w].pc \in {"count", "commit"}))
    BY <1>8 DEF Fail
  <2> QED BY <2>1, <1>0, <1>01, DecideStep
<1> QED BY <1>1, <1>2, <1>3, <1>4, <1>5, <1>6, <1>7, <1>8

\* Every state of the one-request behaviours is in the invariant.
THEOREM FulfilmentInvariance ==
  ASSUME OneAtATime, ClockSparesResin
  PROVE  Spec => []FulfilmentInv
<1>1. Init => FulfilmentInv
  BY InitInv
<1>2. FulfilmentInv /\ [Next]_vars => FulfilmentInv'
  <2> SUFFICES ASSUME FulfilmentInv, [Next]_vars PROVE FulfilmentInv'
    OBVIOUS
  <2>1. CASE Next
    BY <2>1, StepInv DEF Next
  <2>2. CASE UNCHANGED vars
    BY <2>2, ZenonT(40) DEF vars, FulfilmentInv, PiecesOK, RequestsOK, OrderOK, Unsynced, Seen, InTransaction,
                Updated, Completed, Grounded
  <2> QED BY <2>1, <2>2
<1> QED BY <1>1, <1>2, PTL DEF Spec

\* No uncured resin part is shipped (transitionPieceFulfilment's gate), through
\* whatever was undone, failed or put back, as long as requests come one at a
\* time and the clock completes no resin print.
THEOREM CuredBeforeShipped ==
  ASSUME OneAtATime, ClockSparesResin
  PROVE  Spec => []NoUncuredShipping
<1>1. FulfilmentInv => NoUncuredShipping
  BY FulfilmentAssumption DEF FulfilmentInv, PiecesOK, Sound, NoUncuredShipping
<1> QED BY <1>1, FulfilmentInvariance, PTL

\* A settled order is shipped as far as its slowest piece (syncOrderStatus), the
\* best-effort syncs that failed made good by the next one that does not.
THEOREM OrdersMirrorTheirPieces ==
  ASSUME OneAtATime, ClockSparesResin, Pieces # {}
  PROVE  Spec => []SettledOrderMirrorsPieces
<1>1. FulfilmentInv => SettledOrderMirrorsPieces
  <2> SUFFICES ASSUME FulfilmentInv, ~lost, \A w \in Workers : req[w] = Idle
               PROVE  IF \E p \in Pieces : piece[p].status = "printing"
                      THEN order = "in_progress"
                      ELSE /\ \A p \in Pieces : Rank(order) <= Rank(piece[p].fulfilment)
                           /\ \E p \in Pieces : Rank(order) = Rank(piece[p].fulfilment)
    BY DEF SettledOrderMirrorsPieces
  <2>1. ~Unsynced
    BY DEF Unsynced, Idle
  <2>2. order = Rollup!Target(piece) /\ piece \in [Pieces -> Row]
    BY <2>1 DEF FulfilmentInv, OrderOK, PiecesOK
  <2> QED BY <2>2, TargetMirrors
<1> QED BY <1>1, FulfilmentInvariance, PTL
=============================================================================
