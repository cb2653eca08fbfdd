----------------------------- MODULE Fulfilment -----------------------------
(***************************************************************************)
(* One order after printing: its pieces are washed, cured and shipped, and *)
(* its status follows them.                                                *)
(*                                                                         *)
(* A request reads its piece, decides, and then opens a transaction:       *)
(* update the piece, count the order's pieces, write the order, commit.    *)
(* Isolation is READ COMMITTED: a transaction sees its own update and what *)
(* the others have committed, and holds the lock of the row it updated.    *)
(* jobs.complete autocommits each statement instead.                       *)
(***************************************************************************)
EXTENDS Naturals

Rollup == INSTANCE OrderRollup

CONSTANTS
  Pieces,          \* the pieces of the order
  Resin,           \* those printed in resin, to be washed and cured
  Printing,        \* those still on a machine when the model starts
  Workers,         \* concurrent requests
  Clocked,         \* those printed in a scheduled window: the clock may end them
  None

ASSUME FulfilmentAssumption == /\ Resin \subseteq Pieces
                               /\ Printing \subseteq Pieces
                               /\ Clocked \subseteq Pieces
                               /\ None \notin Pieces

VARIABLES
  piece,  \* piece[p]: production status, shipping stage, post-processing state
  order,  \* the status of the order
  req,    \* req[w]: the request worker w is in the middle of
  lost    \* history: a piece has moved since the last sync of the order that worked

vars == <<piece, order, req, lost>>

Post == {"none", "print_done", "washed", "cured"}
Idle == [pc |-> "idle", op |-> "none", p |-> None, to |-> "none", order |-> "draft"]

OnMachine == [status |-> "printing", fulfilment |-> "none", post |-> "none"]

\* A piece as jobs.complete leaves it.
Completed(p) == [OnMachine EXCEPT !.status = "done",
                                  !.post = IF p \in Resin THEN "print_done" ELSE "none"]

Init == /\ piece = [p \in Pieces |-> IF p \in Printing THEN OnMachine ELSE Completed(p)]
        /\ order = Rollup!Target(piece)
        /\ req = [w \in Workers |-> Idle]
        /\ lost = FALSE

WithUndo(edges) == edges \cup {<<e[2], e[1]>> : e \in edges}

FulfilmentEdges == WithUndo({<<"none", "ready_for_shipping">>, <<"none", "fulfilled">>,
                             <<"ready_for_shipping", "out_for_shipping">>,
                             <<"out_for_shipping", "fulfilled">>})
PostEdges == WithUndo({<<"print_done", "washed">>, <<"washed", "cured">>})

----------------------------------------------------------------------------
(* Reading and deciding.                                                   *)

Accept(w, op, p, to) ==
  /\ req[w] = Idle
  /\ req' = [req EXCEPT ![w] = [Idle EXCEPT !.pc = "update", !.op = op, !.p = p, !.to = to]]
  /\ UNCHANGED <<piece, order, lost>>

\* Mutant: the curing gate left out.
ShipUngated(w, p, to) ==
  /\ piece[p].status = "done"
  /\ <<piece[p].fulfilment, to>> \in FulfilmentEdges
  /\ Accept(w, "ship", p, to)

\* transitionPieceFulfilment: done, cured if it has to be, and a legal edge.
Ship(w, p, to) ==
  /\ piece[p].status = "done"
  /\ to = "none" \/ piece[p].post \in {"none", "cured"}
  /\ <<piece[p].fulfilment, to>> \in FulfilmentEdges
  /\ Accept(w, "ship", p, to)

\* transitionPiecePostProcess: only while the piece is not being shipped.
PostProcess(w, p, to) ==
  /\ piece[p].status = "done"
  /\ piece[p].fulfilment = "none"
  /\ <<piece[p].post, to>> \in PostEdges
  /\ Accept(w, "cure", p, to)

\* JobsService.complete with outcome done; completeDuePieces by the clock.
Finish(w, p) ==
  /\ piece[p].status = "printing"
  /\ \/ Accept(w, "print", p, "done")
     \/ p \in Clocked /\ Accept(w, "clock", p, "done")

----------------------------------------------------------------------------
(* Writing.                                                                *)

InTransaction(w) == req[w].pc \in {"count", "commit"} /\ req[w].op \in {"ship", "clock"}

\* The row lock of p is free.
Unlocked(p) == \A v \in Workers : ~(InTransaction(v) /\ req[v].p = p)

\* The pieces with the update of request w in place.
Updated(w) ==
  LET p == req[w].p
  IN CASE req[w].op = "ship"  -> [piece EXCEPT ![p].fulfilment = req[w].to]
       [] req[w].op = "cure"  -> [piece EXCEPT ![p].post = req[w].to]
       [] req[w].op = "print" -> [piece EXCEPT ![p] = Completed(p)]
       [] req[w].op = "clock" -> [piece EXCEPT ![p].status = "done"]

\* An update that commits at once: post-processing ends here, a completion
\* goes on to settle the order.
UpdateAndCommit(w) ==
  /\ req[w].pc = "update"
  /\ req[w].op \in {"cure", "print"}
  /\ Unlocked(req[w].p)
  /\ piece' = Updated(w)
  /\ req' = [req EXCEPT ![w] = IF @.op = "cure" THEN Idle ELSE [@ EXCEPT !.pc = "count"]]
  /\ UNCHANGED <<order, lost>>

\* An update inside a transaction: nobody else sees it yet.
Update(w) ==
  /\ req[w].pc = "update"
  /\ req[w].op \in {"ship", "clock"}
  /\ Unlocked(req[w].p)
  /\ req' = [req EXCEPT ![w].pc = "count"]
  /\ UNCHANGED <<piece, order, lost>>

Seen(w) == IF InTransaction(w) THEN Updated(w) ELSE piece

\* Mutant: the count taken without the transaction's own update.
CountOutsideTransaction(w) ==
  /\ req[w].pc = "count"
  /\ req' = [req EXCEPT ![w].pc = "commit", ![w].order = Rollup!Target(piece)]
  /\ UNCHANGED <<piece, order, lost>>

\* syncOrderStatus, first half: aggregate the order's pieces.
Count(w) ==
  /\ req[w].pc = "count"
  /\ req' = [req EXCEPT ![w].pc = "commit", ![w].order = Rollup!Target(Seen(w))]
  /\ UNCHANGED <<piece, order, lost>>

\* syncOrderStatus, second half: write the order, and commit.
Commit(w) ==
  /\ req[w].pc = "commit"
  /\ piece' = Seen(w)
  /\ order' = req[w].order
  /\ req' = [req EXCEPT ![w] = Idle]
  /\ lost' = FALSE

\* A statement fails: a transaction is rolled back whole, a completion keeps
\* what it committed and skips the best-effort sync.
Fail(w) ==
  /\ req[w].pc # "idle"
  /\ req' = [req EXCEPT ![w] = Idle]
  /\ lost' = (lost \/ (req[w].op = "print" /\ req[w].pc \in {"count", "commit"}))
  /\ UNCHANGED <<piece, order>>

Next ==
  \E w \in Workers :
    \/ \E p \in Pieces : \/ \E to \in Rollup!Fulfilment : Ship(w, p, to)
                         \/ \E to \in Post : PostProcess(w, p, to)
                         \/ Finish(w, p)
    \/ UpdateAndCommit(w)
    \/ Update(w)
    \/ Count(w)
    \/ Commit(w)
    \/ Fail(w)

Spec == Init /\ [][Next]_vars

----------------------------------------------------------------------------
(* Properties.                                                             *)

\* An uncured resin part never enters shipping (order-pieces.service.ts,
\* "letting it enter shipping would be a lie the API tells").
NoUncuredShipping ==
  \A p \in Resin : piece[p].fulfilment # "none" => piece[p].post = "cured"

Rank(s) == CASE s \in {"draft", "confirmed", "in_progress"} -> 0
             [] s \in {"none", "completed"}                -> 1
             [] s = "ready_for_shipping"                   -> 2
             [] s = "out_for_shipping"                     -> 3
             [] s = "fulfilled"                            -> 4

\* With every request answered the order is shipped as far as its slowest
\* piece: no further, and no less.  A best-effort sync that failed
\* (syncOrderStatus) is made good by the next move that is recorded.
SettledOrderMirrorsPieces ==
  (~lost /\ \A w \in Workers : req[w] = Idle) =>
    IF \E p \in Pieces : piece[p].status = "printing"
    THEN order = "in_progress"
    ELSE /\ \A p \in Pieces : Rank(order) <= Rank(piece[p].fulfilment)
         /\ \E p \in Pieces : Rank(order) = Rank(piece[p].fulfilment)
=============================================================================
