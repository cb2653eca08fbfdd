---------------------------- MODULE OrderRollup ----------------------------
(***************************************************************************)
(* The status of an order as the server derives it from the order's        *)
(* pieces (recomputeOrderStatusTx).  Pure operators: `pcs` maps each piece *)
(* of one order to its status and to its fulfilment stage, `current` is    *)
(* the status the order has.  Every component that moves a piece calls     *)
(* Recomputed afterwards, in its transaction or after it.                  *)
(***************************************************************************)
EXTENDS Naturals, FiniteSets

PieceStatus == {"pending", "assigned", "ready", "scheduled", "printing",
                "done", "failed", "cancelled"}
Fulfilment  == {"none", "ready_for_shipping", "out_for_shipping", "fulfilled"}
Shipping    == Fulfilment \ {"none"}
Manual      == {"cancelled", "returned"}
OrderStatus == {"draft", "confirmed", "in_progress", "completed"} \cup Shipping \cup Manual

Active(pcs) == {p \in DOMAIN pcs : pcs[p].status # "cancelled"}

SomeIn(pcs, statuses) == \E p \in DOMAIN pcs : pcs[p].status \in statuses

\* The LEAST advanced shipping stage among the pieces of a produced order.
LeastAdvancedStage(pcs) ==
  LET stages == {pcs[p].fulfilment : p \in Active(pcs)}
  IN IF "none" \in stages THEN "completed"
     ELSE IF "ready_for_shipping" \in stages THEN "ready_for_shipping"
     ELSE IF "out_for_shipping" \in stages THEN "out_for_shipping"
     ELSE "fulfilled"

Produced(pcs) == Active(pcs) # {} /\ \A p \in Active(pcs) : pcs[p].status = "done"

\* What the pieces alone say of their order.
Target(pcs) ==
  IF Produced(pcs) THEN LeastAdvancedStage(pcs)
  ELSE IF SomeIn(pcs, {"printing", "scheduled", "done", "failed"}) THEN "in_progress"
  ELSE "draft"

\* A confirmed order is left alone until its first piece has run.
KeptConfirmed(current, pcs) ==
  current = "confirmed" /\ ~SomeIn(pcs, {"printing", "done", "failed"})

\* An old CHECK constraint on orders knows no shipping status.
Clamped(target, shippingKnown) ==
  IF target \in Shipping /\ ~shippingKnown THEN "completed" ELSE target

\* The status after a recompute.
Recomputed(current, pcs, shippingKnown) ==
  IF KeptConfirmed(current, pcs) \/ current \in Manual
  THEN current
  ELSE Clamped(Target(pcs), shippingKnown)
=============================================================================
