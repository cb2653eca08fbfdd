--------------------------- MODULE PieceLifecycle ---------------------------
(***************************************************************************)
(* The life of a standalone piece: it is assigned a printer, given a spool *)
(* or a resin tank, booked on the calendar, printed, charged and settled,  *)
(* by operator requests and by the clock that ticks once a minute.         *)
(*                                                                         *)
(* Requests and clock are interleaved at every await: a request loads its  *)
(* piece, decides on that snapshot, and writes without looking again.  One *)
(* action is one statement, one transaction, or one uninterrupted group of *)
(* conflict queries.  Every write is subject to the CHECK and exclusion    *)
(* constraints of the database, and fires the triggers that recompute what *)
(* is reserved of a spool or tank.                                         *)
(*                                                                         *)
(* A nozzle comes and goes with the printer here; plates, colour slots,    *)
(* duplicates and offline printers are left to other modules.              *)
(***************************************************************************)
EXTENDS Naturals, FiniteSetsExt

Rollup == INSTANCE OrderRollup

CONSTANTS
  Pieces, Orders, OrderOf,   \* the pieces, the orders, whose is whose
  Resin,                     \* pieces printed in resin (the others in filament)
  Sliced,                    \* pieces with a slicer file attached
  Need, Minutes,             \* what a piece consumes, how long it prints
  Printers, Spools, Tanks,
  InStock,                   \* what each spool and tank holds at first
  Workers,                   \* concurrent operator requests
  Serial,                    \* requests and ticks one after another
  Faults,                    \* what may fail half-way: "request", "tick"
  NullWindowBlocks,          \* the exclusion constraint sees NULL windows
  MaxTime,                   \* bound on time
  None

Stocks == Spools \cup Tanks

ASSUME PieceAssumption ==
  /\ OrderOf \in [Pieces -> Orders]
  /\ Resin \subseteq Pieces /\ Sliced \subseteq Pieces
  /\ Need \in [Pieces -> Nat \ {0}] /\ Minutes \in [Pieces -> Nat \ {0}]
  /\ InStock \in [Stocks -> Nat]
  /\ {Serial, NullWindowBlocks} \subseteq BOOLEAN
  /\ Faults \subseteq {"request", "tick"}
  /\ MaxTime \in Nat
  /\ None \notin Pieces \cup Orders \cup Printers \cup Stocks

ASSUME RowsAreFinite == IsFiniteSet(Pieces) /\ IsFiniteSet(Stocks)

VARIABLES
  piece,     \* piece[p]: the order_pieces row, and its spool or tank
  orders,    \* orders[o]: the status of order o
  left,      \* left[s]: grams or millilitres physically remaining
  reserved,  \* reserved[s]: what asset_stock says is promised
  lock,      \* lock[pr]: the piece printer_stock says is printing
  now,       \* the time
  req,       \* req[w]: the request worker w is in the middle of
  clock,     \* the sweep of the clock, and the pieces it found due
  charged    \* history: how often the current run of a piece was charged

world == <<piece, orders, left, reserved, lock>>
vars  == <<piece, orders, left, reserved, lock, now, req, clock, charged>>

Busy == {"scheduled", "printing"}

\* to = 0 stands for the NULL window.
Fresh == [status |-> "pending", printer |-> None, qty |-> FALSE, source |-> None,
          from |-> 0, to |-> 0, post |-> FALSE]

\* A request carries the printer and the stock it was given, or the printer
\* and the tank of the row it loaded.
Idle == [pc |-> "idle", op |-> "none", p |-> None, o |-> None,
         printer |-> None, stock |-> None, qty |-> FALSE, at |-> 0,
         to |-> "none", was |-> "none"]

Init == /\ piece = [p \in Pieces |-> Fresh]
        /\ orders = [o \in Orders |-> "draft"]
        /\ left = InStock
        /\ reserved = [s \in Stocks |-> 0]
        /\ lock = [pr \in Printers |-> None]
        /\ now = 0
        /\ req = [w \in Workers |-> Idle]
        /\ clock = [pc |-> "idle", due |-> {}]
        /\ charged = [p \in Pieces |-> 0]

----------------------------------------------------------------------------
(* The database: constraints and triggers.                                 *)

Monus(a, b) == IF a > b THEN a - b ELSE 0

CoreData(p, row) == /\ row.printer # None
                    /\ row.qty
                    /\ p \in Resin => row.source # None

\* chk_assigned_requires_printer, chk_ready_ and chk_scheduled_requires_core_data.
ChecksHold(p, row) ==
  /\ row.status = "assigned" => row.printer # None
  /\ row.status \in {"ready"} \cup Busy => CoreData(p, row)

Windowed(row) == row.to > 0

Meet(r, s) == r.from < s.to /\ s.from < r.to

\* Mutant: the exclusion constraint dropped.
NoExclusion(rows) == TRUE

\* ex_order_piece_printer_schedule: no overlap on one printer.
Exclusion(rows) ==
  \A p, q \in Pieces :
    (p # q /\ rows[p].status \in Busy /\ rows[q].status \in Busy
           /\ rows[p].printer = rows[q].printer)
      => IF Windowed(rows[p]) /\ Windowed(rows[q])
         THEN ~Meet(rows[p], rows[q])
         ELSE ~NullWindowBlocks

Legal(rows) == Exclusion(rows) /\ \A p \in Pieces : ChecksHold(p, rows[p])

\* What the scheduled and printing pieces take of s.
Booked(s, rows) ==
  MapThenSumSet(LAMBDA p : Need[p],
                {p \in Pieces : rows[p].source = s /\ rows[p].status \in Busy})

\* Mutant: the trigger not fired by the loss of a reservation.
RecalculatedOnStatus(rows) ==
  [s \in Stocks |->
     IF \E p \in Pieces : s \in {piece[p].source, rows[p].source} /\ piece[p].status # rows[p].status
     THEN Booked(s, rows) ELSE reserved[s]]

\* fn_recalc_reserved_..: fired by a change of status or of reservation.
Recalculated(rows) ==
  [s \in Stocks |->
     IF \E p \in Pieces : /\ s \in {piece[p].source, rows[p].source}
                          /\ \/ piece[p].status # rows[p].status
                             \/ piece[p].source # rows[p].source
     THEN Booked(s, rows) ELSE reserved[s]]

Put(rows) == piece' = rows /\ reserved' = Recalculated(rows)

----------------------------------------------------------------------------
(* Requests.                                                               *)

Quiet == clock.pc = "idle" /\ \A w \in Workers : req[w] = Idle

Begin(w, r) ==
  /\ req[w] = Idle
  /\ Serial => Quiet
  /\ req' = [req EXCEPT ![w] = r]
  /\ UNCHANGED <<world, now, clock, charged>>

Load(op, p, pc) ==
  [pc |-> pc, op |-> op, p |-> p, o |-> OrderOf[p], printer |-> piece[p].printer,
   stock |-> IF p \in Resin THEN piece[p].source ELSE None,
   qty |-> FALSE, at |-> 0, to |-> "none", was |-> "none"]

At(w, op, pc) == req[w].op = op /\ req[w].pc = pc

\* What follows in request w; all that a sync still needs is the order.
Goto(w, pc) ==
  req' = [req EXCEPT ![w] = CASE pc = "idle" -> Idle
                              [] pc = "sync" -> [Idle EXCEPT !.pc = pc, !.o = req[w].o]
                              [] OTHER       -> [@ EXCEPT !.pc = pc]]

\* One UPDATE: the row, then on to pc; or a constraint error ends the request.
Write(w, rows, pc) ==
  IF Legal(rows) THEN Put(rows) /\ Goto(w, pc)
                 ELSE UNCHANGED <<piece, reserved>> /\ Goto(w, "idle")

\* isPieceSchedulable.
Schedulable(p, row) == CoreData(p, row)

FreeLock(printer, p) ==
  [pr \in Printers |-> IF pr = printer /\ lock[pr] = p THEN None ELSE lock[pr]]

Consumed(p) ==
  [s \in Stocks |-> IF s = piece[p].source THEN Monus(left[s], Need[p]) ELSE left[s]]

\* A reservation row exists for filament only: a resin piece keeps its tank.
WithoutSpool(p, row) == IF p \in Resin THEN row ELSE [row EXCEPT !.source = None]

Unbooked(row) == [row EXCEPT !.from = 0, !.to = 0]

\* What the rollup reads of order o.
RowsOf(o, rows) ==
  [p \in {q \in Pieces : OrderOf[q] = o} |->
     [status |-> rows[p].status, fulfilment |-> "none"]]

----------------------------------------------------------------------------
(* assign, unassign, reserve and release.                                  *)

\* The data is written first, the status derived from what is there afterwards.
Assign(w, p, pr, tank, qty) ==
  /\ piece[p].status \in {"pending", "assigned", "ready"}
  /\ tank # None => p \in Resin
  /\ Begin(w, [Load("assign", p, "write") EXCEPT !.printer = pr, !.stock = tank, !.qty = qty])

Assigned(row, r) ==
  [row EXCEPT !.printer = r.printer,
              !.qty     = row.qty \/ r.qty,
              !.source  = IF r.stock = None THEN row.source ELSE r.stock]

AssignWrite(w) ==
  LET r == req[w] IN
  /\ At(w, "assign", "write")
  /\ Write(w, [piece EXCEPT ![r.p] = Assigned(@, r)], "reload")
  /\ UNCHANGED <<orders, left, lock, now, clock, charged>>

AssignReload(w) ==
  LET r == req[w]
      target == IF Schedulable(r.p, piece[r.p]) THEN "ready" ELSE "assigned" IN
  /\ At(w, "assign", "reload")
  /\ IF piece[r.p].status = target
     THEN Goto(w, "idle")
     ELSE req' = [req EXCEPT ![w].pc = "status", ![w].to = target]
  /\ UNCHANGED <<world, now, clock, charged>>

AssignStatus(w) ==
  /\ At(w, "assign", "status")
  /\ Write(w, [piece EXCEPT ![req[w].p].status = req[w].to], "idle")
  /\ UNCHANGED <<orders, left, lock, now, clock, charged>>

Unassign(w, p) ==
  /\ piece[p].status \in {"assigned", "ready"}
  /\ Begin(w, Load("unassign", p, "release"))

UnassignRelease(w) ==
  LET p == req[w].p IN
  /\ At(w, "unassign", "release")
  /\ Put([piece EXCEPT ![p] = WithoutSpool(p, @)])
  /\ Goto(w, "write")
  /\ UNCHANGED <<orders, left, lock, now, clock, charged>>

UnassignWrite(w) ==
  /\ At(w, "unassign", "write")
  /\ Write(w, [piece EXCEPT ![req[w].p] = [@ EXCEPT !.printer = None, !.status = "pending"]], "sync")
  /\ UNCHANGED <<orders, left, lock, now, clock, charged>>

Reserve(w, p, s) ==
  /\ p \notin Resin
  /\ piece[p].qty
  /\ piece[p].status \in {"pending", "assigned", "ready", "cancelled"}
  /\ Begin(w, [Load("reserve", p, "tx") EXCEPT !.stock = s])

\* One transaction: the old reservation goes, the new one must fit.
ReserveTx(w) ==
  LET p == req[w].p
      s == req[w].stock
      free == Monus(left[s], Recalculated([piece EXCEPT ![p].source = None])[s]) IN
  /\ At(w, "reserve", "tx")
  /\ IF Need[p] <= free THEN Put([piece EXCEPT ![p].source = s])
                        ELSE UNCHANGED <<piece, reserved>>
  /\ Goto(w, "idle")
  /\ UNCHANGED <<orders, left, lock, now, clock, charged>>

\* POST release-spools: no condition on the status.
Release(w, p) ==
  /\ req[w] = Idle
  /\ Serial => Quiet
  /\ Put([piece EXCEPT ![p] = WithoutSpool(p, @)])
  /\ UNCHANGED <<orders, left, lock, now, req, clock, charged>>

----------------------------------------------------------------------------
(* schedule and unschedule.                                                *)

\* A committed window that overlaps [a, b) on printer pr or on source s.
Clash(p, pr, s, a, b) ==
  \E q \in Pieces \ {p} :
    /\ piece[q].status \in Busy
    /\ Windowed(piece[q]) /\ piece[q].from < b /\ piece[q].to > a
    /\ piece[q].printer = pr \/ (s # None /\ piece[q].source = s)

\* The tank of the snapshot; the spools reserved at the time of the query.
SourceOf(w) == IF req[w].p \in Resin THEN req[w].stock ELSE piece[req[w].p].source

Schedule(w, p, t) ==
  /\ piece[p].status \in {"ready", "scheduled"}
  /\ CoreData(p, piece[p])
  /\ Begin(w, [Load("schedule", p, "check") EXCEPT !.at = t])

\* The conflict queries: a spool reserved, not in the past, every timeline
\* free, and a tank that still holds enough beyond what is promised.
ScheduleCheck(w) ==
  LET r == req[w]
      s == SourceOf(w) IN
  /\ At(w, "schedule", "check")
  /\ IF /\ s # None
        /\ r.at >= now
        /\ ~Clash(r.p, r.printer, s, r.at, r.at + Minutes[r.p])
        /\ r.p \in Resin => reserved[s] + Need[r.p] <= left[s]
     THEN Goto(w, "write")
     ELSE Goto(w, "idle")
  /\ UNCHANGED <<world, now, clock, charged>>

ScheduledRows(w) ==
  [piece EXCEPT ![req[w].p] = [@ EXCEPT !.status = "scheduled",
                                        !.from = req[w].at,
                                        !.to = req[w].at + Minutes[req[w].p]]]

ScheduleWrite(w) ==
  /\ At(w, "schedule", "write")
  /\ Write(w, ScheduledRows(w), "sync")
  /\ UNCHANGED <<orders, left, lock, now, clock, charged>>

Unschedule(w, p) ==
  /\ piece[p].status = "scheduled"
  /\ Begin(w, [Load("unschedule", p, "write") EXCEPT
                 !.to = IF piece[p].qty THEN "ready" ELSE "assigned"])

UnscheduleWrite(w) ==
  /\ At(w, "unschedule", "write")
  /\ Write(w, [piece EXCEPT ![req[w].p] = [Unbooked(@) EXCEPT !.status = req[w].to]], "sync")
  /\ UNCHANGED <<orders, left, lock, now, clock, charged>>

----------------------------------------------------------------------------
(* start, complete, reprint, restore, cancel.                              *)

Start(w, p) ==
  /\ piece[p].status \in {"assigned", "ready", "scheduled"}
  /\ piece[p].printer # None
  /\ Begin(w, Load("start", p, "check"))

\* findResourceConflict over [now, now + Minutes).
StartCheck(w) ==
  LET r == req[w] IN
  /\ At(w, "start", "check")
  /\ Goto(w, IF Clash(r.p, r.printer, SourceOf(w), now, now + Minutes[r.p])
             THEN "idle" ELSE "tx")
  /\ UNCHANGED <<world, now, clock, charged>>

StartTx(w) ==
  LET r == req[w]
      rows == [piece EXCEPT ![r.p].status = "printing"] IN
  /\ At(w, "start", "tx")
  /\ Write(w, rows, "sync")
  /\ lock' = IF Legal(rows) THEN [lock EXCEPT ![r.printer] = r.p] ELSE lock
  /\ UNCHANGED <<orders, left, now, clock, charged>>

Complete(w, p, outcome) ==
  /\ piece[p].status \in Busy
  /\ Begin(w, [Load("complete", p, "write") EXCEPT !.to = outcome])

\* A resin part that printed well is to be washed and cured.
Ended(p, row, outcome) ==
  [row EXCEPT !.status = outcome, !.post = row.post \/ (outcome = "done" /\ p \in Resin)]

CompleteWrite(w) ==
  LET r == req[w] IN
  /\ At(w, "complete", "write")
  /\ Put([piece EXCEPT ![r.p] = Ended(r.p, @, r.to)])
  /\ Goto(w, "tx")
  /\ UNCHANGED <<orders, left, lock, now, clock, charged>>

\* Mutant: the settling transaction forgets the printer.
CompleteTxKeepsLock(w) ==
  LET r == req[w] IN
  /\ At(w, "complete", "tx")
  /\ left' = Consumed(r.p)
  /\ charged' = [charged EXCEPT ![r.p] = IF piece[r.p].source = None THEN @ ELSE @ + 1]
  /\ Goto(w, "sync")
  /\ UNCHANGED <<piece, orders, reserved, lock, now, clock>>

\* consumeSpoolsTx, consumeResinTx and releasePrinterForPieceTx.
CompleteTx(w) ==
  LET r == req[w] IN
  /\ At(w, "complete", "tx")
  /\ left' = Consumed(r.p)
  /\ charged' = [charged EXCEPT ![r.p] = IF piece[r.p].source = None THEN @ ELSE @ + 1]
  /\ lock' = FreeLock(r.printer, r.p)
  /\ Goto(w, "sync")
  /\ UNCHANGED <<piece, orders, reserved, now, clock>>

\* A failed run goes back as far as its data allows; its spool stays reserved.
Reprint(w, p) ==
  /\ piece[p].status = "failed"
  /\ Begin(w, [Load("reprint", p, "write") EXCEPT
                 !.to = IF Schedulable(p, piece[p]) THEN "ready"
                        ELSE IF piece[p].printer # None THEN "assigned" ELSE "pending"])

ReprintWrite(w) ==
  LET r == req[w] IN
  /\ At(w, "reprint", "write")
  /\ Write(w, [piece EXCEPT ![r.p] = [Unbooked(@) EXCEPT !.status = r.to, !.post = FALSE]], "sync")
  /\ charged' = [charged EXCEPT ![r.p] = 0]
  /\ UNCHANGED <<orders, left, lock, now, clock>>

Restore(w, p, to) ==
  /\ piece[p].status = "cancelled"
  /\ to # "pending" => piece[p].printer # None
  /\ Begin(w, [Load("restore", p, "write") EXCEPT
                 !.to = IF to = "pending" THEN to
                        ELSE IF Schedulable(p, piece[p]) THEN "ready" ELSE "assigned"])

\* As pending it loses printer and numbers (the millilitres of resin stay).
Restored(p, row, to) ==
  LET off == [Unbooked(row) EXCEPT !.status = to] IN
  IF to = "pending" THEN [off EXCEPT !.printer = None, !.qty = row.qty /\ p \in Resin]
                    ELSE off

\* Mutant: a restored piece not reported to its order.
RestoreWriteUnsynced(w) ==
  /\ At(w, "restore", "write")
  /\ Write(w, [piece EXCEPT ![req[w].p] = Restored(req[w].p, @, req[w].to)], "idle")
  /\ charged' = [charged EXCEPT ![req[w].p] = 0]
  /\ UNCHANGED <<orders, left, lock, now, clock>>

RestoreWrite(w) ==
  LET r == req[w] IN
  /\ At(w, "restore", "write")
  /\ Write(w, [piece EXCEPT ![r.p] = Restored(r.p, @, r.to)], "sync")
  /\ charged' = [charged EXCEPT ![r.p] = 0]
  /\ UNCHANGED <<orders, left, lock, now, clock>>

Cancel(w, p) ==
  /\ piece[p].status \notin {"done", "cancelled"}
  /\ Begin(w, Load("cancel", p, "tx"))

\* One transaction, the order's status included.
CancelTx(w) ==
  LET r == req[w]
      rows == [piece EXCEPT ![r.p] = [Unbooked(WithoutSpool(r.p, @)) EXCEPT !.status = "cancelled"]] IN
  /\ At(w, "cancel", "tx")
  /\ Put(rows)
  /\ lock' = FreeLock(r.printer, r.p)
  /\ orders' = [orders EXCEPT ![r.o] = Rollup!Recomputed(@, RowsOf(r.o, rows), TRUE)]
  /\ Goto(w, "idle")
  /\ UNCHANGED <<left, now, clock, charged>>

----------------------------------------------------------------------------
(* The order: its derived status, and the operator's.                      *)

\* syncOrderStatus reads counts and order, and leaves a confirmed one alone ...
SyncRead(w) ==
  LET rows == RowsOf(req[w].o, piece) IN
  /\ req[w].pc = "sync"
  /\ IF Rollup!KeptConfirmed(orders[req[w].o], rows)
     THEN Goto(w, "idle")
     ELSE req' = [req EXCEPT ![w].pc = "settle", ![w].to = Rollup!Target(rows)]
  /\ UNCHANGED <<world, now, clock, charged>>

\* Mutant: a cancelled order overwritten.
SyncWriteAlways(w) ==
  /\ req[w].pc = "settle"
  /\ orders' = [orders EXCEPT ![req[w].o] = req[w].to]
  /\ Goto(w, "idle")
  /\ UNCHANGED <<piece, left, reserved, lock, now, clock, charged>>

\* ... and writes what it derived, unless the order is cancelled by now.
SyncWrite(w) ==
  /\ req[w].pc = "settle"
  /\ orders' = [orders EXCEPT ![req[w].o] = IF @ \in Rollup!Manual THEN @ ELSE req[w].to]
  /\ Goto(w, "idle")
  /\ UNCHANGED <<piece, left, reserved, lock, now, clock, charged>>

\* PATCH /orders/:id with a status.
SetOrder(w, o, status) ==
  /\ status # orders[o]
  /\ Begin(w, [Idle EXCEPT !.pc = "tx", !.op = "order", !.o = o, !.to = status, !.was = orders[o]])

PieceComplete(p, row) == CoreData(p, row) /\ p \in Sliced

\* A cancelled piece of a reopened order; its window was never cleared.
Reopened(p, row, to) ==
  LET back == IF PieceComplete(p, row) THEN "ready"
              ELSE IF row.printer # None THEN "assigned" ELSE "pending" IN
  IF to = "draft" THEN [Unbooked(row) EXCEPT !.status = back]
  ELSE [row EXCEPT !.status = IF Windowed(row) /\ PieceComplete(p, row) THEN "scheduled" ELSE back]

OrderRows(r) ==
  [p \in Pieces |->
     CASE OrderOf[p] = r.o /\ r.to = "cancelled"
            /\ piece[p].status \in {"pending", "assigned", "ready", "scheduled"}
              -> [piece[p] EXCEPT !.status = "cancelled"]
       [] OrderOf[p] = r.o /\ r.was = "cancelled" /\ piece[p].status = "cancelled"
              -> Reopened(p, piece[p], r.to)
       [] OTHER -> piece[p]]

\* assertOrderStatusChangeAllowed.
OrderMayBe(status, pcs) ==
  CASE status = "confirmed"   -> DOMAIN pcs # {} /\ ~Rollup!SomeIn(pcs, {"printing", "done", "failed"})
    [] status = "in_progress" -> Rollup!SomeIn(pcs, {"printing"})
    [] status = "completed"   -> DOMAIN pcs # {} /\ \A p \in DOMAIN pcs : pcs[p].status = "done"
    [] OTHER                  -> TRUE

OrderTx(w) ==
  LET r == req[w]
      rows == OrderRows(r)
      allowed == Legal(rows) /\ OrderMayBe(r.to, RowsOf(r.o, rows)) IN
  /\ At(w, "order", "tx")
  /\ IF allowed
     THEN /\ Put(rows)
          /\ orders' = [orders EXCEPT ![r.o] = r.to]
          /\ charged' = [p \in Pieces |-> IF rows[p].status \in {"pending", "assigned", "ready", "scheduled"}
                                          THEN 0 ELSE charged[p]]
     ELSE UNCHANGED <<piece, reserved, orders, charged>>
  /\ Goto(w, "idle")
  /\ UNCHANGED <<left, lock, now, clock>>

----------------------------------------------------------------------------
(* The clock.                                                              *)

\* Mutant: a print starts in the minute it is booked for, or never.
ClockAdvanceOnTheDot ==
  LET due == {p \in Pieces : /\ piece[p].status = "scheduled"
                             /\ Windowed(piece[p])
                             /\ piece[p].from = now}
      rows == [p \in Pieces |-> IF p \in due THEN [piece[p] EXCEPT !.status = "printing"] ELSE piece[p]] IN
  /\ clock.pc = "idle"
  /\ Put(rows)
  /\ clock' = [clock EXCEPT !.pc = "select"]
  /\ UNCHANGED <<orders, left, lock, now, req, charged>>

\* advancePieces: every booked print whose time has come, in one transaction.
ClockAdvance ==
  LET due == {p \in Pieces : /\ piece[p].status = "scheduled"
                             /\ Windowed(piece[p])
                             /\ piece[p].from <= now}
      rows == [p \in Pieces |-> IF p \in due THEN [piece[p] EXCEPT !.status = "printing"] ELSE piece[p]]
      starting(pr) == {p \in due : piece[p].printer = pr} IN
  /\ clock.pc = "idle"
  /\ Serial => Quiet
  /\ Put(rows)
  /\ lock' \in {l \in [Printers -> Pieces \cup {None}] :
                  \A pr \in Printers : IF starting(pr) = {} THEN l[pr] = lock[pr]
                                       ELSE l[pr] \in starting(pr)}
  /\ clock' = [clock EXCEPT !.pc = "select"]
  /\ UNCHANGED <<orders, left, now, req, charged>>

\* completeDuePieces, the query.
ClockSelect ==
  LET due == {p \in Pieces : /\ piece[p].status = "printing"
                             /\ Windowed(piece[p])
                             /\ piece[p].to <= now} IN
  /\ clock.pc = "select"
  /\ clock' = [pc |-> IF due = {} THEN "idle" ELSE "complete",
               due |-> {<<p, piece[p].printer>> : p \in due}]
  /\ UNCHANGED <<world, now, req, charged>>

\* Mutant: the clock ends a print and charges nothing.
ClockCompleteFree(p, printer) ==
  LET rows == [piece EXCEPT ![p].status = "done"]
      due  == clock.due \ {<<p, printer>>} IN
  /\ clock.pc = "complete"
  /\ <<p, printer>> \in clock.due
  /\ Put(rows)
  /\ lock' = FreeLock(printer, p)
  /\ orders' = [orders EXCEPT ![OrderOf[p]] = Rollup!Recomputed(@, RowsOf(OrderOf[p], rows), TRUE)]
  /\ clock' = [pc |-> IF due = {} THEN "idle" ELSE "complete", due |-> due]
  /\ UNCHANGED <<left, now, req, charged>>

\* completeDuePieces, one transaction per piece found due: no second look at
\* its status, no resin consumed, and after the trigger has dropped the
\* reservation the clock subtracts it once more.
ClockComplete(p, printer) ==
  LET rows == [piece EXCEPT ![p].status = "done"]
      s    == IF p \in Resin THEN None ELSE piece[p].source
      due  == clock.due \ {<<p, printer>>} IN
  /\ clock.pc = "complete"
  /\ <<p, printer>> \in clock.due
  /\ piece' = rows
  /\ reserved' = [t \in Stocks |-> IF t = s THEN Monus(Recalculated(rows)[t], Need[p])
                                   ELSE Recalculated(rows)[t]]
  /\ left' = [t \in Stocks |-> IF t = s THEN Monus(left[t], Need[p]) ELSE left[t]]
  /\ charged' = [charged EXCEPT ![p] = IF s = None THEN @ ELSE @ + 1]
  /\ lock' = FreeLock(printer, p)
  /\ orders' = [orders EXCEPT ![OrderOf[p]] = Rollup!Recomputed(@, RowsOf(OrderOf[p], rows), TRUE)]
  /\ clock' = [pc |-> IF due = {} THEN "idle" ELSE "complete", due |-> due]
  /\ UNCHANGED <<now, req>>

TimePasses ==
  /\ now < MaxTime
  /\ now' = now + 1
  /\ UNCHANGED <<world, req, clock, charged>>

\* A statement fails or the process dies: what is committed stays.
RequestFails(w) ==
  /\ "request" \in Faults
  /\ req[w].pc # "idle"
  /\ Goto(w, "idle")
  /\ UNCHANGED <<world, now, clock, charged>>

TickFails ==
  /\ "tick" \in Faults
  /\ clock.pc # "idle"
  /\ clock' = [pc |-> "idle", due |-> {}]
  /\ UNCHANGED <<world, now, req, charged>>

----------------------------------------------------------------------------

Call(w) ==
  \/ \E p \in Pieces :
       \/ \E pr \in Printers, tank \in Tanks \cup {None}, qty \in BOOLEAN : Assign(w, p, pr, tank, qty)
       \/ \E s \in Spools : Reserve(w, p, s)
       \/ \E t \in 0..MaxTime : t + Minutes[p] <= MaxTime /\ Schedule(w, p, t)
       \/ \E outcome \in {"done", "failed"} : Complete(w, p, outcome)
       \/ \E to \in {"pending", "assigned"} : Restore(w, p, to)
       \/ Release(w, p)
       \/ Unassign(w, p)
       \/ Unschedule(w, p)
       \/ Start(w, p)
       \/ Reprint(w, p)
       \/ Cancel(w, p)
  \/ \E o \in Orders, status \in Rollup!OrderStatus : SetOrder(w, o, status)

Proceed(w) ==
  \/ AssignWrite(w) \/ AssignReload(w) \/ AssignStatus(w)
  \/ UnassignRelease(w) \/ UnassignWrite(w)
  \/ ReserveTx(w)
  \/ ScheduleCheck(w) \/ ScheduleWrite(w) \/ UnscheduleWrite(w)
  \/ StartCheck(w) \/ StartTx(w)
  \/ CompleteWrite(w) \/ CompleteTx(w)
  \/ ReprintWrite(w) \/ RestoreWrite(w) \/ CancelTx(w)
  \/ SyncRead(w) \/ SyncWrite(w) \/ OrderTx(w)

CompleteOne == \E d \in clock.due : ClockComplete(d[1], d[2])

Tick == ClockAdvance \/ ClockSelect \/ CompleteOne

Next ==
  \/ \E w \in Workers : Call(w) \/ Proceed(w) \/ RequestFails(w)
  \/ Tick
  \/ TimePasses
  \/ TickFails

Spec == Init /\ [][Next]_vars

(* Handlers run to their end, the timer fires, and time passes.            *)
FairSpec == /\ Spec
            /\ \A w \in Workers : WF_vars(Proceed(w))
            /\ WF_vars(Tick)
            /\ WF_vars(TimePasses)

----------------------------------------------------------------------------
(* Properties.                                                             *)

Row == [status : Rollup!PieceStatus, printer : Printers \cup {None}, qty : BOOLEAN,
        source : Stocks \cup {None}, from : 0..MaxTime, to : 0..MaxTime, post : BOOLEAN]

Request == [pc : {"idle", "write", "reload", "status", "release", "check", "tx", "sync", "settle"},
            op : {"none", "assign", "unassign", "reserve", "schedule", "unschedule", "start",
                  "complete", "reprint", "restore", "cancel", "order"},
            p : Pieces \cup {None}, o : Orders \cup {None},
            printer : Printers \cup {None}, stock : Stocks \cup {None}, qty : BOOLEAN,
            at : 0..MaxTime,
            to : Rollup!PieceStatus \cup Rollup!OrderStatus \cup {"none"},
            was : Rollup!OrderStatus \cup {"none"}]

\* What a half-done request may still write.
Sound(r) ==
  /\ r \in Request
  /\ r.pc \in {"sync", "settle"} => r.op = "none"
  /\ r.op \notin {"none", "order"} => r.p \in Pieces
  /\ r.op = "reserve" => r.stock \in Stocks
  /\ r.op = "schedule" => r.at + Minutes[r.p] \in 0..MaxTime
  /\ r.op = "complete" => r.to \in {"done", "failed"}
  /\ r.op = "assign" /\ r.pc = "status" => r.to \in Rollup!PieceStatus
  /\ r.op \in {"unschedule", "reprint", "restore"} => r.to \in Rollup!PieceStatus
  /\ r.op = "order" \/ r.pc = "settle" => r.to \in Rollup!OrderStatus

RequestsOK == req \in [Workers -> Request] /\ \A w \in Workers : Sound(req[w])

\* A piece past assignment has its printer, its numbers and, in resin, its tank.
RowsOK == piece \in [Pieces -> Row] /\ \A p \in Pieces : ChecksHold(p, piece[p])

ClockOK == clock \in [pc : {"idle", "select", "complete"},
                      due : SUBSET (Pieces \X (Printers \cup {None}))]

Overlap(p, q) == Windowed(piece[p]) /\ Windowed(piece[q]) /\ Meet(piece[p], piece[q])

\* Two committed windows never overlap on one printer, whatever the requests,
\* reopened orders and the clock do: the preflight of scheduleCommit can be
\* raced and updateOrder has none, so it rests on the exclusion constraint.
PrinterNeverDoubleBooked ==
  \A p, q \in Pieces :
    (p # q /\ piece[p].status \in Busy /\ piece[q].status \in Busy
           /\ piece[p].printer = piece[q].printer) => ~Overlap(p, q)

\* Between requests a printer in use is held by a piece that is printing on
\* it (markPrinterPrintingTx, releasePrinterForPieceTx): no print ends and
\* leaves its machine locked.
LockIsHeldByItsPrint ==
  Quiet => \A pr \in Printers :
             lock[pr] # None => /\ piece[lock[pr]].status = "printing"
                                /\ piece[lock[pr]].printer = pr

\* Between requests a print that ended, by an operator or by the clock, with
\* material reserved for it has been charged to the spool exactly once.
EndedPrintsAreChargedOnce ==
  Quiet => \A p \in Pieces :
             (piece[p].status \in {"done", "failed"} /\ piece[p].source # None)
               => charged[p] = 1

\* No stock is held back for prints that are over: whatever is requested in
\* whatever order, never more is reserved than the booked and running pieces
\* will take.
NothingReservedForNobody == \A s \in Stocks : reserved[s] <= Booked(s, piece)

\* Between requests an order called completed has only produced pieces left:
\* restoring or reprinting one takes the order back.
CompletedMeansProduced ==
  Quiet => \A o \in Orders :
             orders[o] = "completed" => Rollup!Produced(RowsOf(o, piece))

\* Only the operator reopens a cancelled order: no rollup behind a piece's
\* request, and no tick, revives it.
OnlyOperatorsReopenOrders ==
  [][\A o \in Orders : (orders[o] = "cancelled" /\ orders'[o] # "cancelled")
                         => \E w \in Workers : OrderTx(w)]_vars

\* A booked window ends: under a running clock a scheduled piece is printed,
\* settled or taken off the board.
WindowsEnd ==
  \A p \in Pieces : (piece[p].status \in Busy /\ Windowed(piece[p]))
                      ~> ~(piece[p].status \in Busy /\ Windowed(piece[p]))
=============================================================================
