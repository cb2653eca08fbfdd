--------------------------- MODULE PlateLifecycle ---------------------------
(***************************************************************************)
(* The life of a plate: pieces put together on one bed, scheduled, printed *)
(* and settled as one, by operators and by the clock.                      *)
(*                                                                         *)
(* While a piece is on a plate the plate owns its lifecycle: the row of    *)
(* the piece only repeats the plate's status, copied by a statement of its *)
(* own after every change of the plate.  The constraints of order_pieces   *)
(* let such a row hold any status, and apply again when it leaves.         *)
(*                                                                         *)
(* Requests and clock are interleaved at every await.  One action is one   *)
(* statement, one transaction or one group of reads; the consumption of    *)
(* spools after a completion is split, for what it read may be stale.      *)
(*                                                                         *)
(* A nozzle comes and goes with the printer, a plate takes its material    *)
(* from one spool or one tank, and how a triage splits it over the parts   *)
(* is left open.  Pieces printed on their own are in PieceLifecycle; what   *)
(* plates promise one another and their pieces is stated in PlateHistory.  *)
(***************************************************************************)
EXTENDS Naturals, FiniteSetsExt

Rollup == INSTANCE OrderRollup

CONSTANTS
  Pieces,             \* numbered in order of creation
  Orders, OrderOf,    \* the orders, whose each piece is
  Plates,             \* the ids plates may get
  Batches,            \* the sets of pieces operators put on a plate
  Resin,              \* the shop prints in resin, otherwise in filament
  Need, Minutes,      \* what a plate consumes, how long it prints
  Printers, Stocks,   \* the machines; the spools, or the tanks
  InStock,            \* what each spool or tank holds at first
  Routes,             \* what each operator asks for
  Workers,            \* concurrent requests
  Faults,             \* what may fail half-way: "request", "tick"
  MaxTime,            \* bound on time
  None

ASSUME PlateAssumption ==
  /\ Pieces \subseteq Nat
  /\ OrderOf \in [Pieces -> Orders]
  /\ Batches \subseteq SUBSET Pieces
  /\ Resin \in BOOLEAN
  /\ Need \in Nat \ {0} /\ Minutes \in Nat \ {0} /\ MaxTime \in Nat
  /\ InStock \in [Stocks -> Nat]
  /\ None \notin Pieces \cup Orders \cup Plates \cup Printers \cup Stocks

VARIABLES
  plate,   \* plate[b]: the print_beds row
  piece,   \* piece[p]: the order_pieces row, with its spool reservation or tank
  orders,  \* orders[o]: the status of order o
  left,    \* left[s]: grams or millilitres physically remaining
  inUse,   \* inUse[pr]: printer_stock says the machine prints a plate
  now,     \* the time
  req,     \* req[w]: the request worker w is in the middle of
  clock,   \* the sweep of the clock
  drawn    \* history: how often a triage charged the current run of plate b

world == <<plate, piece, orders, left, inUse>>
vars  == <<plate, piece, orders, left, inUse, now, req, clock, drawn>>

Busy     == {"scheduled", "printing"}
Planning == {"pending", "assigned", "ready"}

\* spec: time and quantity are known; ran: it carries a start or end of print.
NoPlate == [status |-> "absent", printer |-> None, spec |-> FALSE, tank |-> None,
            from |-> 0, to |-> 0, ran |-> FALSE]

\* A piece in the pending pool, clean: no machine, no material, no end of a
\* print (stamped).  When its print started is left out: a constraint asks for
\* it of printing pieces only, which are refused off a plate anyhow.
Loose == [status |-> "pending", plate |-> None, printer |-> None, source |-> None,
          stamped |-> FALSE, post |-> FALSE]

Idle == [pc |-> "idle", op |-> "none", b |-> None, p |-> None, printer |-> None,
         source |-> None, at |-> 0, to |-> "none", ids |-> {}]

Resting == [pc |-> "idle", todo |-> {}, b |-> None, printer |-> None, orders |-> {}]

Init == /\ plate = [b \in Plates |-> NoPlate]
        /\ piece = [p \in Pieces |-> Loose]
        /\ orders = [o \in Orders |-> "draft"]
        /\ left = InStock
        /\ inUse = [pr \in Printers |-> FALSE]
        /\ now = 0
        /\ req = [w \in Workers |-> Idle]
        /\ clock = Resting
        /\ drawn = [b \in Plates |-> 0]

----------------------------------------------------------------------------
(* The database.                                                           *)

Exists(b) == plate[b].status \notin {"absent", "deleted"}

On(b, rows) == {p \in DOMAIN rows : rows[p].plate = b}

\* The status constraints, off a plate: a piece that was on one has no print
\* time and quantity of its own, so it is not ready, scheduled or printing.
StandsAlone(row) ==
  /\ row.status = "assigned" => row.printer # None
  /\ row.status = "done" => row.stamped
  /\ row.status \notin {"ready"} \cup Busy

Legal(rows) == \A p \in Pieces : rows[p].plate = None => StandsAlone(rows[p])

\* What asset_stock says is promised of s: the triggers recompute it with
\* every change of a status or of a reservation.
Reserved(s) ==
  Need * IF Resin THEN Cardinality({b \in Plates : plate[b].tank = s /\ plate[b].status \in Busy})
                  ELSE Cardinality({p \in Pieces : piece[p].source = s /\ piece[p].status \in Busy})

Monus(a, b) == IF a > b THEN a - b ELSE 0

\* An UPDATE of plate b, of no row when it is gone.
SetPlate(b, row) == plate' = IF Exists(b) THEN [plate EXCEPT ![b] = row] ELSE plate

Unbooked(row) == [row EXCEPT !.from = 0, !.to = 0]

\* A reservation row exists for filament only: a resin piece keeps its tank.
Unreserved(row) == IF Resin THEN row ELSE [row EXCEPT !.source = None]

\* The reservations of the pieces S dropped.
Released(S) == [p \in Pieces |-> IF p \in S THEN Unreserved(piece[p]) ELSE piece[p]]

\* The spools in `rows`, pairs of a piece and its reservation, taken off the shelf.
Charged(rows) ==
  [s \in Stocks |-> Monus(left[s], Need * Cardinality({r \in rows : r[2] = s}))]

Ledger(S) == IF Resin THEN {} ELSE {<<p, piece[p].source>> : p \in S}

\* releasePrinterTx: by printer, whoever is using it.
Freed(printer) == [pr \in Printers |-> inUse[pr] /\ pr # printer]

\* recomputeOrderStatusTx, for the orders os.
Rolled(rows, os) ==
  [o \in Orders |->
     IF o \notin os THEN orders[o]
     ELSE Rollup!Recomputed(orders[o],
            [p \in {q \in Pieces : OrderOf[q] = o /\ rows[q].status # "deleted"} |->
               [status |-> rows[p].status, fulfilment |-> "none"]], TRUE)]

----------------------------------------------------------------------------
(* Requests.                                                               *)

Begin(w, route, r) ==
  /\ route \in Routes[w]
  /\ req[w] = Idle
  /\ req' = [req EXCEPT ![w] = r]
  /\ UNCHANGED <<world, now, clock, drawn>>

\* loadBed: 404 unless the plate exists.
Load(op, b, pc) ==
  [Idle EXCEPT !.op = op, !.b = b, !.pc = pc, !.printer = plate[b].printer, !.source = plate[b].tank]

At(w, op, pc) == req[w].op = op /\ req[w].pc = pc

Goto(w, pc) == req' = [req EXCEPT ![w] = IF pc = "idle" THEN Idle ELSE [@ EXCEPT !.pc = pc]]

Schedulable(row) == row.spec /\ row.printer # None /\ (Resin => row.tank # None)

\* Where restore and reprint send a plate.
BackTo(row) == IF Schedulable(row) THEN "ready" ELSE IF row.printer # None THEN "assigned" ELSE "pending"

----------------------------------------------------------------------------
(* create, assign, files, spools.                                          *)

\* b is the id the insert will mint: no other request's.
Create(w, b, S) ==
  /\ plate[b].status = "absent"
  /\ \A v \in Workers : req[v].op = "create" => req[v].b # b
  /\ \A p \in S : piece[p].plate = None /\ piece[p].status \in {"pending", "assigned", "ready"}
  /\ Begin(w, "create", [Idle EXCEPT !.op = "create", !.b = b, !.ids = S, !.pc = "tx"])

\* The plate takes over: printer and window of the pieces go, their stamps,
\* tank and spool reservation stay.
CreateTx(w) ==
  LET r == req[w]
      rows == [p \in Pieces |-> IF p \in r.ids /\ piece[p].status # "deleted"
                                THEN [piece[p] EXCEPT !.plate = r.b, !.status = "pending", !.printer = None]
                                ELSE piece[p]] IN
  /\ At(w, "create", "tx")
  /\ plate' = [plate EXCEPT ![r.b] = [NoPlate EXCEPT !.status = "pending"]]
  /\ piece' = rows
  /\ Goto(w, "idle")
  /\ UNCHANGED <<orders, left, inUse, now, clock, drawn>>

\* The tank given, or else seeded from a piece when the plate has none.
TankFor(b, tank) ==
  IF tank # None \/ plate[b].tank # None THEN {tank}
  ELSE LET held == {piece[p].source : p \in On(b, piece)} \ {None}
       IN IF Resin /\ held # {} THEN held ELSE {None}

Assign(w, b, pr, tank, spec) ==
  /\ plate[b].status \in {"pending", "assigned", "ready"}
  /\ tank # None => Resin
  /\ \E t \in TankFor(b, tank) :
       Begin(w, "assign", [Load("assign", b, "write") EXCEPT
                             !.printer = pr, !.source = t, !.to = IF spec THEN "spec" ELSE "none"])

AssignWrite(w) ==
  LET r == req[w]
      row == [plate[r.b] EXCEPT !.printer = r.printer,
                                !.spec = @ \/ r.to = "spec",
                                !.tank = IF r.source = None THEN @ ELSE r.source] IN
  /\ At(w, "assign", "write")
  /\ SetPlate(r.b, [row EXCEPT !.status = IF Schedulable(row) THEN "ready" ELSE "assigned"])
  /\ Goto(w, "idle")
  /\ UNCHANGED <<piece, orders, left, inUse, now, clock, drawn>>

\* PATCH files with a change of time, quantity or tank; the status follows
\* only in the planning states, and is computed from what was loaded.
Files(w, b, spec, tank) ==
  LET row == [plate[b] EXCEPT !.spec = spec, !.tank = tank] IN
  /\ Exists(b)
  /\ tank # None => Resin
  /\ plate[b].status \in Busy => spec
  /\ Begin(w, "files", [Load("files", b, "write") EXCEPT
       !.source = tank, !.at = IF spec THEN 1 ELSE 0,
       !.to = IF plate[b].status \notin {"assigned", "ready"} THEN "none"
              ELSE IF Schedulable(row) THEN "ready" ELSE "assigned"])

FilesWrite(w) ==
  LET r == req[w] IN
  /\ At(w, "files", "write")
  /\ SetPlate(r.b, [plate[r.b] EXCEPT !.spec = (r.at = 1), !.tank = r.source,
                                      !.status = IF r.to = "none" THEN @ ELSE r.to])
  /\ Goto(w, "idle")
  /\ UNCHANGED <<piece, orders, left, inUse, now, clock, drawn>>

Reserve(w, b, s) ==
  /\ ~Resin
  /\ plate[b].status \in {"pending", "assigned", "ready"} \cup Busy
  /\ plate[b].spec
  /\ On(b, piece) # {}
  /\ Begin(w, "reserve", [Load("reserve", b, "tx") EXCEPT !.source = s, !.p = Min(On(b, piece))])

\* One transaction: every reservation of the plate goes, then the new one must
\* fit; it is anchored on the oldest piece.
ReserveTx(w) ==
  LET r == req[w]
      rows == Released(On(r.b, piece))
      others == Need * Cardinality({p \in Pieces : rows[p].source = r.source /\ rows[p].status \in Busy})
      fits == Need <= Monus(left[r.source], others) /\ piece[r.p].status # "deleted" IN
  /\ At(w, "reserve", "tx")
  /\ piece' = IF fits THEN [rows EXCEPT ![r.p].source = r.source] ELSE piece
  /\ Goto(w, "idle")
  /\ UNCHANGED <<plate, orders, left, inUse, now, clock, drawn>>

\* POST release-spools: no condition on the status.
Release(w, b) ==
  /\ "release" \in Routes[w]
  /\ req[w] = Idle
  /\ Exists(b)
  /\ piece' = Released(On(b, piece))
  /\ UNCHANGED <<plate, orders, left, inUse, now, req, clock, drawn>>

----------------------------------------------------------------------------
(* schedule, unschedule, complete, cancel, restore, reprint: the plate     *)
(* first, its material and machine next, its pieces last.                  *)

Meets(row, a, b) == row.to > 0 /\ row.from < b /\ row.to > a

Schedule(w, b, t) ==
  /\ plate[b].status \in {"ready", "scheduled"}
  /\ Schedulable(plate[b])
  /\ Begin(w, "schedule", [Load("schedule", b, "check") EXCEPT !.at = t, !.to = plate[b].status])

\* The spools reserved for the plate, or its tank.
SourcesOf(r) == IF Resin THEN {r.source} ELSE {piece[p].source : p \in On(r.b, piece)} \ {None}

\* The tables a busy plate keeps others from: its machine, its spool or tank.
HeldBy(c) == IF Resin THEN {plate[c].tank} \ {None} ELSE {piece[p].source : p \in On(c, piece)} \ {None}

\* Mutant: the other plates on the machine not asked.
ScheduleCheckSourceOnly(w) ==
  LET r == req[w]
      e == r.at + Minutes
      clash == \E c \in Plates \ {r.b} :
                 /\ plate[c].status \in Busy /\ Meets(plate[c], r.at, e)
                 /\ HeldBy(c) \cap SourcesOf(r) # {} IN
  /\ At(w, "schedule", "check")
  /\ Goto(w, IF r.at >= now /\ ~clash THEN "write" ELSE "idle")
  /\ UNCHANGED <<world, now, clock, drawn>>

\* The conflict queries: not in the past, machine and material free, and
\* enough resin beyond what is promised to others.
ScheduleCheck(w) ==
  LET r == req[w]
      e == r.at + Minutes
      clash == \E c \in Plates \ {r.b} :
                 /\ plate[c].status \in Busy /\ Meets(plate[c], r.at, e)
                 /\ plate[c].printer = r.printer \/ HeldBy(c) \cap SourcesOf(r) # {}
      own == IF r.to = "scheduled" THEN Need ELSE 0
      enough == Resin => Reserved(r.source) + Need <= left[r.source] + own IN
  /\ At(w, "schedule", "check")
  /\ Goto(w, IF r.at >= now /\ ~clash /\ enough THEN "write" ELSE "idle")
  /\ UNCHANGED <<world, now, clock, drawn>>

ScheduleWrite(w) ==
  LET r == req[w] IN
  /\ At(w, "schedule", "write")
  /\ SetPlate(r.b, [plate[r.b] EXCEPT !.status = "scheduled", !.from = r.at, !.to = r.at + Minutes])
  /\ Goto(w, "follow")
  /\ UNCHANGED <<piece, orders, left, inUse, now, clock, drawn>>

Unschedule(w, b) ==
  /\ plate[b].status = "scheduled"
  /\ Begin(w, "unschedule", [Load("unschedule", b, "write") EXCEPT
                               !.to = IF plate[b].spec THEN "ready" ELSE "assigned"])

UnscheduleWrite(w) ==
  LET r == req[w] IN
  /\ At(w, "unschedule", "write")
  /\ SetPlate(r.b, [Unbooked(plate[r.b]) EXCEPT !.status = r.to])
  /\ Goto(w, "release")
  /\ UNCHANGED <<piece, orders, left, inUse, now, clock, drawn>>

Complete(w, b, outcome) ==
  /\ plate[b].status \in Busy
  /\ Begin(w, "complete", [Load("complete", b, "write") EXCEPT !.to = outcome])

CompleteWrite(w) ==
  LET r == req[w] IN
  /\ At(w, "complete", "write")
  /\ SetPlate(r.b, [plate[r.b] EXCEPT !.status = r.to, !.ran = TRUE])
  /\ Goto(w, IF r.to = "failed" THEN IF Resin THEN "free" ELSE "release"
             ELSE IF Resin THEN "pour" ELSE "ledger")
  /\ UNCHANGED <<piece, orders, left, inUse, now, clock, drawn>>

\* consumeSpoolsTx: what is reserved is read ...
CompleteLedger(w) ==
  /\ At(w, "complete", "ledger")
  /\ req' = [req EXCEPT ![w].pc = "draw", ![w].ids = Ledger(On(req[w].b, piece))]
  /\ UNCHANGED <<world, now, clock, drawn>>

\* ... and then taken off the shelf, whatever happened to it in between.
CompleteDraw(w) ==
  LET r == req[w] IN
  /\ At(w, "complete", "draw")
  /\ left' = Charged(r.ids)
  /\ piece' = Released({row[1] : row \in r.ids})
  /\ req' = [req EXCEPT ![w].pc = "free", ![w].ids = {}]
  /\ UNCHANGED <<plate, orders, inUse, now, clock, drawn>>

\* A resin plate draws from the tank it has by now.
CompletePour(w) ==
  LET b == req[w].b
      rows == IF Exists(b) /\ plate[b].spec /\ plate[b].tank # None THEN {<<b, plate[b].tank>>} ELSE {} IN
  /\ At(w, "complete", "pour")
  /\ left' = Charged(rows)
  /\ Goto(w, "free")
  /\ UNCHANGED <<plate, piece, orders, inUse, now, clock, drawn>>

CompleteFree(w) ==
  /\ At(w, "complete", "free")
  /\ inUse' = Freed(req[w].printer)
  /\ Goto(w, "follow")
  /\ UNCHANGED <<plate, piece, orders, left, now, clock, drawn>>

\* Resin parts that printed well are to be washed and cured.
CompletePost(w) ==
  /\ At(w, "complete", "post")
  /\ piece' = [p \in Pieces |-> IF piece[p].plate = req[w].b /\ piece[p].status = "done"
                                THEN [piece[p] EXCEPT !.post = TRUE] ELSE piece[p]]
  /\ Goto(w, "idle")
  /\ UNCHANGED <<plate, orders, left, inUse, now, clock, drawn>>

Cancel(w, b) ==
  /\ plate[b].status \in {"pending", "assigned", "ready", "failed"} \cup Busy
  /\ Begin(w, "cancel", Load("cancel", b, "write"))

CancelWrite(w) ==
  LET b == req[w].b IN
  /\ At(w, "cancel", "write")
  /\ SetPlate(b, [Unbooked(plate[b]) EXCEPT !.status = "cancelled"])
  /\ Goto(w, "release")
  /\ UNCHANGED <<piece, orders, left, inUse, now, clock, drawn>>

Restore(w, b) ==
  /\ plate[b].status \in {"cancelled", "disassembled"}
  /\ Begin(w, "restore", [Load("restore", b, "write") EXCEPT !.to = BackTo(plate[b])])

RestoreWrite(w) ==
  LET r == req[w] IN
  /\ At(w, "restore", "write")
  /\ SetPlate(r.b, [Unbooked(plate[r.b]) EXCEPT !.status = r.to])
  /\ drawn' = [drawn EXCEPT ![r.b] = 0]
  /\ Goto(w, "follow")
  /\ UNCHANGED <<piece, orders, left, inUse, now, clock>>

Reprint(w, b) ==
  /\ plate[b].status = "failed"
  /\ Begin(w, "reprint", [Load("reprint", b, "write") EXCEPT !.to = BackTo(plate[b])])

ReprintWrite(w) ==
  LET r == req[w] IN
  /\ At(w, "reprint", "write")
  /\ SetPlate(r.b, [Unbooked(plate[r.b]) EXCEPT !.status = r.to, !.ran = FALSE])
  /\ drawn' = [drawn EXCEPT ![r.b] = 0]
  /\ Goto(w, "clear")
  /\ UNCHANGED <<piece, orders, left, inUse, now, clock>>

ReprintClear(w) ==
  /\ At(w, "reprint", "clear")
  /\ piece' = [p \in Pieces |-> IF piece[p].plate = req[w].b
                                THEN [piece[p] EXCEPT !.stamped = FALSE] ELSE piece[p]]
  /\ Goto(w, "follow")
  /\ UNCHANGED <<plate, orders, left, inUse, now, clock, drawn>>

\* releaseSpools of unschedule, cancel and a failed completion.
ReleaseSpools(w) ==
  /\ req[w].pc = "release"
  /\ piece' = Released(On(req[w].b, piece))
  /\ Goto(w, IF req[w].op = "complete" THEN "free" ELSE "follow")
  /\ UNCHANGED <<plate, orders, left, inUse, now, clock, drawn>>

\* What the pieces are told.
Told(r) == CASE r.op = "schedule"                  -> "scheduled"
             [] r.op \in {"unschedule", "restore"} -> "pending"
             [] r.op = "cancel"                    -> "cancelled"
             [] r.op \in {"complete", "reprint"}   -> r.to

\* Mutant: a cancelled plate forgets its pieces.
PropagateUnlessCancelled(w) ==
  LET r == req[w] IN
  /\ r.pc = "follow"
  /\ piece' = [p \in Pieces |-> IF piece[p].plate = r.b /\ r.op # "cancel"
                                THEN [piece[p] EXCEPT !.status = Told(r)] ELSE piece[p]]
  /\ Goto(w, IF r.op = "complete" /\ Resin /\ r.to = "done" THEN "post" ELSE "idle")
  /\ UNCHANGED <<plate, orders, left, inUse, now, clock, drawn>>

\* propagatePieceStatus: whatever the pieces were.
Propagate(w) ==
  LET r == req[w] IN
  /\ r.pc = "follow"
  /\ piece' = [p \in Pieces |-> IF piece[p].plate = r.b
                                THEN [piece[p] EXCEPT !.status = Told(r)] ELSE piece[p]]
  /\ Goto(w, IF r.op = "complete" /\ Resin /\ r.to = "done" THEN "post" ELSE "idle")
  /\ UNCHANGED <<plate, orders, left, inUse, now, clock, drawn>>

----------------------------------------------------------------------------
(* outcome: a verdict for every part, and the plate is taken apart.        *)

Verdicts == {"done", "failed", "not_started"}

Triage(w, b) ==
  /\ plate[b].status \in Busy
  /\ On(b, piece) # {}
  /\ Begin(w, "triage", [Load("triage", b, "tx") EXCEPT !.ids = On(b, piece)])

\* requeueStatus: no way back to 'assigned' without a printer to inherit.
Requeued(r, to) ==
  IF to = "assigned" /\ r.printer # None
  THEN [Loose EXCEPT !.status = "assigned", !.printer = r.printer, !.source = r.source]
  ELSE Loose

\* A good part carries out the window it was printed in, and no machine.
Printed(row) ==
  [Unreserved(row) EXCEPT !.status = "done", !.plate = None, !.post = @ \/ Resin,
                          !.stamped = TRUE]

\* By piece, wherever the pieces read before the transaction are by now.
Dismantled(r, verdict, to) ==
  [p \in Pieces |-> IF p \notin r.ids \/ piece[p].status = "deleted" THEN piece[p]
                    ELSE IF verdict[p] = "done" THEN Printed(piece[p])
                    ELSE Requeued(r, to[verdict[p]])]

Destinations == [{"failed", "not_started"} -> {"assigned", "pending"}]

\* What the plate took: from its tank, or from the spools still reserved.
TriageSources(r) == IF Resin THEN {r.source} \ {None}
                    ELSE {piece[p].source : p \in r.ids} \ {None}

\* The split of what was consumed: the whole plate when every part is good,
\* nothing when none was started, a measured loss for the failed ones.
Consumption(r, verdict) ==
  {cost \in [TriageSources(r) -> 0..Need] :
     LET total == MapThenSumSet(LAMBDA s : cost[s], TriageSources(r)) IN
     /\ total <= Need
     /\ (\A p \in r.ids : verdict[p] = "done") /\ TriageSources(r) # {} => total = Need
     /\ (\A p \in r.ids : verdict[p] = "not_started") => total = 0}

\* Mutant: the plate is not read again under its lock.
ClaimedUnseen(b) == Exists(b)

\* Step 0: the status is read again, under the lock of the row.
Claimed(b) == plate[b].status \in Busy

\* The settlement proper, of a plate that could be claimed.
Settle(r, verdict, to, cost) ==
  LET rows == Dismantled(r, verdict, to) IN
  /\ Legal(rows)
  /\ piece' = rows
  /\ plate' = [plate EXCEPT ![r.b].status =
                 IF \E p \in r.ids : verdict[p] = "done" THEN "done" ELSE "failed",
                            ![r.b].ran = TRUE]
  /\ left' = [s \in Stocks |-> IF s \in DOMAIN cost THEN Monus(left[s], cost[s]) ELSE left[s]]
  /\ inUse' = Freed(r.printer)
  /\ orders' = Rolled(rows, {OrderOf[p] : p \in r.ids})
  /\ drawn' = [drawn EXCEPT ![r.b] = @ + IF \E s \in DOMAIN cost : cost[s] > 0 THEN 1 ELSE 0]

TriageTx(w) ==
  LET r == req[w] IN
  /\ At(w, "triage", "tx")
  /\ IF Claimed(r.b)
     THEN \E verdict \in [r.ids -> Verdicts], to \in Destinations :
            \E cost \in Consumption(r, verdict) : Settle(r, verdict, to, cost)
     ELSE UNCHANGED <<world, drawn>>
  /\ Goto(w, "idle")
  /\ UNCHANGED <<now, clock>>

----------------------------------------------------------------------------
(* disassemble, delete, and the removal of one piece.                      *)

Gone == [NoPlate EXCEPT !.status = "deleted"]

\* deleteEmptyBedTx: a plate that never ran leaves no row behind.
Emptied(row) ==
  IF row.ran THEN [Unbooked(row) EXCEPT !.status = "disassembled", !.printer = None] ELSE Gone

Disassemble(w, b) ==
  /\ Exists(b)
  /\ plate[b].status \notin Busy \cup {"disassembled"}
  /\ Begin(w, "disassemble", Load("disassemble", b, "tx"))

\* Stamps and reservations stay with the pieces; no order is recomputed.
DisassembleTx(w) ==
  LET b == req[w].b IN
  /\ At(w, "disassemble", "tx")
  /\ piece' = [p \in Pieces |-> IF piece[p].plate = b
                                THEN [piece[p] EXCEPT !.plate = None, !.status = "pending"] ELSE piece[p]]
  /\ SetPlate(b, Emptied(plate[b]))
  /\ Goto(w, "idle")
  /\ UNCHANGED <<orders, left, inUse, now, clock, drawn>>

DeletePlate(w, b) ==
  /\ Exists(b)
  /\ Begin(w, "delete", [Load("delete", b, "tx") EXCEPT !.to = plate[b].status])

Deleted == [Loose EXCEPT !.status = "deleted"]

DeletePlateTx(w) ==
  LET r == req[w]
      rows == [p \in Pieces |-> IF piece[p].plate = r.b THEN Deleted ELSE piece[p]] IN
  /\ At(w, "delete", "tx")
  /\ piece' = rows
  /\ SetPlate(r.b, Gone)
  /\ inUse' = IF r.to = "printing" THEN Freed(r.printer) ELSE inUse
  /\ orders' = Rolled(rows, {OrderOf[p] : p \in On(r.b, piece)})
  /\ Goto(w, "idle")
  /\ UNCHANGED <<left, now, clock, drawn>>

\* A piece of a plate cancelled, or deleted by force.
Remove(w, p, how) ==
  /\ piece[p].plate # None
  /\ how = "cancel" => piece[p].status \notin {"done", "cancelled"}
  /\ Begin(w, "remove", [Idle EXCEPT !.op = "remove", !.pc = "tx", !.p = p, !.to = how,
                                     !.b = piece[p].plate])

\* Mutant: the survivors leave without the evidence their status requires.
DetachedUnstamped(row) ==
  [row EXCEPT !.plate = None,
              !.status = IF @ \in {"cancelled", "done", "failed", "printing"} THEN @ ELSE "pending"]

\* A survivor of a plate that comes apart.
Detached(row) ==
  [row EXCEPT !.plate = None,
              !.status = IF @ \in {"cancelled", "done", "failed", "printing"} THEN @ ELSE "pending",
              !.stamped = @ \/ row.status = "done"]

\* reevaluateBedAfterPieceRemoval: plate b without the piece that went.
Reevaluated(b, rows) ==
  LET kids == On(b, rows) IN
  CASE kids = {} -> [plate |-> Gone, rows |-> rows]
    [] kids # {} /\ \A p \in kids : rows[p].status = "cancelled" ->
         [plate |-> [Unbooked(plate[b]) EXCEPT !.status = "cancelled"], rows |-> rows]
    [] OTHER ->
         [plate |-> Emptied(plate[b]),
          rows  |-> [p \in Pieces |-> IF p \in kids THEN Detached(rows[p]) ELSE rows[p]]]

\* The piece gone; a cancellation asks again which plate it is on.
Removed(r) ==
  [piece EXCEPT ![r.p] = IF @.status = "deleted" \/ r.to = "delete" THEN Deleted
                         ELSE [Unreserved(@) EXCEPT !.status = "cancelled"]]

PlateOfRemoval(r) == IF r.to = "cancel" THEN piece[r.p].plate ELSE r.b

\* One transaction; the plate's machine stays locked.
RemoveTx(w) ==
  LET r == req[w]
      b == PlateOfRemoval(r)
      after == IF b = None THEN [plate |-> NoPlate, rows |-> Removed(r)]
               ELSE Reevaluated(b, Removed(r)) IN
  /\ At(w, "remove", "tx")
  /\ IF Legal(after.rows)
     THEN /\ piece' = after.rows
          /\ IF b = None THEN plate' = plate ELSE SetPlate(b, after.plate)
          /\ orders' = Rolled(after.rows, {OrderOf[r.p]})
     ELSE UNCHANGED <<piece, plate, orders>>
  /\ Goto(w, "idle")
  /\ UNCHANGED <<left, inUse, now, clock, drawn>>

----------------------------------------------------------------------------
(* The clock: one sweep, statement by statement, its plates in any order.  *)

\* advanceBeds: one UPDATE for every plate that is due.
ClockAdvance ==
  LET due == {b \in Plates : plate[b].status = "scheduled" /\ plate[b].to > 0 /\ plate[b].from <= now} IN
  /\ clock = Resting
  /\ plate' = [b \in Plates |-> IF b \in due THEN [plate[b] EXCEPT !.status = "printing", !.ran = TRUE]
                                ELSE plate[b]]
  /\ clock' = [Resting EXCEPT !.pc = IF due = {} THEN "select" ELSE "follow",
                              !.todo = {<<b, plate[b].printer>> : b \in due}]
  /\ UNCHANGED <<piece, orders, left, inUse, now, req, drawn>>

\* Only the pieces that say 'scheduled' follow.
ClockFollow(b, printer) ==
  /\ clock.pc = "follow"
  /\ <<b, printer>> \in clock.todo
  /\ piece' = [p \in Pieces |->
                 IF piece[p].plate = b /\ piece[p].status = "scheduled"
                 THEN [piece[p] EXCEPT !.status = "printing"] ELSE piece[p]]
  /\ clock' = [clock EXCEPT !.pc = "lock", !.b = b, !.printer = printer, !.todo = @ \ {<<b, printer>>}]
  /\ UNCHANGED <<plate, orders, left, inUse, now, req, drawn>>

\* The machine is locked in the name of the order of one of the pieces.
ClockLock ==
  /\ clock.pc = "lock"
  /\ inUse' = [pr \in Printers |-> inUse[pr] \/ (pr = clock.printer /\ On(clock.b, piece) # {})]
  /\ clock' = [Resting EXCEPT !.pc = IF clock.todo = {} THEN "select" ELSE "follow", !.todo = clock.todo]
  /\ UNCHANGED <<plate, piece, orders, left, now, req, drawn>>

Elapsed(b) == plate[b].status = "printing" /\ plate[b].to > 0 /\ plate[b].to <= now

\* Mutant: the plates joined with their pieces, an empty one never found.
ClockSelectHolding ==
  LET due == {b \in Plates : Elapsed(b) /\ On(b, piece) # {}} IN
  /\ clock.pc = "select"
  /\ clock' = [Resting EXCEPT !.pc = IF due = {} THEN "idle" ELSE "settle",
                              !.todo = {<<b, plate[b].printer>> : b \in due}]
  /\ UNCHANGED <<world, now, req, drawn>>

\* completeDueBeds: the plates whose window has elapsed.
ClockSelect ==
  LET due == {b \in Plates : Elapsed(b)} IN
  /\ clock.pc = "select"
  /\ clock' = [Resting EXCEPT !.pc = IF due = {} THEN "idle" ELSE "settle",
                              !.todo = {<<b, plate[b].printer>> : b \in due}]
  /\ UNCHANGED <<world, now, req, drawn>>

\* One transaction, on whatever the plate has become; no resin is drawn.
ClockSettle(b, printer) ==
  LET rows == Ledger(On(b, piece)) IN
  /\ clock.pc = "settle"
  /\ <<b, printer>> \in clock.todo
  /\ SetPlate(b, [plate[b] EXCEPT !.status = "done", !.ran = TRUE])
  /\ left' = Charged(rows)
  /\ piece' = Released(On(b, piece))
  /\ inUse' = Freed(printer)
  /\ clock' = [clock EXCEPT !.pc = "tell", !.b = b, !.todo = @ \ {<<b, printer>>},
                            !.orders = {OrderOf[p] : p \in On(b, piece)}]
  /\ UNCHANGED <<orders, now, req, drawn>>

NextPlate(todo) == [Resting EXCEPT !.pc = IF todo = {} THEN "idle" ELSE "settle", !.todo = todo]

ClockTell ==
  /\ clock.pc = "tell"
  /\ piece' = [p \in Pieces |-> IF piece[p].plate = clock.b
                                THEN [piece[p] EXCEPT !.status = "done", !.stamped = TRUE] ELSE piece[p]]
  /\ clock' = IF clock.orders = {} THEN NextPlate(clock.todo) ELSE [clock EXCEPT !.pc = "orders"]
  /\ UNCHANGED <<plate, orders, left, inUse, now, req, drawn>>

ClockOrder(o) ==
  /\ clock.pc = "orders"
  /\ o \in clock.orders
  /\ orders' = Rolled(piece, {o})
  /\ clock' = IF clock.orders = {o} THEN NextPlate(clock.todo) ELSE [clock EXCEPT !.orders = @ \ {o}]
  /\ UNCHANGED <<plate, piece, left, inUse, now, req, drawn>>

TimePasses ==
  /\ now < MaxTime
  /\ now' = now + 1
  /\ UNCHANGED <<world, req, clock, drawn>>

\* A statement fails or the process dies: what is committed stays.
RequestFails(w) ==
  /\ "request" \in Faults
  /\ req[w] # Idle
  /\ Goto(w, "idle")
  /\ UNCHANGED <<world, now, clock, drawn>>

TickFails ==
  /\ "tick" \in Faults
  /\ clock # Resting
  /\ clock' = Resting
  /\ UNCHANGED <<world, now, req, drawn>>

----------------------------------------------------------------------------

Call(w) ==
  \/ \E b \in Plates :
       \/ \E S \in Batches : Create(w, b, S)
       \/ \E pr \in Printers, tank \in Stocks \cup {None}, spec \in BOOLEAN : Assign(w, b, pr, tank, spec)
       \/ \E spec \in BOOLEAN, tank \in Stocks \cup {None} : Files(w, b, spec, tank)
       \/ \E s \in Stocks : Reserve(w, b, s)
       \/ \E t \in 0..MaxTime : t + Minutes <= MaxTime /\ Schedule(w, b, t)
       \/ \E outcome \in {"done", "failed"} : Complete(w, b, outcome)
       \/ Release(w, b) \/ Unschedule(w, b) \/ Cancel(w, b) \/ Restore(w, b) \/ Reprint(w, b)
       \/ Triage(w, b) \/ Disassemble(w, b) \/ DeletePlate(w, b)
  \/ \E p \in Pieces, how \in {"cancel", "delete"} : Remove(w, p, how)

Proceed(w) ==
  \/ CreateTx(w) \/ AssignWrite(w) \/ FilesWrite(w) \/ ReserveTx(w)
  \/ ScheduleCheck(w) \/ ScheduleWrite(w) \/ UnscheduleWrite(w)
  \/ CompleteWrite(w) \/ CompleteLedger(w) \/ CompleteDraw(w) \/ CompletePour(w)
  \/ CompleteFree(w) \/ CompletePost(w)
  \/ CancelWrite(w) \/ RestoreWrite(w) \/ ReprintWrite(w) \/ ReprintClear(w)
  \/ ReleaseSpools(w) \/ Propagate(w)
  \/ TriageTx(w) \/ DisassembleTx(w) \/ DeletePlateTx(w) \/ RemoveTx(w)

FollowOne == \E d \in clock.todo : ClockFollow(d[1], d[2])
SettleOne == \E d \in clock.todo : ClockSettle(d[1], d[2])

Tick == \/ ClockAdvance \/ FollowOne \/ ClockLock
        \/ ClockSelect \/ SettleOne \/ ClockTell
        \/ \E o \in Orders : ClockOrder(o)

Next ==
  \/ \E w \in Workers : Call(w) \/ Proceed(w) \/ RequestFails(w)
  \/ Tick
  \/ TimePasses
  \/ TickFails

Spec == Init /\ [][Next]_vars

\* Handlers run to their end, the timer fires and time passes; a sweep may
\* fail again and again, but not always at the same statement.
Fairness == /\ \A w \in Workers : WF_vars(Proceed(w))
            /\ WF_vars(Tick)
            /\ SF_vars(ClockSelect) /\ SF_vars(SettleOne)
            /\ WF_vars(TimePasses)

----------------------------------------------------------------------------
(* Properties.                                                             *)

\* However many operators triage a plate at the same time, its material is
\* deducted once for a run (step 0 of recordOutcome, "Claim the plate").
TriageDrawsOnce == \A b \in Plates : drawn[b] <= 1

\* A booked window ends: a scheduled plate is printed and settled, or taken
\* off the board, even one that lost its pieces to a late request.
WindowsEnd == \A b \in Plates : (plate[b].status \in Busy) ~> (plate[b].status \notin Busy)
=============================================================================
