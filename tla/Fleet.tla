-------------------------------- MODULE Fleet --------------------------------
(***************************************************************************)
(* The machines and the stock of a company, managed from the office while  *)
(* the shop floor of PieceLifecycle works with them: printers are bought,  *)
(* re-specified, taken offline, maintained and removed; nozzles are fitted *)
(* to printers; spools and tanks are bought in lots, split, corrected and  *)
(* deleted.                                                                *)
(*                                                                         *)
(* A handler that is one statement or one transaction deciding on nothing  *)
(* it read before is one step.  Five are split between what they read and  *)
(* what they write: adding printers, which count themselves against the    *)
(* cap of the licence under an advisory lock; removing one, whose check    *)
(* for a running print is outside its transaction; fitting nozzles; taking *)
(* in spools, which join a lot under an advisory lock; and splitting, whose *)
(* transaction locks nothing it read.                                      *)
(* Left out: names and catalogues, spare parts, the raw editing of who a   *)
(* printer is in use by, and the purchase an intake books, which is in     *)
(* Books.                                                                  *)
(***************************************************************************)
EXTENDS PieceLifecycle, FiniteSets

CONSTANTS
  Nozzles,
  Models, ResinModels,   \* printer references, and those that cure resin
  Materials,             \* filament references and resin types
  Names,                 \* what operators call their lots
  Sizes, Prices,         \* what a container is bought with, and for
  Owned,                 \* printers, stocks and nozzles there at first
  Enforced, Caps,        \* LICENSING_ENFORCED, and what plans cap printers at
  Slack,                 \* the half gram that the parts of a split may be off by
  Desks, Alone,          \* concurrent office requests; those nothing runs beside
  MaxLots                \* bound on lots

Assets == Stocks \cup Nozzles

\* The catalogue has a filament printer.
ASSUME FleetAssumption ==
  /\ ResinModels \subseteq Models /\ ResinModels # Models /\ Materials # {}
  /\ IsFiniteSet(Printers) /\ Enforced \in BOOLEAN /\ Caps \subseteq Nat /\ Slack \in Nat
  /\ Sizes \subseteq Nat \ {0} /\ Prices \subseteq Nat
  /\ Owned \subseteq Printers \cup Assets /\ \A s \in Stocks \ Owned : InStock[s] = 0
  /\ MaxLots \in Nat

\* No identifier is of two kinds.
ASSUME KindsAreDistinct == Spools \cap Tanks = {} /\ Printers \cap Assets = {}

VARIABLES
  machine,   \* machine[pr]: the printer_instances and printer_stock rows
  asset,     \* asset[a]: the asset_instances row
  lots,      \* asset_batches
  desk,      \* desk[d]: the office request desk d is in the middle of
  strays     \* ghost: pieces that a request under way left on a removed printer

office == <<machine, asset, lots>>
fleetVars == <<vars, office, desk, strays>>

NoAsset == [there |-> FALSE, split |-> FALSE, used |-> FALSE, parent |-> None, initial |-> 0,
            price |-> 0, material |-> None, lot |-> 0]
AtRest == [op |-> "none", on |-> None, ids |-> {}, out |-> {}, of |-> None,
           n |-> 0, size |-> [a \in {} |-> 0], price |-> 0, under |-> {}]

FleetInit ==
  /\ Init
  /\ machine = [pr \in Printers |->
                  [there |-> pr \in Owned, model |-> CHOOSE m \in Models : m \notin ResinModels,
                   off |-> FALSE, maint |-> FALSE, nozzles |-> {}]]
  /\ asset = [a \in Assets |->
                IF a \in Owned
                THEN [NoAsset EXCEPT !.there = TRUE, !.initial = IF a \in Stocks THEN InStock[a] ELSE 0,
                                     !.material = CHOOSE m \in Materials : TRUE]
                ELSE NoAsset]
  /\ lots = {}
  /\ desk = [d \in Desks |-> AtRest]
  /\ strays = {}

There(S) == {x \in S : IF x \in Printers THEN machine[x].there ELSE asset[x].there}
Absent(S) == S \ (There(S) \cup UNION {desk[d].ids : d \in Desks})

Resinous(pr) == machine[pr].model \in ResinModels

\* Nothing that must be alone is under way; and op finds nothing under way
\* when it must be alone.
Free(op) ==
  /\ \A d \in Desks : desk[d].op \notin Alone
  /\ op \in Alone => Quiet /\ \A d \in Desks : desk[d] = AtRest

\* Request op begins at desk d, having read what it will decide on.
Take(d, r) ==
  /\ desk[d] = AtRest /\ Free(r.op)
  /\ desk' = [desk EXCEPT ![d] = r]
  /\ UNCHANGED <<vars, office>>

Done(d) == desk' = [desk EXCEPT ![d] = AtRest]

----------------------------------------------------------------------------
(* Printers.                                                               *)

\* Mutant: the advisory lock not taken.
OpenCreateUnlocked(d, n, model) ==
  Take(d, [AtRest EXCEPT !.op = "create", !.on = model, !.n = n])

\* createPrinter, holding the lock of the company's printer cap until it commits.
OpenCreate(d, n, model) ==
  /\ \A e \in Desks : desk[e].op # "create"
  /\ Take(d, [AtRest EXCEPT !.op = "create", !.on = model, !.n = n])

\* What resolve says of the plan: lapsed, or capped, or of no cap.  A status
\* that cannot be resolved counts as no cap.
Answers == {[lapsed |-> TRUE, caps |-> {}], [lapsed |-> FALSE, caps |-> {}]}
             \cup {[lapsed |-> FALSE, caps |-> {cap}] : cap \in Caps}

\* assertCanAddPrinter: a recount that sees this transaction's own rows; where
\* licensing is not enforced its verdict is only logged.
CanAddPrinter(d, answer) ==
  Enforced => /\ ~answer.lapsed
              /\ \A cap \in answer.caps :
                   Cardinality(There(Printers)) + Cardinality(desk[d].ids) + 1 <= cap

\* The next unit, under the cap it was counted against, or none of them.
CreateUnit(d, answer) ==
  /\ desk[d].op = "create" /\ Cardinality(desk[d].ids) < desk[d].n
  /\ IF CanAddPrinter(d, answer)
     THEN \E pr \in Absent(Printers) :
            desk' = [desk EXCEPT ![d].ids = @ \cup {pr}, ![d].under = IF Enforced THEN answer.caps ELSE {}]
     ELSE Done(d)
  /\ UNCHANGED <<vars, office>>

CreateCommit(d) ==
  /\ desk[d].op = "create" /\ Cardinality(desk[d].ids) = desk[d].n
  /\ machine' = [pr \in Printers |->
                   IF pr \in desk[d].ids
                   THEN [there |-> TRUE, model |-> desk[d].on, off |-> FALSE, maint |-> FALSE, nozzles |-> {}]
                   ELSE machine[pr]]
  /\ Done(d)
  /\ UNCHANGED <<vars, asset, lots>>

\* A new reference brings its technology along; what is fitted stays fitted.
UpdatePrinter(pr, model) ==
  /\ pr \in There(Printers) /\ Free("update")
  /\ machine' = [machine EXCEPT ![pr].model = model]
  /\ UNCHANGED <<vars, asset, lots, desk>>

Waiting == {"assigned", "ready", "scheduled"}

\* Mutant: only the calendar is cleared; what has no window stays.
RevertedScheduled(pr) ==
  [p \in Pieces |->
     IF piece[p].printer = pr /\ piece[p].status = "scheduled"
     THEN [Unbooked(WithoutSpool(p, piece[p])) EXCEPT !.status = "pending", !.printer = None]
     ELSE piece[p]]

\* revertPrinterAssignmentsTx: all that has not started printing goes back.
Reverted(pr) ==
  [p \in Pieces |->
     IF piece[p].printer = pr /\ piece[p].status \in Waiting
     THEN [Unbooked(WithoutSpool(p, piece[p])) EXCEPT !.status = "pending", !.printer = None]
     ELSE piece[p]]

\* The rows, and the status of every order they belong to.
Revert(pr) ==
  LET rows == Reverted(pr) IN
  /\ Put(rows)
  /\ orders' = [o \in Orders |->
                  IF \E p \in Pieces : OrderOf[p] = o /\ rows[p] # piece[p]
                  THEN Rollup!Recomputed(orders[o], RowsOf(o, rows), TRUE) ELSE orders[o]]

\* Maintenance forces a printer offline; its end does not bring it back.  A
\* printer in use is refused by chk_no_use_while_offline.  None: not in the patch.
UpdatePrinterStock(pr, off, maint) ==
  LET offNow   == IF maint = TRUE THEN TRUE ELSE IF off = None THEN machine[pr].off ELSE off
      maintNow == IF maint = None THEN machine[pr].maint ELSE maint IN
  /\ pr \in There(Printers) /\ Free("offline")
  /\ offNow \/ maintNow => lock[pr] = None
  /\ machine' = [machine EXCEPT ![pr].off = offNow, ![pr].maint = maintNow]
  /\ IF off = TRUE \/ maint = TRUE THEN Revert(pr)
                                   ELSE UNCHANGED <<piece, reserved, orders>>
  /\ UNCHANGED <<left, lock, now, req, clock, charged, asset, lots, desk>>

\* deletePrinter: no print runs on it ...
DeleteCheck(d, pr) ==
  /\ pr \in There(Printers)
  /\ \A p \in Pieces : ~(piece[p].printer = pr /\ piece[p].status = "printing")
  /\ Take(d, [AtRest EXCEPT !.op = "remove", !.on = pr])

\* ... and later, in a transaction, it goes, whatever was started on it.
DeleteTx(d) ==
  LET pr == desk[d].on IN
  /\ desk[d].op = "remove"
  /\ Revert(pr)
  /\ machine' = [machine EXCEPT ![pr].there = FALSE, ![pr].nozzles = {}]
  /\ lock' = [lock EXCEPT ![pr] = None]
  /\ Done(d)
  /\ UNCHANGED <<left, now, req, clock, charged, asset, lots>>

----------------------------------------------------------------------------
(* Nozzles.                                                                *)

\* The other printers of the same reference.
Siblings(pr) == {q \in There(Printers) \ {pr} : machine[q].model = machine[pr].model}

\* addNozzleCompatibility, and bulkNozzleCompatibility with the siblings or without.
Fit(d, pr, add, remove, wide) ==
  /\ pr \in There(Printers) /\ ~Resinous(pr)
  /\ add \cap remove = {} /\ add \subseteq There(Nozzles)
  /\ Take(d, [AtRest EXCEPT !.op = "fit", !.on = pr, !.out = remove, !.of = add,
                            !.ids = {pr} \cup IF wide THEN {q \in Siblings(pr) : ~Resinous(q)} ELSE {}])

\* Every target gets what is added; only the printer itself loses anything.
\* A foreign key refuses what is gone by now.
FitTx(d) ==
  LET r == desk[d] IN
  /\ r.op = "fit"
  /\ IF r.ids \subseteq There(Printers) /\ r.of \subseteq There(Nozzles)
     THEN machine' = [pr \in Printers |->
            IF pr \in r.ids
            THEN [machine[pr] EXCEPT !.nozzles = (@ \cup r.of) \ IF pr = r.on THEN r.out ELSE {}]
            ELSE machine[pr]]
     ELSE UNCHANGED machine
  /\ Done(d)
  /\ UNCHANGED <<vars, asset, lots>>

Unfit(pr, nozzle) ==
  /\ nozzle \in machine[pr].nozzles /\ Free("unfit")
  /\ machine' = [machine EXCEPT ![pr].nozzles = @ \ {nozzle}]
  /\ UNCHANGED <<vars, asset, lots, desk>>

----------------------------------------------------------------------------
(* Lots and intakes.                                                       *)

LotOf(name, material) == {l \in lots : l.name = name /\ l.material = material}

Bought(ids, size, price, material, lot) ==
  [a \in Assets |->
     IF a \in ids
     THEN [NoAsset EXCEPT !.there = TRUE, !.initial = size, !.price = price,
                          !.material = material, !.lot = lot]
     ELSE asset[a]]

\* Mutant: no lock on the name of the lot.
IntakeLookUnlocked(d, ids, name, material, size, price) ==
  /\ ids \subseteq Absent(Spools) /\ ids # {}
  /\ Take(d, [AtRest EXCEPT !.op = "intake", !.ids = ids, !.on = name, !.of = material,
                            !.n = LET l == LotOf(name, material)
                                  IN IF l = {} THEN 0 ELSE (CHOOSE x \in l : TRUE).number,
                            !.size = [a \in ids |-> size], !.price = price])

\* createSpool, to the lot it will be filed in: 0 when none has that name.  The
\* name is locked until the intake commits; without a name nothing is.
IntakeLook(d, ids, name, material, size, price) ==
  /\ ids \subseteq Absent(Spools) /\ ids # {}
  /\ name # None => \A e \in Desks :
       ~(desk[e].op = "intake" /\ desk[e].on = name /\ desk[e].of = material)
  /\ Take(d, [AtRest EXCEPT !.op = "intake", !.ids = ids, !.on = name, !.of = material,
                            !.n = LET l == LotOf(name, material)
                                  IN IF l = {} THEN 0 ELSE (CHOOSE x \in l : TRUE).number,
                            !.size = [a \in ids |-> size], !.price = price])

\* The rest of its transaction.  A single spool without a name has no lot; a
\* new lot takes the next number, for a name where none was typed, unless
\* uq_asset_batches_company_ref_name finds its name taken.
IntakeTx(d) ==
  LET r      == desk[d]
      lotted == r.on # None \/ Cardinality(r.ids) > 1
      number == Cardinality(lots) + 1
      lot    == IF ~lotted THEN 0 ELSE IF r.n # 0 THEN r.n ELSE number
      taken  == lot = number /\ LotOf(r.on, r.of) # {} IN
  /\ r.op = "intake"
  /\ lotted /\ r.n = 0 => number <= MaxLots
  /\ IF taken
     THEN UNCHANGED <<left, asset, lots>>
     ELSE /\ asset' = [a \in Assets |-> IF a \in r.ids THEN Bought(r.ids, r.size[a], r.price, r.of, lot)[a]
                                                       ELSE asset[a]]
          /\ left' = [s \in Stocks |-> IF s \in r.ids THEN r.size[s] ELSE left[s]]
          /\ lots' = IF lot = number
                     THEN lots \cup {[number |-> number, material |-> r.of,
                                      name |-> IF r.on = None THEN number ELSE r.on]}
                     ELSE lots
  /\ Done(d)
  /\ UNCHANGED <<piece, orders, reserved, lock, now, req, clock, charged, machine>>

RenameAssetBatch(l, name) ==
  /\ Free("rename") /\ l \in lots
  /\ LotOf(name, l.material) \subseteq {l}
  /\ lots' = (lots \ {l}) \cup {[l EXCEPT !.name = name]}
  /\ UNCHANGED <<vars, machine, asset, desk>>

\* What is bought without a lot.
Purchase(ids, size, price, material) ==
  /\ Free("buy") /\ ids # {}
  /\ asset' = Bought(ids, size, price, material, 0)
  /\ left' = [s \in Stocks |-> IF s \in ids THEN size ELSE left[s]]
  /\ UNCHANGED <<piece, orders, reserved, lock, now, req, clock, charged, machine, lots, desk>>

CreateResinTank(ids, material, size, price) ==
  ids \subseteq Absent(Tanks) /\ Purchase(ids, size, price, material)

CreateNozzle(ids, price) ==
  ids \subseteq Absent(Nozzles) /\ Purchase(ids, 0, price, None)

----------------------------------------------------------------------------
(* Splitting, correcting and deleting.                                     *)

\* A spool is committed by any reservation, a tank by booked work only.
Committed(s) ==
  \E p \in Pieces : piece[p].source = s /\ (s \in Tanks => piece[p].status \in Busy)

\* Amounts a and b that differ by no more than the slack.
Near(a, b) == a <= b + Slack /\ b <= a + Slack

\* splitAsset, to the check that the parts make up what is left.
SplitRead(d, s, parts) ==
  /\ s \in There(Stocks) /\ ~asset[s].split /\ ~asset[s].used
  /\ reserved[s] = 0 /\ ~Committed(s)
  /\ left[s] > 0
  /\ DOMAIN parts \subseteq IF s \in Spools THEN Absent(Spools) ELSE Absent(Tanks)
  /\ Near(MapThenSumSet(LAMBDA c : parts[c], DOMAIN parts), left[s])
  /\ Take(d, [AtRest EXCEPT !.op = "split", !.on = s, !.ids = DOMAIN parts, !.size = parts,
                            !.n = left[s]])

\* Mutant: the parent keeps what went to its children.
SplitTxKeeping(d) ==
  LET r == desk[d] IN
  /\ r.op = "split" /\ asset[r.on].there
  /\ asset' = [a \in Assets |->
                 CASE a \in r.ids -> [NoAsset EXCEPT !.there = TRUE, !.parent = r.on, !.initial = r.size[a],
                                                     !.material = asset[r.on].material]
                   [] a = r.on -> [asset[a] EXCEPT !.split = TRUE]
                   [] OTHER -> asset[a]]
  /\ left' = [s \in Stocks |-> IF s \in r.ids THEN r.size[s] ELSE left[s]]
  /\ reserved' = [reserved EXCEPT ![r.on] = 0]
  /\ Done(d)
  /\ UNCHANGED <<piece, orders, lock, now, req, clock, charged, machine, lots>>

\* The children, unpriced and in no lot, and the parent emptied, whatever came
\* of it since it was read.
SplitTx(d) ==
  LET r == desk[d] IN
  /\ r.op = "split" /\ asset[r.on].there
  /\ asset' = [a \in Assets |->
                 CASE a \in r.ids -> [NoAsset EXCEPT !.there = TRUE, !.parent = r.on, !.initial = r.size[a],
                                                     !.material = asset[r.on].material]
                   [] a = r.on -> [asset[a] EXCEPT !.split = TRUE]
                   [] OTHER -> asset[a]]
  /\ left' = [s \in Stocks |-> CASE s \in r.ids -> r.size[s]
                                 [] s = r.on    -> 0
                                 [] OTHER       -> left[s]]
  /\ reserved' = [reserved EXCEPT ![r.on] = 0]
  /\ Done(d)
  /\ UNCHANGED <<piece, orders, lock, now, req, clock, charged, machine, lots>>

\* A foreign key refuses the children of a parent deleted meanwhile.
SplitFails(d) ==
  /\ desk[d].op = "split" /\ ~asset[desk[d].on].there
  /\ Done(d)
  /\ UNCHANGED <<vars, office>>

\* What was paid and what was in it can be corrected, a child's too.
UpdateAsset(a, initial, price) ==
  /\ a \in There(Assets) /\ Free("edit")
  /\ asset' = [asset EXCEPT ![a].initial = IF a \in Stocks THEN initial ELSE 0, ![a].price = price]
  /\ UNCHANGED <<vars, machine, lots, desk>>

\* The quantity of a container and the piece it is said to be in use by, raw.
UpdateAssetStock(s, remaining, used) ==
  /\ s \in There(Stocks) /\ Free("stock")
  /\ left' = [left EXCEPT ![s] = remaining]
  /\ asset' = [asset EXCEPT ![s].used = used]
  /\ UNCHANGED <<piece, orders, reserved, lock, now, req, clock, charged, machine, lots, desk>>

\* deleteAsset: the reservations of a spool go with it, and a tank is struck
\* from its pieces, unless a constraint wants them to have one.  The parent of
\* a split cannot go before its children.
DeleteAsset(a) ==
  LET rows == [p \in Pieces |-> IF piece[p].source = a THEN [piece[p] EXCEPT !.source = None]
                                                       ELSE piece[p]] IN
  /\ a \in There(Assets) /\ Free("delete")
  /\ \A c \in There(Assets) : asset[c].parent # a
  /\ Legal(rows)
  /\ Put(rows)
  /\ asset' = [asset EXCEPT ![a] = NoAsset]
  /\ left' = [s \in Stocks |-> IF s = a THEN 0 ELSE left[s]]
  /\ machine' = [pr \in Printers |-> [machine[pr] EXCEPT !.nozzles = @ \ {a}]]
  /\ UNCHANGED <<orders, lock, now, req, clock, charged, lots, desk>>

----------------------------------------------------------------------------
(* What the office is shown.                                               *)

\* listSpoolInventory and listResinTankInventory: the parents of splits excluded.
Inventory(S) == {s \in There(S) : ~asset[s].split}

\* getAssetsOverview, on hand and promised per material.
OnHand(S, material) ==
  LET listed == {s \in Inventory(S) : asset[s].material = material} IN
  <<MapThenSumSet(LAMBDA s : left[s], listed), MapThenSumSet(LAMBDA s : reserved[s], listed)>>

\* listMaterialPricing and listResinPricing: price paid and amount bought, of
\* the containers that were bought and not split off.
Pricing(S, material) ==
  LET priced == {s \in There(S) : /\ asset[s].material = material
                                  /\ asset[s].parent = None
                                  /\ asset[s].price > 0 /\ asset[s].initial > 0} IN
  <<MapThenSumSet(LAMBDA s : asset[s].price, priced),
    MapThenSumSet(LAMBDA s : asset[s].initial, priced)>>

----------------------------------------------------------------------------
(* The shop floor, on the machines and with the stock there is.            *)

\* A printer offline or gone is not marked as printing; the print starts all
\* the same (markPrinterPrintingTx).
Marked(pr, p) == IF machine[pr].there /\ ~machine[pr].off /\ ~machine[pr].maint
                 THEN p ELSE lock[pr]

ShopStartTx(w) ==
  LET r == req[w]
      rows == [piece EXCEPT ![r.p].status = "printing"] IN
  /\ At(w, "start", "tx")
  /\ Write(w, rows, "sync")
  /\ lock' = IF Legal(rows) THEN [lock EXCEPT ![r.printer] = Marked(r.printer, r.p)] ELSE lock
  /\ UNCHANGED <<orders, left, now, clock, charged>>

ShopAdvance ==
  LET due == {p \in Pieces : piece[p].status = "scheduled" /\ Windowed(piece[p]) /\ piece[p].from <= now} IN
  /\ clock.pc = "idle" /\ Serial => Quiet
  /\ Put([p \in Pieces |-> IF p \in due THEN [piece[p] EXCEPT !.status = "printing"] ELSE piece[p]])
  /\ lock' \in {l \in [Printers -> Pieces \cup {None}] :
                  \A pr \in Printers :
                    LET starting == {p \in due : piece[p].printer = pr} IN
                    IF starting = {} THEN l[pr] = lock[pr]
                                     ELSE l[pr] \in {Marked(pr, p) : p \in starting}}
  /\ clock' = [clock EXCEPT !.pc = "select"]
  /\ UNCHANGED <<orders, left, now, req, charged>>

\* The requests that bring machines, stock and work together.
ShopCall(w) ==
  \E p \in Pieces :
    \/ \E pr \in There(Printers), tank \in Inventory(Tanks) \cup {None} : Assign(w, p, pr, tank, TRUE)
    \/ \E s \in Inventory(Spools) : Reserve(w, p, s)
    \/ \E t \in 0..MaxTime : t + Minutes[p] <= MaxTime /\ Schedule(w, p, t)
    \/ Start(w, p)
    \/ Complete(w, p, "done")

\* A request that was given a spool or a tank deleted meanwhile ends in an error.
ShopProceed(w) ==
  IF req[w].stock # None /\ req[w].stock \notin There(Stocks)
  THEN req[w].pc # "idle" /\ Goto(w, "idle") /\ UNCHANGED <<world, now, clock, charged>>
  ELSE \/ AssignWrite(w) \/ AssignReload(w) \/ AssignStatus(w)
       \/ ReserveTx(w)
       \/ ScheduleCheck(w) \/ ScheduleWrite(w)
       \/ StartCheck(w) \/ ShopStartTx(w)
       \/ CompleteWrite(w) \/ CompleteTx(w)
       \/ SyncRead(w) \/ SyncWrite(w)

ShopNext ==
  /\ \/ \E w \in Workers : (Free("shop") /\ ShopCall(w)) \/ ShopProceed(w)
     \/ ShopAdvance \/ ClockSelect \/ CompleteOne
     \/ TimePasses
  /\ UNCHANGED <<office, desk>>

CreateNext ==
  \/ \E d \in Desks :
       \/ \E n \in 1..2, m \in Models : OpenCreate(d, n, m)
       \/ \E answer \in Answers : CreateUnit(d, answer)
       \/ CreateCommit(d)

PrinterNext ==
  \/ \E pr \in Printers, off, maint \in BOOLEAN \cup {None} : UpdatePrinterStock(pr, off, maint)
  \/ \E d \in Desks : DeleteTx(d) \/ \E pr \in Printers : DeleteCheck(d, pr)

NozzleNext ==
  \/ \E pr \in Printers :
       \/ \E m \in Models : UpdatePrinter(pr, m)
       \/ \E nozzle \in Nozzles : Unfit(pr, nozzle)
       \/ \E d \in Desks, add, remove \in SUBSET Nozzles, wide \in BOOLEAN : Fit(d, pr, add, remove, wide)
  \/ \E d \in Desks : FitTx(d)

LotNext ==
  \/ \E d \in Desks :
       \/ \E ids \in SUBSET Spools, name \in Names \cup {None}, m \in Materials, size \in Sizes, price \in Prices :
            IntakeLook(d, ids, name, m, size, price)
       \/ IntakeTx(d)
  \/ \E l \in lots, name \in Names : RenameAssetBatch(l, name)

SplitNext ==
  \E d \in Desks :
    \/ \E s \in There(Stocks), a, b \in Absent(Stocks) : \E x, y \in 1..(left[s] + Slack) :
         a # b /\ SplitRead(d, s, [c \in {a, b} |-> IF c = a THEN x ELSE y])
    \/ SplitTx(d) \/ SplitFails(d)

DeleteNext == \E a \in Assets : DeleteAsset(a)

CorrectNext ==
  \/ \E a \in Assets, size \in Sizes, price \in Prices : UpdateAsset(a, size, price)
  \/ \E s \in Stocks, used \in BOOLEAN : \E g \in Sizes \cup {0, left[s]} : UpdateAssetStock(s, g, used)
  \/ \E ids \in SUBSET Tanks, m \in Materials, size \in Sizes, price \in Prices :
       CreateResinTank(ids, m, size, price)
  \/ \E ids \in SUBSET Nozzles, price \in Prices : CreateNozzle(ids, price)

\* The pieces that requests under way assign or book.
Pursued == {req[w].p : w \in {v \in Workers : req[v].op \in {"assign", "schedule"}}}

\* A request that looked at a printer before it was removed writes it into its
\* piece all the same; a piece is astray until it has another printer or none.
Straying ==
  strays' = {p \in strays \cup Pursued :
               piece'[p].printer # None /\ ~machine'[piece'[p].printer].there}

FleetNext ==
  /\ \/ ShopNext \/ CreateNext \/ PrinterNext \/ NozzleNext \/ LotNext
     \/ SplitNext \/ DeleteNext \/ CorrectNext
  /\ Straying

FleetSpec == FleetInit /\ [][FleetNext]_fleetVars

----------------------------------------------------------------------------
(* Properties.                                                             *)

\* However many additions run at once, of however many printers, and whatever
\* else happens meanwhile: when the last printer of an addition was counted
\* against a cap, the company has no more printers than that when it commits.
AdditionsKeepToTheCap ==
  [][\A d \in Desks : CreateCommit(d) =>
       \A cap \in desk[d].under : Cardinality(There(Printers)') <= cap]_fleetVars

\* No work waits for a printer that was removed: whatever was assigned, loaded
\* or booked on it, between the check and the removal too, is back in the pool.
\* All that can go astray is what a request was assigning or booking right then.
WaitingWorkHasAMachine ==
  \A p \in Pieces \ strays : piece[p].status \in Waiting => machine[piece[p].printer].there

\* An intake that found no lot under its name will not be turned away by the
\* unique index: two deliveries of the same name end up in one lot.
IntakesAreNeverTurnedAway ==
  \A d \in Desks : (desk[d].op = "intake" /\ desk[d].on # None /\ desk[d].n = 0)
                     => LotOf(desk[d].on, desk[d].of) = {}

\* What desk d read of the container it splits still holds.
StillAsRead(d) ==
  LET s == desk[d].on IN ~asset[s].split /\ left[s] = desk[d].n /\ reserved[s] = 0

\* A split moves material and no more, also beside the floor, deliveries,
\* corrections and deletions: unless its parent itself was changed meanwhile,
\* what there is of spools and of tanks, and what is on hand of each material,
\* changes by no more than the rounding; what is promised of it and what a gram
\* costs on average do not change at all.
SplitsOnlyMoveMaterial ==
  [][\A d \in Desks : SplitTx(d) /\ StillAsRead(d) =>
       /\ \A S \in {Spools, Tanks} :
            Near(MapThenSumSet(LAMBDA s : left'[s], S), MapThenSumSet(LAMBDA s : left[s], S))
       /\ \A S \in {Spools, Tanks}, m \in Materials :
            /\ Near(OnHand(S, m)[1]', OnHand(S, m)[1])
            /\ OnHand(S, m)[2]' = OnHand(S, m)[2]
            /\ Pricing(S, m)' = Pricing(S, m)]_fleetVars

=============================================================================
