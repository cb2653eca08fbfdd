# Verification of printexec-server

`printexec-server` is a NestJS/TypeScript API over PostgreSQL that runs the
shop floor of a 3D-printing business: orders are broken into *pieces*, pieces
are matched with printers, nozzles, spools or resin tanks, put on a calendar,
printed alone or together on a *plate* (a bed), settled, costed and shipped.
This directory holds TLA+ modules translated from `src/`, TLC configurations
that check them on small instances, and TLAPS proofs of the invariants that
matter most.

Every request handler is JavaScript running in one process: between two
`await`s nothing else runs, and every `await` on the database lets any other
request, the once-a-minute clock or another process go first. `withTransaction`
groups statements; a handler that does not use it autocommits each statement.
The isolation level is PostgreSQL's default, READ COMMITTED. These rules
decide what is one TLA+ action: **one autocommitted statement, one whole
transaction, or one uninterrupted group of read-only conflict queries, together
with the JavaScript that precedes it since the previous await**. A module whose
properties can tell the difference goes further: `Fulfilment` takes a
transaction apart into its statements, with row locks and what READ COMMITTED
lets each statement see, since the order of two concurrent counts is what its
properties are about.

## 1. Inventory

| Component | State it keeps | Operations | How it interacts |
|---|---|---|---|
| runs (`src/src/runs`) | `batch_runs` row; counters in memory | start, setTotal, advance, cancelled, cancel, sweepStale | wraps the packer of simple-jobs; polled by the client |
| jobs: pieces (`jobs.service.ts`) | `order_pieces` row, `order_piece_spools` | reserve/release spool, assign, unassign, schedule, unschedule, start, complete, reprint, restore, cancel, nozzle moves | writes printers, spools, tanks and orders through `cascade.ts` |
| jobs: clock (`time-state.service.ts`) | none of its own (reads `now()`) | once a minute: scheduled to printing, printing to done at the end of the window | races with every operator request |
| common: cascades (`cascade.ts`) | none | recompute an order's status from its pieces, take and give back a printer, return reservations, re-evaluate a plate, revert the work of an offline printer | called inside and outside transactions by every other component |
| beds (`beds.service.ts`, `outcome.ts`) | `print_beds` row and its child pieces | create, assign, schedule, start, complete, recordOutcome, dismantle, delete | moves its pieces with it; settles spool grams per child |
| nozzle pool (`nozzle-pool.ts`, `spool-choice.ts`) | none | when the interchangeable nozzles of a printer are busy; which nozzle or spool a job takes | called by schedule and by the packer |
| packer (`simple-jobs`, `packing.ts`) | timelines of printer, nozzle and material, in memory | auto-schedule: order by slack, place, commit through the guarded `schedule()`; dry run | executed as a batch run above a size threshold |
| printers, assets | printers, spools, tanks, nozzles, lots | add under the cap, offline, maintenance, re-specify, remove; intake, split, correct, delete | reverts scheduled and running work; stock the floor consumes |
| orders, order-pieces, customers, attachments, numbering | `orders`, `order_pieces`, `customers`, counters | create, edit, confirm, duplicate, cancel, return, delete, ship, cure | status partly manual, partly derived; hands file keys to the store |
| storage, maintenance | objects in a bucket, keys in rows | upload, remove what nothing refers to, sweep the files of fulfilled orders | rows and bytes change in separate calls |
| finance | chart of accounts, journal, documents, payments | issue, pay, void, bill, buy, waste, lock the books | fed by orders, stock and failed prints |
| licensing, staff, auth | subscriptions, grants, discounts, invoices, notices; people and invites | trial, redeem, assign, hold, bill, notify, purge; sign up, invite, join, remove | the guard of every request reads a cached status |
| email, analytics, tokens, health | external services | delegate | I/O only |

What makes each correct, and what is hard about it:

* **runs** - the row must tell the truth about work that is committed item by
  item and never unwound. Hard: answers lost after commit, the throttle's
  unwritten counts, a cancel that races the end, a crash at any point.
* **pieces and clock** - two jobs never share a printer, a spool or a tank at
  the same moment; a finished print is charged exactly once; a printer's lock
  belongs to the piece that is printing. Hard: handlers read and check, then
  await, then write without re-checking; the clock moves the same rows.
* **order rollup** - an order's status is a function of its pieces, so whoever
  writes a piece last must also leave the order right. Hard: the recompute is
  two reads and a write, sometimes outside the transaction that moved the piece.
* **plates** - parts follow their plate, and what it consumed is drawn once.
  Hard: completion by the clock and by the operator, verdicts per child,
  constraints that apply again when a piece leaves.
* **packer** - never double-books a machine, nozzle, spool or tank, and what it
  commits is what its preview promised. Hard: minutes of work from one reading.
* **fleet** - the licence cap holds, no work waits for a removed machine,
  material is neither made nor lost by a split. Hard: counts and look-ups
  before inserts, concurrent with each other and with the shop floor.
* **order book and files** - a number is used once, counts of orders are right,
  a row's file exists, nothing unreferenced stays. Hard: several rows share a
  key, and a bucket cannot be rolled back.
* **finance** - control accounts, documents and reports agree; locked days do
  not change. Hard: partial payments, reversals, and multi-transaction requests.
* **tenancy** - a code is used by one company or person, a decision of an admin
  reaches the guard in spite of the cache, notices come in order.

## 2. Modules and composition

| Modules | What they model | Section |
|---|---|---|
| `BatchRuns`, implements `RunContract`; `SchedulingProofs` | batch runs | 3 |
| `OrderRollup`, `Fulfilment`; `FulfilmentProofs` | derived order status; shipping and post-processing | 4 |
| `PieceLifecycle`; `PieceLifecycleProofs` | standalone pieces, printers, stock, orders, clock | 5 |
| `PlateLifecycle`, with `PlateHistory`; `PlateLifecycleProofs` | plates with their pieces, and the clock; what they promise one another | 6 |
| `Fleet`, extends `PieceLifecycle`; `FleetProofs` | printers, nozzles and stock managed while the floor works | 7 |
| `Packing`, `Packer`; `SchedulingProofs` | the scheduling kernel; packs among operators | 8 |
| `Bucket`, `OrderDesk`, with `OrderRollup`; `OrderDeskProofs` | files; orders, customers, numbers, pieces at the desk | 9 |
| `Ledger`, `Books`; `BooksProofs` | the double-entry engine; documents over it | 10 |
| `Licences`, `Members`; `TenancyProofs` | subscriptions and platform billing; people and invites | 11 |

`OrderRollup` is instantiated by every module that moves a piece; `Fleet` runs
every action of `PieceLifecycle` beside its own; `Members` every action of
`Licences`; `OrderDesk` uses `Bucket` as the store behind its rows; `Packer`
calls the kernel `Packing`. The abstract specification is `RunContract`, what
the polling client may rely on, which `BatchRuns` is shown to implement.

The `MC` module of a large component runs it in *scenes*: an initial choice of
which groups of actions act, and of bounds that belong to that choice. Every
action fires in some scene; a scene holds together the actions that touch the
same state, and leaves out the product of those that do not meet.

Every safety property that could be stated for all instances has a theorem in
the `...Proofs` module of its component; batch runs and the packs they run share
one, `SchedulingProofs`. Left to TLC: liveness; the preview of the packer
(section 8); `NoticesComeInOrder`, for the reason given in section 11.

A theorem that needs more than the types of the constants says so: its `ASSUME`
names the requests that run beside no other (`TakingTurns`, `OneAtATime`,
`Alone`). Each of these hypotheses is what the run of the component assumes too,
and the notes of the section tell what the code does without it; section 12
lists the hazards that stay without a property on that account.

## 3. Batch runs (`BatchRuns`, `RunContract`)

**Correspondence.** `row[r]` is the `batch_runs` row, `mem[r]` the detached
executor of `RunsService.start` with the counters of its progress throttle,
`work[r]` what the fleet auto-schedule has committed and the two lists of its
plan, `up` the process. Each
action is one statement of the executor (`SetTotal`, `AdvanceAndFlush`,
`FlushNow`, `CheckCancel`, `FinishRun`, `FinishQuietly`), one candidate of the
packing loop (`Attempt`, `SkipStopped`), one call of the client (`Start`,
`RequestCancel`) or an event of the process (`Crash`, `BootAndSweep`,
`BootWithoutSweep`, `HeartbeatAges`). Every statement goes through `Issue`: it
is rejected, applied, or applied with its answer lost. An attempt has three
outcomes as well: placed; refused and listed as skipped; or committed and listed
as skipped, because a statement after the UPDATE of `schedule` (propagating to
the pieces of a plate, reloading it) failed or its answer was lost
(`beds.service.ts:1461-1474`, `simple-jobs.service.ts:2831`). `RunContract` is
what the polling client may rely on, with neither executor nor process.

**Runs.** `batch` (one run, up to 5 candidates, a flush every 3 items): final
counts that add up and misplace nothing but attempts counted as failed, a cancel noticed within one window, the contract of `RunContract`
and termination. Runs of different ids touch disjoint rows and memory and meet
only in the crash and the boot, so one is enough to find a violation; the
proofs cover any number. Five candidates with a window of three give a full
window, a partial one and a cancel in either. 89,336 states.

**Fairness.** `WF(Execute(r))`: the event loop resumes an awaiting executor.
`WF(HeartbeatAges(r))`: time passes. Nothing is assumed of clients, crashes or
boots.

**Proofs** (any set of runs, any window, any pack size).
`IInv` is the type, `ProcessInv` (no executor outlives the process) and, for
every run, four named parts. The safety properties are not inductive: that a
finished row adds up needs *row <= memory <= plan, equal from the final flush
on*, and *placed <= committed <= attempted* (`CountInv`), which needs that an executor at work stands behind a running
row (`LifeInv`); that a done run was not cut short needs the flag never to be
lowered (`StopInv`); the cancel window needs the count since the last write
bounded by the window (`WindowInv`). Lemmas say what one statement may do to
row and memory in its three outcomes (`IssueCases`), `RunStep` and
`ProcessStep` carry the parts across every action. Assumption: `RunAssumption`
(a window of at least one item, as the constant 25 is). Proved of every
instance and not run: the row never overstates what was committed
(`RowNeverOverstates`), a run recorded done was not cut short
(`DoneWasNotCutShort`), nothing stops unasked (`StopsOnlyIfAsked`).
The refinement is proved too: by `ImplementsContract`, with `IInv` at hand,
every step of an executor, the client or the process is a step of
`RunContract` or leaves what the client sees alone. Only model-checked:
`LiveRunEnds`.

**Noted, not runs.** The sweep of stale rows runs at boot only and spares rows
with a heartbeat younger than two minutes (`runs.service.ts:181`), although
`runs.module.ts:16-18` says that any run still marked running at boot is swept:
a run orphaned by a quick restart stays running until a later boot. A failed
run's counts omit what the throttle still held in memory, although
`runs.service.ts:29` says they tell what stayed committed; and `requestCancel`
and the final write race, so a run can be recorded done with its stop flag up;
the code's own order (flag read before the last write) makes that harmless, and
`DoneWasNotCutShort` is what it does keep.

## 4. Order status and fulfilment (`OrderRollup`, `Fulfilment`)

**Correspondence.** `OrderRollup` translates `recomputeOrderStatusTx` as pure
operators on the pieces of one order. `Fulfilment` follows one order after
printing: `Ship` and `PostProcess` are the two transition handlers of
`order-pieces.service.ts`, `Finish` starts a `jobs.complete` or the clock's
completion, and `Update`, `UpdateAndCommit`, `Count`, `Commit`, `Fail` are the
statements they go through. A transaction sees its own update and what others
have committed; `Unlocked` is the row lock.

**Runs.** `fulfil` (three pieces, two of them resin, the third scheduled so the
clock may end it, one request at a time, any statement failing): no uncured
part enters shipping, and an order stands at its slowest piece whenever nothing
is under way, also while pieces still print. A status sync that fails is
swallowed by the code; the next move that is recorded makes it good, and until
then the order is not compared. Three pieces give a slowest, a middle and a
fastest one; two resin and one filament give both gates. 6,650 states, to a depth of 45.

`fulfil_clock`: the clock completes a resin print without the `print_done`
stamp `jobs.complete` sets, and the shipping gate lets the uncured part
through, which is the finding. Noted, not a run: two concurrent shipping
transactions each count before the other commits, and the later write leaves
the order behind its pieces until the next move; `SettledOrderMirrorsPieces` is
therefore checked of requests one after another.

No fairness is stated: nothing here is obliged to happen.

**Proofs** (any pieces of an order, any of them resin, any statement failing).
`FulfilmentInv` has three parts. `PiecesOK`: only what is done is shipped, only
resin is cured, and it is cured before it is shipped (`Sound`). `RequestsOK`:
what the request under way decided on when it read is still so when it writes,
and one that is about to commit carries the target it counted. `OrderOK`: the
order stands at the target of its pieces unless a status sync was lost, or a
completion is between the piece and the order. `CuredBeforeShipped` and
`OrdersMirrorTheirPieces` follow. Hypotheses: `OneAtATime`, because a concurrent
request may take back the state another has read (the note above);
`ClockSparesResin`, because without it the finding above refutes the first
theorem; and, for the mirror, that the order has pieces.

## 5. The life of a piece (`PieceLifecycle`)

**Correspondence.** `piece[p]` is the `order_pieces` row with the one spool
(`order_piece_spools`) or tank it uses; `left` and `reserved` are the columns
of `asset_stock`; `lock` is `printer_stock.in_use` with the piece it names;
`req[w]` is a handler between two awaits, carrying the snapshot it loaded;
`clock` the sweep of `time-state.service.ts` and its list of due pieces. A
handler is a chain of actions: its entry (`Schedule`, `Start`, ...) loads and
checks, the following ones write without looking again, as the code does. Every
write passes through `Put` and `Legal`: the triggers that recompute what is
reserved of a stock, the CHECK constraints and the exclusion constraint, whose
violation ends the request. `charged` is a history variable no action reads.

Two facts about the database are modelled from their uses, since the base
schema is not in the repository: the exclusion constraint
`ex_order_piece_printer_schedule` (named in a migration), and the trigger on
the spool reservations. Whether that constraint sees a NULL window is left
open by `NullWindowBlocks`: the proofs cover both values, the runs use FALSE
(a NULL range overlaps nothing, as PostgreSQL ranges do).

**Runs.**

| run | instance | what it shows |
|---|---|---|
| `piece` | 2 pieces of one order, 2 printers, 1 spool, one request at a time, ticks that die half-way, time 0..2 | bookings, printer locks, charges, reservations and the order's status are right between requests |
| `piece_race` | 1 resin piece, 1 printer, 1 tank, a request racing the clock at every await, failing anywhere, fair | a cancelled order is revived by no rollup; a booked window ends |

Two pieces are what every safety property quantifies over; two printers and one
spool make them collide on the one but not on the other; windows of length one
in a time of two leave room for two disjoint or two overlapping bookings, and
for a completion with its spool charged and another booking behind it. Printers
are interchangeable in every definition, which justifies the symmetry set; no
run with a temporal property under fairness uses it. The serial run
asks what the code guarantees when requests do not overlap, because between
overlapping requests it guarantees less: see the notes below. 4,465,820 states; the race
run 103,827.

**Fairness.** `WF(Proceed(w))`: a handler that awaits is resumed.
`WF(Tick)`: the timer fires every minute and its sweep goes on. `WF(TimePasses)`.
Nothing is assumed of operators, and `RequestFails` may intervene anywhere.

**Proofs** (any pieces, orders, printers and stocks, any number
of requests racing the clock and failing anywhere). `NoDoubleBooking` needs
more than itself: a write is stopped by the exclusion constraint only if the
row it writes is a row (`RowsOK`, which carries the CHECK constraints), and
what a half-done request may still write is bounded by what its entry checked
(`RequestsOK`, through `Sound`). `BookingInv` is their conjunction with the
shape of the clock's list and of the orders. One lemma per writing operator says
the new row is a row; one step per action then carries the tables, the requests
and the orders. `CancelledStaysCancelled` follows step by step from the
definition of each rollup. Assumption: `PieceAssumption`, types of the
constants only.

Locks, charges and completed orders are right only between requests, so their
proofs assume that requests and ticks take turns and that a request ends what
it began (`TakingTurns`; a tick may still die between any two statements).
`SerialInv` adds to `BookingInv`: who is at work (`Turns`); that what the sweep
has listed is still printing on the printer it was listed with (`DueOK`); that what the request
under way was let in on still holds at each of its writes (`Grounded`); and the
three properties with the exceptions a half-done request makes to them, until
its settlement and its rollup are through (`LockFine`, `ChargedFine`,
`OrdersFine`). At rest nothing is owed and the exceptions are empty
(`QuietIsFine`), which gives `LocksAreHeld`, `EndedPrintsAreCharged` and
`CompletedOrdersAreProduced`. `EndedPrintsAreCharged` also assumes `Resin = {}`,
as the sweep draws no resin (see the notes).

`NothingStaysReserved` compares a stored number with a sum over the pieces. The
library can fold a set but states nothing of a sum, so a section of its own
(`Sum...`) proves, by well-founded induction over the subsets of a finite set,
that a sum may be taken apart anywhere; it assumes that there are finitely many
pieces and stocks (`RowsAreFinite`). The invariant is the property with the type
of `reserved` (`ReservedOK`), and it needs no other: what a trigger recomputes is
what is booked (`RetoldKeeps`), and the clock only takes off more.

**Only model-checked.** Liveness.

**Noted while modelling, not runs.**
* Reopening a cancelled order puts its pieces back to `scheduled` in their old
  windows with no conflict query (`orders.service.ts:467-487`), so a spool may
  feed two prints at once, which `jobs.service.ts:2378` and `:2522` exclude; the
  printer is still protected by the exclusion constraint.
* The clock subtracts what a finished print had reserved (`time-state.service.ts:170`)
  after the trigger has recomputed the reservation without it, although
  `jobs.service.ts:4326-4327` calls the trigger the sole writer: what other
  pieces reserved is promised away. `NothingReservedForNobody` is the direction
  that holds: nothing stays reserved that no piece reserves.
* Two serialised assumptions are load-bearing: with overlapping requests a
  printer can stay in use after an unschedule that races the tick, and two
  settlements of one print can both draw from the spool.
* A request that dies between the completion's UPDATE and its settling
  transaction leaves the printer in use and the spool uncharged.
* The clock draws no resin, an operator's completion does.
* `cascade.ts:72` says that an order whose active pieces are all ready becomes
  confirmed; the code leaves it draft (`OrderRollup!Target` follows the code).
* The clock records as done a print the operator failed after the clock had
  listed it: its UPDATE names the piece only, not the status it was listed in.
* An undo from cured to washed can pass the shipping gate's earlier read.

## 6. The life of a plate (`PlateLifecycle`)

**Correspondence.** `plate[b]` is the `print_beds` row: status, machine, window,
tank, `spec` (print time and quantity are known) and `ran` (it carries a start
or an end of print, which decides whether an emptied plate leaves a record).
`piece[p]` is the `order_pieces` row with its plate, its reservation or tank and
the stamps its constraints ask for; `left` is `asset_stock`, `inUse` the machine
lock, `req[w]` a handler of `beds.service.ts` between two awaits, `clock` the
plate half of the sweep. The handlers are chains: `Complete`, `CompleteWrite`,
`CompleteLedger`, `CompleteDraw` (or `CompletePour`), `CompleteFree`,
`Propagate`, `CompletePost` are the statements of `complete` in their order;
`TriageTx`, `DisassembleTx`, `DeletePlateTx` and `RemoveTx` are single
transactions. While a piece is on a plate the constraints of the migrations
accept any status; `Legal` applies them to the row that leaves, and a
transaction they refuse leaves everything as it was. How a triage splits what
was consumed over its parts is left open between the bounds `settlePlate`
guarantees (`Consumption`); the split itself is not modelled.
`drawn` is a history variable no action reads.

`PlateHistory` adds three variables that no action reads. Nothing in the code
makes the requests on a plate take turns, or finishes what a dead one began, so
what plates promise holds but for those to which that happened; the memory says
which they are. A plate is in `unasked` when the request that booked it was
overtaken by another booking, or by an `assign` of the same plate, between its
conflict queries and its UPDATE; `stale` are the requests to which that has
happened but which have not written yet. It is `astray` when two requests, or a
request and the sweep, worked on it at a time, or one died between its
statement about the plate and the one about its pieces, until a request that
ends by telling the pieces has the plate to itself (`Mends`).

**Runs.**

| run | instance | what it shows |
|---|---|---|
| `plate` | filament, 2 pieces, 1 printer, 1 spool that is enough for one plate, time 0..2, requests and sweeps that interleave at every await and die at any; scenes `shop`, `pair`, `board`, `rivals` | two plates are booked on one machine at a time only where a booking overtook another; the pieces of a plate that is not `astray` say what it says; any such plate that is not printing can be taken apart |
| `plate_race` | resin, 1 plate of 2 pieces, one operator who triages, another who plans, completes, cancels, deletes or triages too, the clock, anything failing half-way, fair | a triage draws once for a run; a booked window ends, even that of a plate emptied meanwhile |

A scene says who asks for what. `shop`: one operator with every route, beside
the clock, on a plate of both pieces: everything that can happen to it, and
every statement at which it can stop. `pair`: a second operator completes,
cancels and triages the plate which the first plans, books and takes apart.
`board`: a plate for each piece, booked one after the other on the machine,
started and settled by the clock. `rivals`: both operators book. Two plates are
what the booking property relates and two operators what can break it; two
pieces are the fewest with a survivor when one is removed; a single printer and
a single spool make plates collide on both, and a spool too small for two makes
the second reservation fail or the stock reach its floor. Time 0..2 with
windows of length one has disjoint bookings on the machine and a print that is
over while another is booked. Plates are interchangeable, hence the symmetry
set, in the one run without fairness. The race run needs one window only: its
properties are about a single plate. Files, tanks and a completion that pours
are fired by the race run, all other actions by the scenes. `plate` has 1,030,043 states,
`plate_race` 161,574.

**Fairness.** As in section 5, with one strong part: a sweep may fail again and
again (`TickFails`), but not always at the same statement, so `ClockSelect` and
`SettleOne`, enabled again with every minute's sweep, are taken in the end. Without
it a database that refuses the same statement for ever would be a
counterexample no clock could avoid.

**Proofs** (any plates, pieces, machines and stocks, filament or resin; any
number of requests beside one another and the clock, failing anywhere). All
five theorems rest on `ShopInv`: the type of the rows, that a request aims at
what its handler may aim at (`Sound`), that no two are minting one id.

`PlatesKeepApart` needs to know what a booking still knows when it writes
(`BoardInv`): one that nobody overtook goes to the machine it asked about
(`Asked`), and what its queries told is still so (`Answered`). A step either
only takes bookings off or starts and ends them (`KeepsBoard`), or is the write
of a booking, which makes every other booking under way stale.

`PartsFollow` and `PlatesComeApart` have one invariant, `HistInv`. A piece on a
plate is on one that exists (`Placed`), and one without a plate passes `Legal`;
a plate that two work on is `astray` (`Shared`). For the others it says that
what the request on the plate found is still so at its writes (`Stands`), that
what the sweep has listed is still printing and has a machine (`Listed`,
`SweepStands`), and that the pieces say what the plate says unless that request
or the sweep is on the way to tell them (`InStep`). A request leaves all plates
but its own alone (`Aside`), and of its own it tells the pieces or is about to
(`Does`); if it dies before, the plate is `astray`.

`TriageDrawsOnce` adds to `ShopInv` that a plate charged once holds no piece,
so that no triage of it can begin; that a triage under way names every piece
still on its plate, so that the first one to settle it leaves it empty; and
that while another is under way the plate is settled and nobody is about to
book it, so that step 0 of `recordOutcome` turns that one away (`ChargedOnce`).
Every action is shown to be of one of five kinds (`Works`, `Begins`,
`ClockWorks`, `Creates`, `Draws`), and each kind to keep it. `TriagesDrawOnce`
has as its hypothesis that no third request books a plate while two triage it
(`TriagesAreLeftAlone`); `TwoTriagesDrawOnce` has none, but for at most two
requests at a time beside the clock, as in the run. The hypothesis is needed:
with three, a stale `assign` can bring the plate back between the two triages,
it is booked again, and the second triage draws for a run that was not its own
(fourth note). TLC finds that trace with three operators.

**Only model-checked.** `WindowsEnd`, a liveness property.

**Noted while modelling, not runs.**
* Removing one piece of a printing plate is always refused: the statement that
  detaches it (`cascade.ts:362`) is under `chk_scheduled_requires_core_data`
  again, although `cascade.ts:306-307` and `bed-lifecycle.integration.test.ts:313`
  expect the plate to be re-evaluated.
* Cancelling a printing plate does not release its machine
  (`beds.service.ts:2275`), which `beds.service.ts:1546-1548` promises.
* `schedule` asks and then writes; `print_beds` has no exclusion constraint, so
  two schedules at the same time may book one machine twice, and an `assign` in
  between books a machine nobody asked about. Without `unasked` in the property
  TLC finds it in the scene `rivals`.
* A completion checks the status before its UPDATE only: raced by a triage or
  the clock it draws the tank, or the spool read before, a second time. Two
  triages draw twice as well when a stale `assign` or `schedule`, in flight
  beside them, makes the plate current again: step 0 of the second looks at the
  status, not at whose run it is.
* A sweep that dies between a plate's settlement and `ClockTell` leaves the
  pieces printing on a finished plate, and nothing tells them again but a later
  request on that plate; a request that dies before `propagatePieceStatus`, or a
  schedule racing the sweep, leaves them behind as well. These plates are
  `astray`: the properties say that no others are out of step.
* The clock settles what it listed before without looking at the status, so it
  can turn a triage's `failed` into `done`.
* `releasePrinterTx` goes by machine: completing a plate that never started
  frees a machine that another print has locked.
* Pieces keep reservations and stamps through `disassemble`; `restore` keeps
  the plate's start of print. Reservations may be made on a scheduled plate,
  past the conflict query of `schedule`, and PATCH files can take the tank from
  one.
* A triage that fails every part leaves an empty plate that can be reprinted,
  scheduled and printed: `WindowsEnd` covers it, nothing else does.
* `complete` recomputes no order; `triage`, `delete`, a removal and the clock do.

## 7. Machines and stock (`Fleet`)

**Correspondence.** `machine[pr]` is the `printer_instances` and `printer_stock`
rows, `asset[a]` the `asset_instances` row of a spool, tank or nozzle, `lots`
the `asset_batches`, `desk[d]` an office request between what it read and what
it writes. Five requests are split there: adding printers (`OpenCreate`,
`CreateUnit`, `CreateCommit`: one unit after another under the advisory lock of
the company's cap), removing one (`DeleteCheck`, `DeleteTx`: the check for a
running print is outside its transaction), fitting nozzles, taking in spools,
splitting (`SplitRead`; then `SplitTx`, or `SplitFails` where the parent is
gone). The shop floor of section 5 works beside them, with the same rows.
`Answers` is what the licence check of each unit may resolve to, which can
change from unit to unit: a lapsed plan, a cap, no cap, and an error, which the
code lets pass like no cap; with `Enforced` false (`LICENSING_ENFORCED`, unset
by default) the verdict is only logged. `used` is the flag by which an operator
says that a container is in use. Amounts are in steps of half a gram: `Slack` =
1 is the 0.5 g by which the parts of a split may miss what is left. Assumed of
the base schema: pieces carry no foreign key to printers, a nozzle's
compatibility rows go with it. Left out: names and catalogues, spare parts.

**Run** `fleet`: a plan of two printers of which three could be added, two
desks, one floor worker.
* What an addition commits keeps to the cap its last unit was counted against,
  however many additions run at once (`AdditionsKeepToTheCap`). Nothing more is
  true: without enforcement, with a plan that has no cap, or while the licence
  cannot be resolved, any number is added.
* No assigned, loaded or booked piece waits for a machine that was removed. The
  floor works between the check of a removal and its transaction and beside
  both, so this leaves out `strays`: pieces that a request was assigning or
  booking when the printer went, which it writes back into them
  (`WaitingWorkHasAMachine`; a stray is found again when it gets another
  printer or none).
* Two deliveries under one name end up in one lot.
* A split moves material within its rounding, in grams on hand and in what a
  gram costs, beside the floor, deliveries, corrections and deletions, unless
  its parent itself is no longer as it was read (`StillAsRead`).

Containers hold two units, the least that can be split, and one container is
split in a run, by one desk or by both (`OneIsSplit`). Only `rename` runs beside
no other request (`Alone`). 537,228 states.

**Proofs** (any printers, stocks, desks, caps and slack, beside any number of
floor workers). The invariant of section 5 is carried through the actions of the
office (`FleetInvariance`), with the shape of the office's rows and requests
(`OfficeOK`), and bookings stay apart while machines come and go
(`FleetNeverDoubleBooked`). `CapHolds`: at most one addition is past the
advisory lock, and the printers there are plus those it still inserts are within
the cap of its last recount (`CapInv`). `WaitingWorkIsHoused`: the property is
inductive beside the types; a piece that no request assigns or books either
stops waiting or waits on for the printer it had, and the one action that takes
a printer away sends its pieces back first (`Follows`). `IntakesFindTheirLot`:
there is one intake at a time under a name and material, and a lot it found
missing is still missing (`IntakeInv`); it assumes that renames run alone, and
that no name given by hand has the form of those the program numbers.
`SplitsMoveNoMore`: what intakes and splits under way set aside is not on record
and is set aside by nobody else, and the parts of a split make up what was read
(`PartsInv`); the sums over the stock before and after then differ by a parent
that leaves and children that weigh the same but for the slack. It needs
`StockInvariance`, for what stock that is not there holds and has promised, and
no assumption on what runs beside it. Assumptions: `FleetAssumption`, the types;
`KindsAreDistinct`, a spool is no tank and a printer no asset; `RowsAreFinite`
of section 5.

**Noted.**
* "Two concurrent adds can't both slip under the cap"
  (`licensing.service.ts:452-454`) holds of a cap that is enforced. It binds
  nobody when the check fails open (`:463-469`), is only logged because
  `LICENSING_ENFORCED` is not set (`:494-499`), or knows no cap.
* A printer reference that cures resin may be given to a printer with nozzles
  (`printers.service.ts:505`); adding nozzles to a resin printer is refused at
  `:751-752`.
* Nothing refuses assigning, scheduling or starting on an offline printer,
  although `cascade.ts:421` says so; a half-way assign writes a removed printer
  back into its piece (`strays`).
* `splitAsset` locks nothing. Two splits of one spool both insert their
  children, which makes material; grams used or corrected between the read and
  the transaction are lost or come back, and a reservation made then is zeroed
  while its piece keeps the spool. The code promises nothing of these, and
  `StillAsRead` leaves them out. A tank a loaded piece draws from can be split.
  The consumption shown for a lot drops what was burned before a split, and a
  correction of stock may refill a split parent.
* A rename between an intake's look-up and its insert fails on the unique index.

## 8. Scheduling (`Packing`, `Packer`)

**Correspondence.** `Packing` translates the pure code of `packing.ts`,
`nozzle-pool.ts` and `spool-choice.ts`: the earliest fit over several timelines
with turnaround and opening hours, the choice of a nozzle under each policy,
the order by slack or by fewest setups, the spool preference, the busy time of
a pool. `Packer` is `autoSchedule` around it: `StartPack`, `ReadPieces`,
`ReadPlates`, `ReadMaterials`, `LoadCandidates` read the board; `Consider`,
`PlanMaterial`, `ReserveMaterial`, `PlaceDry`, `SwitchNozzle`, `CheckCommit`,
`Commit` handle one candidate, each a call of its own; `Report` and `ReturnPack`
end it, `Stop` and `LosePack` cut it short. `Hand...` are the requests of
operators on the same board, `ShopRuns` what starts and ends there. A commit is a
step of checks and a step of writing; `unchecked` remembers the jobs written
after the board moved under their checks, `calm` the packs nobody disturbed
since their dry run. A conflict on printers between pieces, or a printer or
nozzle that is gone, is refused by the database (`Refused`, from its uses). After
the UPDATE of a commit other statements follow; when one fails the job is on the
board and reported as skipped, the third disjunct of `Commit`. A job says which
spools fit its material (`fits`), of one wanted colour or one colour per slot
where it asks for them (`slots`): the dry run plans by slot (`PlannedSpools`),
the commit takes what fits whatever its colour, and nothing for a multicolour
piece (`AutoTake`).

**Run** `packing`: 301 shops (`MCFloors`): quiet ones with one block on the
board, a plate and two pieces to place under every policy, shift and
turnaround, including a shift that wraps midnight in a day of four ticks; resin
ones; ones with a piece that wants a colour or several (`Painted`), its spool
chosen before or not; and busy ones where an operator books, moves, clears or re-equips, a
second pack runs, or a background pack is stopped or dies. Two jobs share a
printer, nozzle, spool or tank at one time only if one of them was written
after the board had moved under its own commit's checks, and two pieces never
share a printer; a chosen start keeps clear of all the plan knows and is the
earliest that does, over every nozzle it may take; a commit after a quiet dry
run does what was promised where plan and commit go by the same rules
(`PreviewKeepsItsWord`: at most one job whose spools the pack has to choose, that
job without a colour, no resin plate); the pool is busy exactly when all its
nozzles are. 877,983 states.

**Proofs** (`SchedulingProofs`, any jobs, machines, packs and operators).
`StalePlansDoNotDoubleBook` is `StalePlansNeverDoubleBook` of `PackerSpec`, for
every shop whose board nobody has double-booked yet (`PackerAssumption`). Its
invariant `BoardInv` adds that a request still `fresh` has a window that is free
now (`FreshChecksHold`), and that a pack writes only while it switches or commits
(`PacksWriteInTurn`). The proof sorts every step into one of the few things it
may do to the board (`Kinds`): it only asks, or it books, swaps, takes spools,
takes jobs off, starts or ends one, and makes every other request's checks stale.
`EarliestFitIsTheEarliest` is about the kernel, for any timelines, length of
print, turnaround and opening hours, wrapping midnight or not: the instant it
finds lies in hours and keeps the turnaround from every interval, and no earlier
one does. Its two recursions are tail recursions over the cursors and the start;
`TailRecursion` gives them their values, and every pass either only moves to the
next opening or reads an interval (`Reopening`), so that a least counterexample
by what is left to read has none behind it.
`PlacesAtTheEarliest` is `PlacedAtTheEarliest` of `PackerSpec`. `PlanInv` adds
types to `BoardInv`, and `PackOK` for every pack under way: its timelines are in
order and hold whatever it has placed on what the placement uses
(`KeepsTimelines`), and where its next job has a start, that start is the earliest
(`WellPlaced`). The lists are timelines because any finite set can be listed in
any strict order (`InOrderListsAll`) and pushing keeps order and loses nothing
(`PushingKeepsOrder`); to clear them is to clear every block the plan knows,
its own included (`ClearIsSuited`); of finitely many nozzles one ranks first
(`LeastOfKeys`), under the earliest policy the one with the least start. Nobody
else writes a pack's memory, so the rest of `PackerNext` keeps this.
`PackerAssumption` types what a shop's tables hold, asks that ids are numbers
other than `None`, and that jobs, nozzles and materials are finitely many.
`PoolsAreBusyWhenAllAre` is `PoolIsBusyWhenAllAre` of `PackerSpec`, from the types
in `PlanInv`. Merging and the fold over the members are recursions along a list
(`PrefixRecursion`), the intersection a tail recursion over two cursors. Merged
lists are `Apart`, no interval reaching a later one (`MergedIs`); so the interval
that ends first meets nothing behind the other cursor and may be passed, and what
was found lies before what is to come (`InTurn`, `Furthering`, `IntersectionIs`).
Only model-checked: `PreviewKeepsItsWord`, which compares two packs step by step.

**Noted.**
* The guarded schedule accepts a job that is already `scheduled`: a pack moves a
  job somebody booked after the pack's reading, although simple-jobs expects
  the guard to reject a stale status. A wrong status is a conflict, so it is retried.
* "The preview and the commit agree unless the board changed in between"
  (`simple-jobs.service.ts:2179-2186`) is not so. For a piece that asks for a
  colour the dry run plans spools of that colour (`jobs.service.ts:4146-4151`)
  and the commit reserves one that fits whatever its colour (`:4283`), another
  spool or one where the preview found none; a multicolour piece is planned slot
  by slot (`:4122-4144`) and refused at the commit (`:4348-4350`). With two jobs
  that need spools the dry run holds neither's, so both may be promised the same
  grams. In the scene `Painted` TLC finds the first two when the property is
  asked without its exceptions.
* A nozzle substituted at commit, which `keep_assigned` may still get, does not
  keep the turnaround; a commit enforces neither turnaround nor hours.
* A pool may be free at each instant while no single nozzle is free for the
  whole window: the busy time is an intersection over the pool.
* The batch schedule retries once, tail first; a chain of three in the wrong
  order stays refused (`jobs.service.ts:2712-2718`).
* A plate may reserve other spools while it is on the board, with no overlap
  check. A tank is checked for a piece against pieces only, although plates
  have one. The pack reads a plate's tank off its pieces: one that only the
  plate names is skipped, one that only its pieces name is placed in the
  preview and refused at the commit.
* A failed commit leaves the reserved spool and the switched nozzle. Two
  commits or two swaps at once may book one nozzle twice; nothing constrains it.

## 9. The order desk and its files (`Bucket`, `OrderDesk`)

**Correspondence.** `order`, `customer`, `piece`, `attachment`, `plate` are the
rows as the office sees them, `counter` and `lock` the row of
`order_number_sequences`, `req[r]` a request between its reads, its transaction
(`...Read`, `...Tx`) and the removal of files, `sweep` the tick of
`file-purge.service.ts`. `Bucket` is `storage-files.service.ts`: a delete path
asks which of its keys are still referred to, then removes the others, in two
calls. What the floor does to a piece is the single action `Shop`; the three
file columns are one; the invoices of an order are not erased here.

**Run** `orders`, eleven scenes: minting, typed numbers and restarts beside
deletions; orders getting, changing and losing customers; patches and
reservations against the floor; rows that share a file, removed by two requests
at once, by a plate, by a customer's deletion or by the sweep. A crash may come
in every scene but two, storage and reference checks may fail. Checked: the
counter is ahead of every number it minted; the order count of a customer is
right unless an order changed hands or was dealt with by two requests at once
(`raced`); what is reserved is of the piece's colour; no row points at a file
that is gone; nothing unreferenced stays without being logged. Two requests
and three pieces on two keys are the fewest where a shared file outlives one of
its rows in each of two orders; `MCFewOrders`, `MCNewFiles`, `MCOneByOne` bound
the scenes in which all of that would be a product. Uploads and copies beside a
removal are `Alone`: the first two notes say what happens otherwise. 1,454,694 states.

**Proofs** (any rows, keys, requests and numbers). `DeskSpec` starts from any
stock of rows in order (`Stocked`) and has every desk at work at once, where
the run takes scenes. `DeskIsTyped` is the shape of rows, requests, sweep and
clean-ups. `CounterIsAhead` needs that a number in the making is below the
counter its holder of the row lock has read (`CounterOK`); `CustomersAreCounted`
that every count but those of `raced` customers is the cardinality of the
orders owned, and that rows and requests name customers there are (`OwnersOK`);
neither has a hypothesis.
`ReservationsFit`, `RowsPointAtFiles` and `BytesAreAccountedFor` assume
`EditsAlone`: edits that check and then write, uploads and copies run beside no
other request (the first and last notes say why). The two about files rest on
`FilesOK`: a key a row names is in the bucket (`Housed`); a file owed to nobody's
row is spilled or still to be removed (`Accounted`); a removal past its
reference check aims at what no row names (`NothingNeeded`); who has files left
to remove begins nothing else (`Unburdened`); the sweep has all the heavy files
of the order it is at (`SweepAims`); and what a request has read of files is so
still, or the row has let go of them (`PlanOK`).

**Noted.**
* A row that comes to point at a file between the reference check and the
  removal points at nothing; a file attached between the sweep's reading and
  its unlinking is orphaned. The sweep does not re-check that the order is
  still fulfilled, and leaves thumbnails.
* A patched piece's replaced files stay; deleting a customer
  (`customers.service.ts:320`) and `jobs.service.ts:3438` ignore the keys
  `reevaluateBed` returns (`cascade.ts:317-320`). A company purge lists keys
  before it deletes: uploads in between stay.
* "Serial numbers are never re-used" (`numbering.service.ts:164-166`): delete
  the highest order and restart at its serial, and it is. A typed number ahead
  of the counter wedges the mint when it gets there.
* `total_orders`: moving an order between customers adjusts neither; two first
  assignments or deletions at once count twice; a guest's customer stays when
  the transaction of the order fails. An order may be reopened for, or created
  with, a customer being deleted.
* `{status: 'cancelled'}` on a loaded piece keeps its reservation and window;
  `{status: 'pending'}` on a done one revives it; `replaceSpoolAllocations`
  checks colour and reference only. Removing pieces of other orders from a
  plate does not recompute those orders.

## 10. The books (`Ledger`, `Books`)

**Correspondence.** `journal` is the sequence of posted entries, each a
sequence of lines `<<account, amount>>` in cents, debits positive; `account`
the chart, `lock` the day the books are closed through. `Postable` and `Posted`
are the posting engine with its balance, account and lock checks; reports are
operators over the journal. `doc` holds invoices and bills, `payment` payments
with their applications, `template` recurring bills, `waste` the wasted
material. Handlers that lock what they decide on are one step;
`FromOrder`/`FromOrderTx`,
`PostRecurringBill`/`RecurringDraft`/`RecurringMark`,
`RecordInventoryPurchase`/`PurchaseOpen`/`PurchasePay` and
`IssueRead`/`IssueWrite` are split; `Die` ends a request between two steps.
Left out: vendors, memos, numbers; a document has one line; a day stands for
its month.

**Run** `books`, four scenes (the chart under drafts and issues; payments; expenses
and waste; terms with orders, recurring bills and purchases). Checked:
receivables, payables and waste in the ledger equal what documents, payments and
waste rows say, each row rounded on its own; a document owes its total less the
payments that stand, and its status says so; no account disappears under its
history and assets equal claims on every day; a month a template is marked for
has its bill; while the books are locked no report over the locked days moves,
but for a request that read the lock before it moved. A price of three cents at
50 % tax and receipts of three make tax round, a payment partial and an
application split; three spools give waste two materials, and a spool bought
whole. `from_order` and `issue` run beside no other request (`Alone`). 150,115 states.

**Proofs** (any chart, documents, payments, templates and days). `BooksInv`
holds the accounts (`AccountsOK`), the journal (`JournalOK`: a sequence of
dated entries), `EntriesAreSound` (each posted entry balances, and its accounts
are still on the chart) and the rows with the entry
or the bill they point at (`RowsOK`; in `MarkedOK`, a marked month has its
bill). `HistoryIsWhole` adds to it that the sheet of every day balances and the
trial balance is even: the lines of a period form a table of entries by
accounts, whose sum by rows is nothing, as every entry balances, and by columns
the balances of all accounts, which are those of the five types together
(`SumByRowsOrColumns`, over a section of lemmas about sums of integers).
`MarkedMonthsWereBilled` is another property of the run.
`ClosedBooksDoNotChange` says that a report of a locked day is a function of
the entries up to it, and that no step but a late issue adds one there; it
assumes `"issue" \in Alone`, which stands for the row lock the issuing
transaction holds on its document.

`DocumentsOweTheirPayments` and `ControlAccountsAreReconciled` compare rows with
sums. `StepKinds` sorts the steps by what they do to documents, payments and
waste: post elsewhere, waste, redraw a draft, open, void, pay, take a payment
back. `OwedOK` says for each document that its status and `paid` go together
(`Standing`) and that `paid` is the sum of what the standing payments settle.
`EntriesTell` says that the entry a document or a payment points at put on
receivables and payables what its row says: a document its total, a payment the
amounts it applied, with the opposite sign. `TradeOK`, that the entries of
documents and payments together left on each of the two accounts what open
documents owe (`Left`), then follows step by step: an opened document adds its
total to both sides, a payment takes the same sum from both, a reversal mirrors
its entry, and only a document nothing is paid on can be voided. `WasteOK` is
the same for the waste account. Both theorems assume that the two requests that
decide on a draft in one step and write in a later one run alone
(`{"issue", "from_order"} \subseteq Alone`), as the run does: `DraftsOK` is what
they may then rely on. For issuing that stands for the row lock; drafting from
an order holds none, and without the assumption both properties fail (first
note). That an issued document goes on billing what its entry posted follows
from `EntriesTell` under the same assumption, but is no theorem here: the race
of the first note is the one thing that breaks it, and the assumption takes just
that away.

Assumptions: `BooksAssumption` and `LedgerAssumption` (types, a calendar of at
least one day), `ChartIsFinite`, `RowsAreFinite`, `KindsAreDistinct` (ids of
invoices, bills, payments and expenses differ).

**Noted.**
* A draft made from an order is rewritten on a read without a lock
  (`finance.service.ts:1695`): an invoice issued meanwhile keeps its entry and
  gets other totals, which `:1666-1668` excludes. With `Alone = {"issue"}` and
  three edits, TLC finds it: the tax rate is deactivated before the rewrite,
  and receivables keep a tax the invoice no longer bills.
* "Never double-posted" (`:1067-1068`): two requests at once, or a crash between
  the bill and its mark, post a month twice.
* The lock of the books is read before the entry is written. The trial balance
  ignores its dates. Two concurrent "make default" leave two defaults.

## 11. Tenants (`Licences`, `Members`)

**Correspondence.** `sub`, `grant`, `discount`, `redeemed`, `invoices` are the
rows, `cache` the status cache of `LicensingService` with what it saw,
`desk[d]` a request between its read and its write, `sweep` the tick of the
notices. `ReadStatus`/`KeepStatus` is `getStatus`, whose result may be cached
after a decision was made. Its two ways to fail are kept apart: a query for the
hold that fails is swallowed and the status says "no hold" (`blind`,
`licensing.service.ts:303-319`) and is cached like any other; a query before it
that fails lets the one request pass and caches nothing (`FailOpen`, :173-193).
`ReadGrant`/`RedeemTx` and `ReadRevoked`/`RevokeTx`
hold the row lock of the grant; `Notify` and `RecordSent` are the delivery and
the recording of a notice. `Members` adds people: an account at the identity
provider, a `users` row, membership rows, invites; the setup of owner and
member, removal, and the purge of a company in its four calls. Time is in
days: the minute of the cache is the freedom to expire at any moment. Prices and
texts are left out, codes are distinct, and the sweep's horizon is not modelled.

**Run** `tenancy`, eighteen scenes over two companies, two desks, one grant, one
discount, three people and two invites, four days. Checked: a code carries one
company, and a revoked one no plan in force; what the guard goes by in the cache
is the last decision, except a status that was being resolved just then, and, as
to holds and deletion, one whose query for them failed since; of one end no
company is told an earlier stage after a later one, unless a notice could not
be recorded; whoever joins is let in by a code that admitted nobody before, made
by somebody who works there at that moment. Reminders one and two days before
the end, a grace of one and a look-back of one give every stage and a sweep that
is late by several. Notices, deals and statuses concern one company at a time
(`MCOneCompany`, `MCPlans`): their rows are keyed by company. 1,374,928 states.

**Proofs** (any companies, codes, people, desks and days, everything at once:
`TenancySpec`). `TenancyOK` is the shape of rows and requests. `CodesOK`: a code
is carried by the company its row names (`Carried`), one request holds its row
lock (`OneHolder`), and it sees the row as it read it (`RowAsRead`). `GuardOK`:
a cached status, or one being resolved and not marked late, agrees with the
decisions about the company; a blind one agrees as to the plan, and lets its
company in. `InvitesOK`: an unused invite is vouched for by
somebody who works at its company, and a person about to join joins that one.
From these, `CodesBackOneCompany`, `GuardGoesByDecisions` and `InvitesLetOneIn`,
without hypotheses. Assumptions: `LicencesAssumption`, `MembersAssumption`
(types; no value stands for two things; terms of at least a day).
Only model-checked, and only in the scenes of the run: `NoticesComeInOrder`. A
notice belongs to an end of term, which this model knows by its day; when every
scene acts at once, a plan cancelled on a day and a grant that ends on it have
the same end here, where the program's timestamps keep them apart.

**Noted.**
* A second save of an invoice in the making bills twice: the look-up asks for
  `issued`, the insert writes `draft` (`subscription-invoice.service.ts:115-120`).
  The tenant's list shows only `issued`, hence neither drafts nor sent ones.
  Sending and finalizing work on void invoices, finalizing replaces the file of a
  sent one, deleting twice removes a voided one, two sends may both go out.
* "A redeemed code can never be redeemed again" (`2026-07-04_licensing.sql:80`):
  it can after the redeemer is purged. "The window only delays external lapses"
  (`licensing.service.ts:109-111`) fails for a status being resolved, and for a
  hold: a ban is "enforced immediately" (:296-298), yet one failing query for it
  lets the banned company work for the minute of the cache.
* Ending a trial and extending in bulk write on what they read; an extension may
  pass a grant's hard end; redeeming overrides a plan assigned later. The cap of
  a discount races, and a failed record of its use is swallowed.
* A superseded reminder whose record failed may still be sent later. A removed
  member keeps the membership row; a purge races a new sign-up of the account it
  deletes, and the status of a purged company fails open.

## 12. Hazards no property covers

* A completion of a plate checks its status and then commits statement by
  statement: raced by a triage it draws twice (`beds.service.ts:1503`). No
  promise of the code covers it.
* How `outcome.ts:121` splits grams over parts and spools (weights of zero,
  rounding): pure arithmetic, left open in `PlateLifecycle`.
* Reads and rollups of the shipping desk beside one another
  (`order-pieces.service.ts:1046`, `cascade.ts:83`): a gate or a rollup computed
  before another request's write, and used after it. The properties of section 4
  are of requests that take turns.
* A completion that dies between its UPDATE and its settling transaction, and
  one that uses a list the clock made before (`jobs.service.ts:3280`): it leaves
  the printer in use and the spool uncharged, or writes over an outcome, and the
  code promises nothing else. The lock and the charge of section 5 are of
  requests that run to their end.
* Covered from one side only: what is reserved is never too much, it may be too
  little when trigger and clock both subtract (`time-state.service.ts:170`);
  splits of stock and patches of a piece, whose reads nothing locks, are right
  for a parent (`assets.service.ts:1546`) or a colour
  (`order-pieces.service.ts:530`) that is still what was read.
* A hit exactly one window old (`throttle-window.ts:54`): one synchronous
  function, which a unit test reaches.

## 13. Not modelled

| Part | Why |
|---|---|
| throttle | one counter per key, touched by one synchronous function |
| email notifications | best-effort sends whose outcome nothing reads; the recorded notices of a licence are in section 11 |
| analytics and assistant | prompts and read-only queries |
| tokens, sessions, cookies | delegated to an identity service |
| `matching.ts` | scores shown to an operator; nothing is decided by it |
| formulas of costing, formats of numbers, PDFs and exports | no state; what is priced is an input of `Books` |
| payment provider | pages and webhooks of an external service; checkout is an action of `Licences` |
| `database.service.ts`, health | the atomicity rules at the top are what it provides |

Not proved, and left to TLC: liveness, as the prover does not reason about
fairness; and whatever a section calls *only model-checked*.
