-------------------------------- MODULE Packer --------------------------------
(***************************************************************************)
(* Auto-schedule (simple-jobs.service.ts): a pack reads the board once,    *)
(* then places job after job against the timelines it keeps in memory,     *)
(* committing each through the guarded schedule of a piece or a plate,     *)
(* while operators book, move, re-equip and clear jobs on the same board.  *)
(*                                                                         *)
(* A commit reads the board in one step and writes the row in a later one: *)
(* nothing holds the board in between.  The row's other preconditions      *)
(* (print time, material, quantity) are PieceLifecycle's and PlateLife-    *)
(* cycle's; a job here has them, and a tank holds enough.                  *)
(***************************************************************************)
EXTENDS Packing

CONSTANTS
  Jobs,        \* pieces and plates: numbers, as all ids here
  Printers, Nozzles, Spools, Tanks,
  Packs,       \* the packs under way
  Hands,       \* operators' requests under way
  Floors,      \* the shops to explore: see MCPacker
  Lead,        \* LEAD_MS
  Horizon,     \* HORIZON_MS
  MaxTime      \* bound on the clock

Actors == Packs \cup Hands
Materials == Spools \cup Tanks

JobRow == [status : STRING, printer : Printers \cup {None}, nozzle : Nozzles \cup {None},
           s : Int, e : Int, take : [Spools -> Nat]]

\* What a job is made of: grams of a material, from any spool of it that fits;
\* and its slots of colour, one unless it is multicolour.
Slots == [fits : SUBSET Spools, grams : Nat]
JobFacts == [bed : BOOLEAN, resin : BOOLEAN, len : Nat, due : Int, grams : Nat, fits : SUBSET Spools,
             multicolor : BOOLEAN, slots : SUBSET Slots, tank : Tanks \cup {None}, fed : Tanks \cup {None}, need : [dia : Nat, mat : Nat]]

\* What a pack is asked for, and what an operator asks to schedule.
Plans == [dry : BOOLEAN, policy : {"earliest", "keep_assigned", "minimise_changes"}, gap : Nat,
          hours : Hours, items : Seq(Jobs), asRun : BOOLEAN]
Requests == Seq([job : Jobs, s : Int])

(* Ids are numbers other than None, and a shop is looked at from a board that
   nobody has double-booked yet. *)
ASSUME PackerAssumption ==
  /\ Printers \cup Nozzles \cup Materials \subseteq Nat \ {None} /\ Jobs \subseteq Int
  /\ IsFiniteSet(Jobs) /\ IsFiniteSet(Nozzles) /\ IsFiniteSet(Materials)
  /\ Packs \cap Hands = {} /\ {Lead, Horizon, MaxTime} \subseteq Nat
  /\ \A f \in Floors :
       /\ f.board \in [Jobs -> JobRow] /\ f.job \in [Jobs -> JobFacts]
       /\ f.plans \subseteq Plans /\ f.moves \subseteq Requests
       /\ \A i, j \in Jobs :
            LET a == f.board[i]  b == f.board[j]
            IN  /\ i # j /\ {a.status, b.status} \subseteq {"scheduled", "printing"}
                /\ a.s < b.e /\ b.s < a.e
                => /\ a.printer # b.printer /\ (a.nozzle # None => a.nozzle # b.nozzle)
                   /\ \A s \in Spools : a.take[s] = 0 \/ b.take[s] = 0
                   /\ f.job[i].tank # None => f.job[i].tank # f.job[j].tank

VARIABLES
  floor,       \* the shop: what its jobs, nozzles and spools are
  now,
  spent,       \* spent[a]: what a has begun so far, at most floor.limit[a]
  job,         \* job[j]: the row of a piece or plate
  desk,        \* desk[a]: the write a's request is about to make
  pack,        \* pack[r]: a pack and everything it remembers
  preview,     \* preview[r]: what r's last dry run promised
  calm,        \* history: packs whose board nobody else touched since that dry run
  unchecked    \* history: jobs whose last booking nobody could check

packerVars == <<floor, now, spent, job, desk, pack, preview, calm, unchecked>>

Fact(j)  == floor.job[j]
IsBed(j) == Fact(j).bed
IsResin(j) == Fact(j).resin
Options(p) == {n \in Nozzles : p \in floor.nozzle[n].mounts /\ ~floor.nozzle[n].damaged}
Kind   == [n \in Nozzles |-> floor.nozzle[n].kind]
Fitted == [n \in Nozzles |-> floor.nozzle[n].fitted]

OnBoard == {j \in Jobs : job[j].status \in {"scheduled", "printing"}}
Overlaps(j, s, e) == job[j].s < e /\ s < job[j].e
SpoolsOf(j) == {s \in Spools : job[j].take[s] > 0}

\* What the packer takes for j's materials: a plate's tank is read off the
\* pieces packed on it, a piece's off the piece.
MaterialsOf(j) == SpoolsOf(j) \cup ({IF IsBed(j) THEN Fact(j).fed ELSE Fact(j).tank} \ {None})

\* asset_stock, with reserved_grams as the trigger keeps it.
Stock == [s \in Spools |->
            [initial |-> floor.spool[s].initial, left |-> floor.spool[s].left,
             child |-> floor.spool[s].child,
             held |-> MapThenSumSet(LAMBDA j : job[j].take[s], OnBoard)]]

Begins(a) == spent[a] < floor.limit[a] /\ spent' = [spent EXCEPT ![a] = @ + 1]

NoTake == [s \in Spools |-> 0]

\* filamentPlan, which a dry run asks: spools for every slot of colour.
PlannedSpools(j) ==
  {s \in Spools : \E c \in Fact(j).slots : PlanSpools(Stock, c.fits, c.grams)[s] > 0}

\* What reserveSpools takes unless told: whatever its colour, and for a
\* multicolour piece nothing.
AutoTake(j) ==
  IF Fact(j).multicolor THEN NoTake ELSE PlanSpools(Stock, Fact(j).fits, Fact(j).grams)

NoDesk == [at |-> "idle", job |-> None, s |-> 0, nozzle |-> None, fresh |-> FALSE,
           todo |-> <<>>, later |-> <<>>, last |-> FALSE, jobs |-> {}]
NoPack == [at |-> "idle"]

\* What a write by a does to everybody else's reading of the board.
Outdate(a, d) == desk' = [b \in Actors |-> IF b = a THEN d ELSE [desk[b] EXCEPT !.fresh = FALSE]]
Disturb(a, d) == Outdate(a, d) /\ calm' = calm \cap {a}

-----------------------------------------------------------------------------
(* The guarded schedule of a piece (scheduleCommit) or plate (schedule).   *)

NozzleTaken(n, j, s, e) == \E i \in OnBoard \ {j} : job[i].nozzle = n /\ Overlaps(i, s, e)

\* resolveNozzleForWindow: the nozzle as it is, an identical free one, or None.
NozzleFor(j, s, e) ==
  LET own == job[j].nozzle
      p   == job[j].printer
      free == {n \in Nozzles : ~NozzleTaken(n, j, s, e)}
  IN  IF own = None \/ own \in free THEN own
      ELSE IF p \in floor.nozzle[own].mounts THEN Twin(own, p, Options(p), Kind, Fitted, free)
      ELSE None

\* A piece looks for its tank among pieces only.
SharesTank(j, i) == /\ Fact(j).tank # None /\ Fact(j).tank = Fact(i).tank
                    /\ IsBed(j) \/ ~IsBed(i)

\* Mutant: plates are not looked at by a piece, nor pieces by a plate.
CollidesWithItsOwn(j, s, e) ==
  \E i \in OnBoard \ {j} :
    /\ Overlaps(i, s, e) /\ IsBed(i) = IsBed(j)
    /\ job[i].printer = job[j].printer \/ SpoolsOf(i) \cap SpoolsOf(j) # {} \/ SharesTank(j, i)

Collides(j, s, e) ==
  \E i \in OnBoard \ {j} :
    /\ Overlaps(i, s, e)
    /\ \/ job[i].printer = job[j].printer
       \/ SpoolsOf(i) \cap SpoolsOf(j) # {}
       \/ SharesTank(j, i)

Complete(j) ==
  /\ job[j].printer # None
  /\ IsResin(j) => Fact(j).tank # None
  /\ ~IsResin(j) /\ ~IsBed(j) => job[j].nozzle # None /\ SpoolsOf(j) # {}

Bookable(j, s) ==
  /\ job[j].status \in {"ready", "scheduled"}
  /\ Complete(j) /\ s >= now
  /\ ~Collides(j, s, s + Fact(j).len)
  /\ job[j].nozzle # None => NozzleFor(j, s, s + Fact(j).len) # None

\* The checks passed: a is about to write j's window.
Judged(a, j, s) ==
  LET n == NozzleFor(j, s, s + Fact(j).len)
  IN  [desk[a] EXCEPT !.at = "book", !.job = j, !.s = s, !.fresh = TRUE,
                      !.nozzle = IF n = job[j].nozzle THEN None ELSE n]

\* COALESCE: no switch leaves the row's nozzle as it is by now.
BookedNozzle(a) ==
  IF desk[a].nozzle # None THEN desk[a].nozzle ELSE job[desk[a].job].nozzle

\* The UPDATE is unconditional; the tables refuse a piece over another piece's
\* window on its printer, and one that lost its printer or nozzle meanwhile.
Refused(a) ==
  LET j == desk[a].job
  IN  /\ ~IsBed(j)
      /\ \/ job[j].printer = None \/ (BookedNozzle(a) = None /\ ~IsResin(j))
         \/ \E i \in OnBoard \ {j} : /\ ~IsBed(i) /\ job[i].printer = job[j].printer
                                     /\ Overlaps(i, desk[a].s, desk[a].s + Fact(j).len)

Book(a) ==
  LET j == desk[a].job
  IN  /\ ~Refused(a)
      /\ job' = [job EXCEPT ![j] = [@ EXCEPT !.status = "scheduled", !.s = desk[a].s,
                                             !.e = desk[a].s + Fact(j).len,
                                             !.nozzle = BookedNozzle(a)]]
      /\ unchecked' = IF desk[a].fresh THEN unchecked \ {j} ELSE unchecked \cup {j}

(* Swapping the nozzle of a job (setNozzle).                               *)

MaySwap(j, n) ==
  /\ job[j].printer # None
  /\ job[j].status \in {"assigned", "ready", "scheduled"}
  /\ job[j].status = "scheduled" => ~NozzleTaken(n, j, job[j].s, job[j].e)
  /\ job[j].printer \in floor.nozzle[n].mounts
  /\ ~(IsBed(j) /\ IsResin(j))

SwapJudged(a, j, n) == [desk[a] EXCEPT !.at = "nozzle", !.job = j, !.nozzle = n, !.fresh = TRUE]

Swap(a) ==
  LET j == desk[a].job
  IN  /\ desk[a].at = "nozzle"
      /\ job' = [job EXCEPT ![j].nozzle = desk[a].nozzle]
      /\ unchecked' = IF desk[a].fresh THEN unchecked ELSE unchecked \cup {j}

-----------------------------------------------------------------------------
(* Operators.                                                              *)

Idle(h) == h \in Hands /\ desk[h].at = "idle" /\ desk[h].todo = <<>> /\ Begins(h)

\* schedule, or scheduleBatch when several pieces are moved at once.
HandSchedule(h, items) ==
  /\ Idle(h)
  /\ desk' = [desk EXCEPT ![h] = [NoDesk EXCEPT !.todo = items, !.last = Len(items) = 1]]
  /\ UNCHANGED <<floor, now, job, pack, preview, calm, unchecked>>

\* The items that collided get one more round after the others.
Onwards(d, again) ==
  LET later == d.later \o again
  IN  IF Len(d.todo) > 1 THEN [d EXCEPT !.at = "idle", !.todo = Tail(d.todo), !.later = later]
      ELSE [NoDesk EXCEPT !.todo = later, !.last = TRUE]

HandCheck(h) ==
  LET item == Head(desk[h].todo)
      again == IF desk[h].last \/ ~Complete(item.job) \/ item.s < now THEN <<>> ELSE <<item>>
  IN  /\ h \in Hands /\ desk[h].at = "idle" /\ desk[h].todo # <<>>
      /\ desk' = [desk EXCEPT ![h] = IF Bookable(item.job, item.s)
                                     THEN Judged(h, item.job, item.s)
                                     ELSE Onwards(desk[h], again)]
      /\ UNCHANGED <<floor, now, spent, job, pack, preview, calm, unchecked>>

HandBook(h) ==
  /\ h \in Hands /\ desk[h].at = "book"
  /\ \/ Book(h) /\ Disturb(h, Onwards(desk[h], <<>>))
     \/ /\ Refused(h) /\ desk' = [desk EXCEPT ![h] = Onwards(@, <<>>)]
        /\ UNCHANGED <<job, calm, unchecked>>
  /\ UNCHANGED <<floor, now, spent, pack, preview>>

HandNozzle(h, j, n) ==
  /\ Idle(h) /\ MaySwap(j, n)
  /\ desk' = [desk EXCEPT ![h] = SwapJudged(h, j, n)]
  /\ UNCHANGED <<floor, now, job, pack, preview, calm, unchecked>>

HandSwap(h) ==
  /\ h \in Hands /\ Swap(h) /\ Disturb(h, NoDesk)
  /\ UNCHANGED <<floor, now, spent, pack, preview>>

\* reserveSpools on one chosen spool.  A plate may re-reserve while it is on
\* the board, and nobody looks whether the spool is free in its window.
HandReserve(h, j, s) ==
  LET refused == IF IsBed(j) THEN {"done"} ELSE {"scheduled", "printing", "done"}
  IN  /\ Idle(h) /\ ~IsResin(j) /\ ~Fact(j).multicolor /\ job[j].status \notin refused
      /\ s \in Fact(j).fits
      /\ FreeOn(Stock[s]) + (IF j \in OnBoard THEN job[j].take[s] ELSE 0) >= Fact(j).grams
      /\ job' = [job EXCEPT ![j].take = [NoTake EXCEPT ![s] = Fact(j).grams]]
      /\ unchecked' = IF j \in OnBoard THEN unchecked \cup {j} ELSE unchecked
      /\ Disturb(h, NoDesk)
      /\ UNCHANGED <<floor, now, pack, preview>>

\* unscheduleBatch (a piece keeps its spools), unschedule of a plate (it does not).
HandUnschedule(h, js) ==
  LET off == {j \in js : job[j].status = "scheduled"}
  IN  /\ Idle(h) /\ off # {}
      /\ job' = [j \in Jobs |->
                   IF j \notin off THEN job[j]
                   ELSE [job[j] EXCEPT !.status = "ready", !.s = 0, !.e = 0,
                                       !.take = IF IsBed(j) THEN NoTake ELSE @]]
      /\ unchecked' = unchecked \ off
      /\ Disturb(h, NoDesk)
      /\ UNCHANGED <<floor, now, pack, preview>>

\* bulkUnassign: the pieces of some printers, read first ...
HandClear(h, ps) ==
  LET found == {j \in Jobs : /\ ~IsBed(j) /\ job[j].printer \in ps
                             /\ job[j].status \in {"assigned", "ready", "scheduled"}}
  IN  /\ Idle(h) /\ found # {}
      /\ desk' = [desk EXCEPT ![h] = [NoDesk EXCEPT !.at = "clear", !.jobs = found]]
      /\ UNCHANGED <<floor, now, job, pack, preview, calm, unchecked>>

\* ... and taken off, whatever became of them.
HandCleared(h) ==
  /\ h \in Hands /\ desk[h].at = "clear"
  /\ job' = [j \in Jobs |->
               IF j \notin desk[h].jobs THEN job[j]
               ELSE [status |-> "pending", printer |-> None, nozzle |-> None,
                     s |-> 0, e |-> 0, take |-> NoTake]]
  /\ unchecked' = unchecked \ desk[h].jobs
  /\ Disturb(h, NoDesk)
  /\ UNCHANGED <<floor, now, spent, pack, preview>>

\* A scheduled print starts, a running one ends (with its reservation).
ShopRuns(h, j) ==
  /\ Idle(h) /\ job[j].status \in {"scheduled", "printing"}
  /\ job' = [job EXCEPT ![j] = IF @.status = "scheduled" THEN [@ EXCEPT !.status = "printing"]
                               ELSE [@ EXCEPT !.status = "done", !.take = NoTake]]
  /\ Disturb(h, NoDesk)
  /\ UNCHANGED <<floor, now, pack, preview, unchecked>>

Tick ==
  /\ now < MaxTime /\ now' = now + 1 /\ calm' = {}
  /\ UNCHANGED <<floor, spent, job, desk, pack, preview, unchecked>>
-----------------------------------------------------------------------------
(* The pack.                                                               *)

NoBlock == [on |-> FALSE, printer |-> None, nozzle |-> None, s |-> 0, e |-> 0]
Timelines(R) == [x \in R |-> <<>>]

\* autoScheduleAll takes what listSchedulable finds; a selection is given.
Schedulable ==
  LET found == {j \in Jobs : job[j].status = "ready" /\ job[j].printer # None /\ job[j].e = 0}
  IN  InOrder(found, {x \in found \X found : x[1] < x[2]})

\* `plan` holds the knobs; the clock is read once.
StartPack(r, plan) ==
  /\ pack[r].at = "idle" /\ Begins(r)
  /\ pack' = [pack EXCEPT ![r] =
       [at |-> "pieces", plan |-> plan,
        items |-> IF plan.items = <<>> THEN Schedulable ELSE plan.items,
        from |-> now, seen |-> [j \in Jobs |-> NoBlock], cand |-> <<>>, queue |-> <<>>,
        printerBusy |-> Timelines(Printers), nozzleBusy |-> Timelines(Nozzles),
        materialBusy |-> Timelines(Materials), pinned |-> Timelines({}),
        mine |-> {}, auto |-> 0, pick |-> [nozzle |-> None, start |-> 0],
        placed |-> <<>>, skipped |-> {}]]
  /\ calm' = IF plan.dry THEN calm \cup {r} ELSE calm
  /\ UNCHANGED <<floor, now, job, desk, preview, unchecked>>

\* busy with iv pushed onto the timelines of R.
Pushed(busy, R, iv) ==
  [x \in DOMAIN busy |-> IF x \in R THEN PushInterval(busy[x], iv) ELSE busy[x]]

\* A committed block, as the snapshot reads it.
Block(j) == [on |-> TRUE, printer |-> job[j].printer, nozzle |-> job[j].nozzle,
             s |-> job[j].s, e |-> job[j].e]

\* One query of the snapshot: the pieces, then the plates.
ReadBlocks(r, at, plates, next) ==
  /\ pack[r].at = at
  /\ pack' = [pack EXCEPT ![r] =
       [@ EXCEPT !.at = next,
                 !.seen = [j \in Jobs |-> IF j \in OnBoard /\ IsBed(j) = plates THEN Block(j)
                                         ELSE pack[r].seen[j]]]]
  /\ UNCHANGED <<floor, now, spent, job, desk, preview, calm, unchecked>>

ReadPieces(r) == ReadBlocks(r, "pieces", FALSE, "plates")
ReadPlates(r) == ReadBlocks(r, "plates", TRUE, "materials")

\* The windows in which the jobs js were seen, ordered by start.
SeenWindows(seen, js) ==
  LET q == InOrder(js, {x \in js \X js : seen[x[1]].s < seen[x[2]].s})
  IN  [i \in DOMAIN q |-> [s |-> seen[q[i]].s, e |-> seen[q[i]].e]]

\* Every reservation counts in the window its job was seen in; with them the
\* timelines are complete.
ReadMaterials(r) ==
  LET seen == pack[r].seen
      held == {j \in Jobs : seen[j].on}
  IN  /\ pack[r].at = "materials"
      /\ pack' = [pack EXCEPT ![r] =
           [@ EXCEPT !.at = "candidates",
                     !.printerBusy = [x \in Printers |-> SeenWindows(seen, {j \in held : seen[j].printer = x})],
                     !.nozzleBusy = [x \in Nozzles |-> SeenWindows(seen, {j \in held : seen[j].nozzle = x})],
                     !.materialBusy = [x \in Materials |-> SeenWindows(seen, {j \in held : x \in MaterialsOf(j)})]]]
      /\ UNCHANGED <<floor, now, spent, job, desk, preview, calm, unchecked>>

\* nozzleSpecKey: printer and wanted kind as one number.
SetupKey(j, printer) == (printer * 10 + Fact(j).need.dia) * 10 + Fact(j).need.mat

\* The candidates as they are now, in the order they will be placed.
LoadCandidates(r) ==
  LET p == pack[r]
      item(i) == [id |-> p.items[i], due |-> Fact(p.items[i]).due, place |-> i,
                  dur |-> Fact(p.items[i]).len,
                  setup |-> SetupKey(p.items[i], job[p.items[i]].printer)]
      items == {item(i) : i \in DOMAIN p.items}
      order == IF p.plan.policy = "minimise_changes" THEN ForFewestSetups(items, p.from)
               ELSE BySlack(items, p.from)
  IN  /\ p.at = "candidates"
      /\ pack' = [pack EXCEPT ![r].at = "next",
                              ![r].queue = [i \in DOMAIN order |-> order[i].id],
                              ![r].cand = [j \in Jobs |-> [row |-> job[j], mats |-> MaterialsOf(j)]]]
      /\ UNCHANGED <<floor, now, spent, job, desk, preview, calm, unchecked>>

-----------------------------------------------------------------------------
(* One candidate after the other.                                          *)

Current(p) == Head(p.queue)

Skipped(p) == [p EXCEPT !.at = "next", !.queue = Tail(@), !.skipped = @ \cup {Head(p.queue)}]

\* The timelines a job has to clear on nozzle n, its materials in any order.
ListsOf(p, j, n) ==
  LET mats == InOrder(p.mine, {})
  IN  <<p.printerBusy[p.cand[j].row.printer]>>
        \o (IF n = None THEN <<>> ELSE <<p.nozzleBusy[n]>>)
        \o [i \in DOMAIN mats |-> p.materialBusy[mats[i]]]

EarliestOn(p, j, n) ==
  EarliestFitAcross(ListsOf(p, j, n), Fact(j).len, p.from + Lead, p.plan.gap, p.plan.hours)

\* The roster is not even read when no nozzle may be substituted.
RosterOf(p, j) ==
  IF p.plan.policy = "keep_assigned" THEN {}
  ELSE {n \in Options(p.cand[j].row.printer) : NozzleFits(Kind[n], Fact(j).need)}

\* The nozzle this plan keeps on a printer for a kind of work.
PinnedFor(p, setup) == IF setup \in DOMAIN p.pinned THEN p.pinned[setup] ELSE None

\* p, drawing from `mats`, with a nozzle and a start for j, or j skipped.
Choose(p, j, mats) ==
  LET q == [p EXCEPT !.mine = mats]
      row   == p.cand[j].row
      setup == SetupKey(j, row.printer)
      nozzle == ChooseNozzle(row.nozzle, row.printer, RosterOf(q, j), Fitted,
                             [n \in RosterOf(q, j) \cup {row.nozzle} |-> EarliestOn(q, j, n)],
                             p.plan.policy, PinnedFor(p, setup))
      start == EarliestOn(q, j, nozzle)
      kept  == IF p.plan.policy = "minimise_changes" /\ nozzle # None
               THEN [q EXCEPT !.pinned = (setup :> nozzle) @@ @] ELSE q
  IN  IF start + Fact(j).len > p.from + Horizon THEN Skipped(kept)
      ELSE [kept EXCEPT !.pick = [nozzle |-> nozzle, start |-> start],
                        !.at = IF p.plan.dry THEN "place"
                               ELSE IF nozzle # row.nozzle THEN "switch" ELSE "commit"]

\* What keeps a candidate out before anything is tried for it.
NotPackable(p, j) ==
  LET row == p.cand[j].row
  IN  \/ row.status # "ready"
      \/ row.printer = None
      \/ ~IsResin(j) /\ row.nozzle = None
      \/ IsResin(j) /\ p.cand[j].mats = {}

Steps(r, at) == pack[r].at = at /\ UNCHANGED <<floor, now, spent, preview>>

\* A job that is out, or whose material is already chosen.
Consider(r) ==
  LET p == pack[r]
      j == Current(p)
  IN  /\ Steps(r, "next") /\ p.queue # <<>>
      /\ \/ NotPackable(p, j) /\ pack' = [pack EXCEPT ![r] = Skipped(p)]
         \/ /\ ~NotPackable(p, j) /\ p.cand[j].mats # {}
            /\ pack' = [pack EXCEPT ![r] = Choose(p, j, p.cand[j].mats)]
      /\ UNCHANGED <<job, desk, calm, unchecked>>

Unreserved(r) == /\ pack[r].queue # <<>> /\ ~NotPackable(pack[r], Current(pack[r]))
                 /\ pack[r].cand[Current(pack[r])].mats = {}

\* A dry run asks the planner what the commit would reserve, and reserves nothing.
PlanMaterial(r) ==
  LET p == pack[r]
      j == Current(p)
      mats == PlannedSpools(j)
  IN  /\ Steps(r, "next") /\ Unreserved(r) /\ p.plan.dry
      /\ pack' = [pack EXCEPT ![r] = IF mats = {} THEN Skipped(p)
                                     ELSE Choose([p EXCEPT !.auto = @ + 1], j, mats)]
      /\ UNCHANGED <<job, desk, calm, unchecked>>

\* reserveSpools: it stays reserved whatever happens to the placement.
ReserveMaterial(r) ==
  LET p == pack[r]
      j == Current(p)
      take == AutoTake(j)
      refused == \/ job[j].status \in (IF IsBed(j) THEN {"done"} ELSE {"scheduled", "printing", "done"})
                 \/ take = NoTake
  IN  /\ Steps(r, "next") /\ Unreserved(r) /\ ~p.plan.dry
      /\ \/ /\ refused /\ pack' = [pack EXCEPT ![r] = Skipped(p)]
            /\ UNCHANGED <<job, desk, calm, unchecked>>
         \/ /\ ~refused
            /\ job' = [job EXCEPT ![j].take = take]
            /\ unchecked' = IF j \in OnBoard THEN unchecked \cup {j} ELSE unchecked
            /\ pack' = [pack EXCEPT ![r] = Choose([p EXCEPT !.auto = @ + 1], j,
                                                  {s \in Spools : take[s] > 0})]
            /\ Disturb(r, desk[r])

\* The plan with j placed on `nozzle`: its own timelines now hold it.
Placed(p, j, nozzle) ==
  LET iv == [s |-> p.pick.start, e |-> p.pick.start + Fact(j).len]
      printer == p.cand[j].row.printer
  IN  [p EXCEPT !.at = "next", !.queue = Tail(@),
                !.printerBusy = Pushed(@, {printer}, iv),
                !.nozzleBusy = Pushed(@, {nozzle}, iv),
                !.materialBusy = Pushed(@, p.mine, iv),
                !.placed = Append(@, [job |-> j, start |-> iv.s, nozzle |-> nozzle,
                                      printer |-> printer, mats |-> p.mine])]

\* Mutant: what a dry run places is not put on its timelines.
PlaceDryUnbooked(r) ==
  LET p == pack[r]
      q == Placed(p, Current(p), p.pick.nozzle)
  IN  /\ Steps(r, "place")
      /\ pack' = [pack EXCEPT ![r] = [q EXCEPT !.printerBusy = p.printerBusy,
                                               !.nozzleBusy = p.nozzleBusy,
                                               !.materialBusy = p.materialBusy]]
      /\ UNCHANGED <<job, desk, calm, unchecked>>

\* A dry run: the placement is only remembered.
PlaceDry(r) ==
  LET p == pack[r]
  IN  /\ Steps(r, "place")
      /\ pack' = [pack EXCEPT ![r] = Placed(p, Current(p), p.pick.nozzle)]
      /\ UNCHANGED <<job, desk, calm, unchecked>>

\* setNozzle, before the commit; a failed commit does not undo it.
SwitchNozzle(r) ==
  LET p == pack[r]
      j == Current(p)
  IN  /\ Steps(r, "switch")
      /\ \/ /\ desk[r].at = "idle" /\ ~MaySwap(j, p.pick.nozzle)
            /\ pack' = [pack EXCEPT ![r] = Skipped(p)]
            /\ UNCHANGED <<job, desk, calm, unchecked>>
         \/ /\ desk[r].at = "idle" /\ MaySwap(j, p.pick.nozzle)
            /\ desk' = [desk EXCEPT ![r] = SwapJudged(r, j, p.pick.nozzle)]
            /\ UNCHANGED <<job, pack, calm, unchecked>>
         \/ /\ Swap(r) /\ Disturb(r, NoDesk)
            /\ pack' = [pack EXCEPT ![r].at = "commit"]

CheckCommit(r) ==
  LET p == pack[r]
      j == Current(p)
  IN  /\ Steps(r, "commit") /\ desk[r].at = "idle"
      /\ \/ /\ ~Bookable(j, p.pick.start)
            /\ pack' = [pack EXCEPT ![r] = Skipped(p)] /\ UNCHANGED desk
         \/ /\ Bookable(j, p.pick.start)
            /\ desk' = [desk EXCEPT ![r] = Judged(r, j, p.pick.start)] /\ UNCHANGED pack
      /\ UNCHANGED <<job, calm, unchecked>>

\* adoptSwitch: the plan remembers the nozzle the commit took.  When a statement
\* after the UPDATE fails, the job is on the board and reported as skipped.
NozzleAdopted(r) == IF desk[r].nozzle # None THEN desk[r].nozzle ELSE pack[r].pick.nozzle

Commit(r) ==
  LET p == pack[r]
  IN  /\ Steps(r, "commit") /\ desk[r].at = "book"
      /\ \/ /\ Book(r) /\ Disturb(r, NoDesk)
            /\ pack' = [pack EXCEPT ![r] = Placed(p, Current(p), NozzleAdopted(r))]
         \/ /\ Refused(r) /\ desk' = [desk EXCEPT ![r] = NoDesk]
            /\ pack' = [pack EXCEPT ![r] = Skipped(p)]
            /\ UNCHANGED <<job, calm, unchecked>>
         \/ /\ Book(r) /\ Outdate(r, NoDesk) /\ calm' = {}
            /\ pack' = [pack EXCEPT ![r] = Skipped(p)]

\* Cancelled: what was committed stays, the rest is reported as stopped.
Stop(r) ==
  /\ Steps(r, "next") /\ pack[r].plan.asRun /\ pack[r].queue # <<>>
  /\ pack' = [pack EXCEPT ![r].queue = <<>>, ![r].skipped = @ \cup ToSet(pack[r].queue)]
  /\ calm' = calm \ {r}
  /\ UNCHANGED <<job, desk, unchecked>>

\* The result, compared with the last preview while nobody else has acted.
Report(r) ==
  /\ Steps(r, "next") /\ pack[r].queue = <<>>
  /\ pack' = [pack EXCEPT ![r].at = "done"]
  /\ UNCHANGED <<job, desk, calm, unchecked>>

ReturnPack(r) ==
  LET p == pack[r]
  IN  /\ p.at = "done"
      /\ preview' = [preview EXCEPT ![r] = IF p.plan.dry
           THEN {[plan |-> p.plan, placed |-> p.placed, skipped |-> p.skipped]} ELSE {}]
      /\ calm' = IF p.plan.dry THEN calm ELSE calm \ {r}
      /\ pack' = [pack EXCEPT ![r] = NoPack]
      /\ UNCHANGED <<floor, now, spent, job, desk, unchecked>>

\* The process restarts: a pack is gone, what it wrote is not.
LosePack(r) ==
  /\ pack[r].at # "idle"
  /\ pack' = [pack EXCEPT ![r] = NoPack] /\ desk' = [desk EXCEPT ![r] = NoDesk]
  /\ preview' = [preview EXCEPT ![r] = {}] /\ calm' = calm \ {r}
  /\ UNCHANGED <<floor, now, spent, job, unchecked>>

-----------------------------------------------------------------------------
PackerInit ==
  /\ floor \in Floors
  /\ now = 0 /\ spent = [a \in Actors |-> 0]
  /\ job = [j \in Jobs |-> floor.board[j]]
  /\ desk = [a \in Actors |-> NoDesk]
  /\ pack = [r \in Packs |-> NoPack]
  /\ preview = [r \in Packs |-> {}]
  /\ calm = {} /\ unchecked = {}

PackNext ==
  \E r \in Packs :
    \/ \E plan \in floor.plans : StartPack(r, plan)
    \/ ReadPieces(r) \/ ReadPlates(r) \/ ReadMaterials(r) \/ LoadCandidates(r)
    \/ Consider(r) \/ PlanMaterial(r) \/ ReserveMaterial(r)
    \/ PlaceDry(r) \/ SwitchNozzle(r) \/ CheckCommit(r) \/ Commit(r)
    \/ Report(r) \/ ReturnPack(r)
PackEnds == \E r \in Packs : Stop(r) \/ LosePack(r)

HandNext ==
  \E h \in Hands :
    \/ \E items \in floor.moves : HandSchedule(h, items)
    \/ HandCheck(h) \/ HandBook(h)
EquipNext ==
  \E h \in Hands :
    \/ \E j \in Jobs, n \in Nozzles : HandNozzle(h, j, n)
    \/ HandSwap(h)
    \/ \E j \in Jobs, s \in Spools : HandReserve(h, j, s)
ClearNext ==
  \E h \in Hands :
    \/ \E js \in floor.clears : HandUnschedule(h, js)
    \/ \E ps \in (SUBSET Printers) \ {{}} : HandClear(h, ps)
    \/ HandCleared(h)
ShopNext == \E h \in Hands, j \in Jobs : ShopRuns(h, j)

PackerNext == PackNext \/ PackEnds \/ HandNext \/ EquipNext \/ ClearNext \/ ShopNext \/ Tick

PackerSpec == PackerInit /\ [][PackerNext]_packerVars

-----------------------------------------------------------------------------
(* Properties.                                                             *)

\* What two jobs on the board can fight over.  (A piece is never checked
\* against the tank of a plate, so that pair is left out.)
ShareAResource(i, j) ==
  \/ job[i].printer = job[j].printer
  \/ job[i].nozzle # None /\ job[i].nozzle = job[j].nozzle
  \/ SpoolsOf(i) \cap SpoolsOf(j) # {}
  \/ Fact(i).tank # None /\ Fact(i).tank = Fact(j).tank /\ IsBed(i) = IsBed(j)

(* Packs may work for minutes from timelines they read once while others book,
   move and clear jobs; still, two jobs share a printer, a nozzle, a spool or
   a tank at one time only if one of them was written after the board had
   moved under its own commit's checks -- and two pieces never share a printer. *)
StalePlansNeverDoubleBook ==
  \A i, j \in OnBoard :
    i # j /\ Overlaps(i, job[j].s, job[j].e) /\ ShareAResource(i, j) =>
      /\ {i, j} \cap unchecked # {}
      /\ ~IsBed(i) /\ ~IsBed(j) => job[i].printer # job[j].printer

\* The blocks a plan must keep clear of for j on nozzle n: what it read, and
\* what it placed itself.
BlocksFor(p, j, n) ==
  (UNION {ToSet(ListsOf(p, j, n)[i]) : i \in DOMAIN ListsOf(p, j, n)})
  \cup {[s |-> x.start, e |-> x.start + Fact(x.job).len] :
          x \in {y \in ToSet(p.placed) : \/ y.printer = p.cand[j].row.printer
                                         \/ y.nozzle = n /\ n # None
                                         \/ y.mats \cap p.mine # {}}}

ClearAt(p, j, n, t) ==
  /\ IsWithinWorkWindow(t, p.plan.hours)
  /\ \A b \in BlocksFor(p, j, n) : t + Fact(j).len + p.plan.gap <= b.s \/ t >= b.e + p.plan.gap

(* A chosen start keeps the turnaround from every block the plan knows and from
   its own earlier placements, lies in working hours, and is the earliest such
   instant -- over every nozzle that would do, when any may be substituted. *)
PlacedAtTheEarliest ==
  \A r \in Packs :
    pack[r].at \in {"place", "switch", "commit"} =>
      LET p == pack[r]
          j == Current(p)
          own == p.cand[j].row.nozzle
          nozzles == IF p.plan.policy = "earliest" /\ own # None
                     THEN RosterOf(p, j) \cup {own} ELSE {p.pick.nozzle}
      IN  /\ ClearAt(p, j, p.pick.nozzle, p.pick.start)
          /\ \A t \in p.from + Lead .. p.pick.start - 1, n \in nozzles : ~ClearAt(p, j, n, t)

\* A real pack r follows the dry run `was` of the same plan, and nobody but r
\* has touched the board since.
CarriesOut(r, was) ==
  /\ r \in calm /\ pack[r].at = "done" /\ ~pack[r].plan.dry
  /\ was.plan = [pack[r].plan EXCEPT !.dry = TRUE]

Agree(r, was) == pack[r].placed = was.placed /\ pack[r].skipped = was.skipped

\* A job's spools are chosen by one rule in the plan and in the commit: it is of
\* one colour, and does not say of which.
ChosenAlike(j) ==
  ~Fact(j).multicolor /\ Fact(j).slots = {[fits |-> Fact(j).fits, grams |-> Fact(j).grams]}

(* A real pack that follows a dry run, with nobody else acting, places and skips
   exactly what was promised where plan and commit go by the same rules: at most
   one job has its spools chosen (the dry run does not hold what it picked) and
   that one asks for no colour (the commit does not look at it), and there are no
   resin plates (whose tank the plan reads off their pieces, the commit off the
   plate).  The code promises it of every pack ("the preview and the commit agree
   unless the board changed in between", simple-jobs.service.ts:2179-2186). *)
PreviewKeepsItsWord ==
  \A r \in Packs : \A was \in preview[r] :
    /\ CarriesOut(r, was)
    /\ pack[r].auto <= 1
    /\ \A j \in ToSet(pack[r].items) :
         /\ ~(IsBed(j) /\ IsResin(j))
         /\ pack[r].cand[j].mats = {} => IsResin(j) \/ ChosenAlike(j)
    => Agree(r, was)

\* The windows a nozzle is committed to on the board now.
BusyOf(n) == {[s |-> job[j].s, e |-> job[j].e] : j \in {i \in OnBoard : job[i].nozzle = n}}

\* foldNozzlePools: the printer's nozzles of one kind, each with its windows.
PoolOf(p, kind) ==
  LET members == InOrder({n \in Options(p) : Kind[n] = kind}, {x \in Nozzles \X Nozzles : x[1] < x[2]})
  IN  [i \in DOMAIN members |-> BusyOf(members[i])]

Covers(iv, t) == iv.s <= t /\ t < iv.e

(* The pool a board places around is busy at an instant exactly when every
   interchangeable nozzle of the printer is committed then. *)
PoolIsBusyWhenAllAre ==
  \A p \in Printers, kind \in {Kind[n] : n \in Nozzles} :
    LET pool == PoolOf(p, kind)
        busy == PoolBusyIntervals(pool)
    IN  \A t \in 0 .. Horizon :
          (\E i \in DOMAIN busy : Covers(busy[i], t))
            <=> pool # <<>> /\ \A i \in DOMAIN pool : \E iv \in pool[i] : Covers(iv, t)
=============================================================================
