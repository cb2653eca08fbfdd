----------------------------- MODULE FleetProofs -----------------------------
(***************************************************************************)
(* For every fleet, however many office requests run beside each other and *)
(* beside the shop floor: additions keep to the cap they were counted      *)
(* against, only what was being assigned at the time waits for a printer   *)
(* that is gone, no delivery is turned away where renaming is done alone,  *)
(* and a split moves material within its rounding.                         *)
(***************************************************************************)
EXTENDS Fleet, PieceLifecycleProofs, FiniteSetTheorems

USE FleetAssumption, PieceAssumption

Machine == [there : BOOLEAN, model : Models, off : BOOLEAN, maint : BOOLEAN, nozzles : SUBSET Nozzles]

Work == [op : {"none", "create", "remove", "fit", "intake", "split"},
         on : Models \cup Printers \cup Names \cup Stocks \cup {None},
         ids : SUBSET (Printers \cup Assets), out : SUBSET Nozzles,
         of : (SUBSET Nozzles) \cup Materials \cup {None}, n : Nat,
         size : UNION {[S -> Nat] : S \in SUBSET Assets}, price : Nat, under : SUBSET Nat]

\* What an office request may still write.
Proper(r) ==
  /\ r \in Work
  /\ r.op = "create" => r.ids \subseteq Printers /\ r.on \in Models
  /\ r.op = "remove" => r.on \in Printers
  /\ r.op = "fit" => r.of \in SUBSET Nozzles
  /\ r.op = "intake" => r.on \in Names \cup {None} /\ r.of \in Materials
  /\ r.op \in {"intake", "split"} => r.ids \subseteq Stocks /\ r.size \in [r.ids -> Nat]
  /\ r.op = "split" => r.on \in Stocks \ r.ids

Lot == [number : Nat \ {0}, material : Materials, name : Names \cup Nat]

MachinesOK == machine \in [Printers -> Machine]
DesksOK    == desk \in [Desks -> Work] /\ \A d \in Desks : Proper(desk[d])
LeftOK     == left \in [Stocks -> Nat]
LotsOK     == lots \subseteq Lot /\ IsFiniteSet(lots)

\* What is on record and what is under way in the office is well formed.
OfficeOK == MachinesOK /\ DesksOK /\ LeftOK /\ LotsOK

----------------------------------------------------------------------------
(* The types of the office.                                                *)

LEMMA AtRestProper == Proper(AtRest)
<1>1. [a \in {} |-> 0] \in [{} -> Nat]
  OBVIOUS
<1>2. AtRest.size \in UNION {[S -> Nat] : S \in SUBSET Assets}
  BY <1>1 DEF AtRest
<1>3. AtRest \in Work
  BY <1>2 DEF AtRest, Work
<1> QED
  BY <1>3 DEF AtRest, Proper

\* A desk goes on as a proper request.
LEMMA DeskKeeps ==
  ASSUME DesksOK, NEW d \in Desks, NEW r, Proper(r), desk' = [desk EXCEPT ![d] = r]
  PROVE  DesksOK'
BY DEF DesksOK, Proper

LEMMA DoneKeeps ==
  ASSUME DesksOK, NEW d \in Desks, Done(d)
  PROVE  DesksOK'
BY AtRestProper, DeskKeeps DEF Done

LEMMA TakeStep ==
  ASSUME OfficeOK, NEW d \in Desks, NEW r, Proper(r), Take(d, r)
  PROVE  OfficeOK'
<1>1. DesksOK'
  BY DeskKeeps DEF Take, OfficeOK
<1> QED
  BY <1>1 DEF Take, OfficeOK, MachinesOK, LeftOK, LotsOK, vars, office

\* The desk after one more unit.
LEMMA UnitStep ==
  ASSUME DesksOK, NEW d \in Desks, NEW answer \in Answers, CreateUnit(d, answer), ~Done(d)
  PROVE  \E pr \in Absent(Printers), r \in Work :
           /\ desk' = [desk EXCEPT ![d] = r] /\ Proper(r)
           /\ r.op = "create" /\ r.ids = desk[d].ids \cup {pr}
           /\ r.under \subseteq Nat /\ (r.under # {} => Enforced /\ r.under = answer.caps)
           /\ CanAddPrinter(d, answer)
<1>1. desk[d] \in Work /\ Proper(desk[d]) /\ desk[d].op = "create" /\ desk \in [Desks -> Work]
  BY DEF DesksOK, CreateUnit
<1> DEFINE under == IF Enforced THEN answer.caps ELSE {}
<1>2. PICK pr \in Absent(Printers) : desk' = [desk EXCEPT ![d].ids = @ \cup {pr}, ![d].under = under]
  BY DEF CreateUnit
<1>3. CanAddPrinter(d, answer)
  BY DEF CreateUnit
<1>4. under \subseteq Nat /\ (under # {} => Enforced /\ under = answer.caps)
  <2>1. answer.caps = {} \/ \E cap \in Caps : answer.caps = {cap}
    <3>1. \/ answer \in {[lapsed |-> TRUE, caps |-> {}], [lapsed |-> FALSE, caps |-> {}]}
          \/ \E cap \in Caps : answer = [lapsed |-> FALSE, caps |-> {cap}]
      BY DEF Answers
    <3> QED BY <3>1
  <2>2. answer.caps \subseteq Nat
    BY <2>1
  <2> QED BY <2>2
<1> HIDE DEF under
<1>5. pr \in Printers
  BY DEF Absent
<1>6. PICK mid \in Work : mid = [desk[d] EXCEPT !.ids = @ \cup {pr}]
  BY <1>1, <1>5 DEF Work
<1>7. PICK r \in Work : r = [mid EXCEPT !.under = under]
  BY <1>4 DEF Work
<1>8. /\ r.op = "create" /\ r.on = desk[d].on /\ r.ids = desk[d].ids \cup {pr} /\ r.under = under
  BY <1>1, <1>6, <1>7 DEF Work
<1>9. Proper(r)
  BY <1>1, <1>5, <1>8 DEF Proper
<1>10. desk' = [desk EXCEPT ![d] = r]
  <2>1. r = [desk[d] EXCEPT !.ids = @ \cup {pr}, !.under = under]
    BY <1>1, <1>6, <1>7 DEF Work
  <2> QED BY <1>1, <1>2, <2>1
<1> QED BY <1>3, <1>4, <1>8, <1>9, <1>10

LEMMA CreateTypes ==
  ASSUME OfficeOK, CreateNext
  PROVE  OfficeOK'
<1> USE DEF OfficeOK
<1>1. ASSUME NEW d \in Desks, NEW n \in 1..2, NEW m \in Models, OpenCreate(d, n, m)
      PROVE  OfficeOK'
  <2> DEFINE r == [AtRest EXCEPT !.op = "create", !.on = m, !.n = n]
  <2>1. AtRest \in Work /\ AtRest.ids = {} /\ n \in Nat
    BY AtRestProper DEF Proper, AtRest
  <2>2. r \in Work /\ r.op = "create" /\ r.on = m /\ r.ids = {}
    BY <2>1 DEF Work
  <2>3. Proper(r)
    BY <2>2 DEF Proper
  <2> QED
    BY <1>1, <2>3, TakeStep DEF OpenCreate
<1>2. ASSUME NEW d \in Desks, NEW answer \in Answers, CreateUnit(d, answer) PROVE OfficeOK'
  <2>1. CASE Done(d)
    BY <1>2, <2>1, DoneKeeps DEF CreateUnit, MachinesOK, LeftOK, LotsOK, vars, office
  <2>2. CASE ~Done(d)
    <3>1. DesksOK'
      BY <1>2, <2>2, UnitStep, DeskKeeps
    <3> QED
      BY <1>2, <3>1 DEF CreateUnit, MachinesOK, LeftOK, LotsOK, vars, office
  <2> QED
    BY <2>1, <2>2
<1>3. ASSUME NEW d \in Desks, CreateCommit(d) PROVE OfficeOK'
  <2>1. desk[d].on \in Models
    BY <1>3 DEF DesksOK, CreateCommit, Proper
  <2>2. MachinesOK'
    BY <1>3, <2>1 DEF CreateCommit, MachinesOK, Machine
  <2> QED
    BY <1>3, <2>2, DoneKeeps DEF CreateCommit, LeftOK, LotsOK, vars
<1> QED
  BY <1>1, <1>2, <1>3 DEF CreateNext

LEMMA PrinterTypes ==
  ASSUME OfficeOK, PrinterNext
  PROVE  OfficeOK'
<1> USE DEF OfficeOK
<1>1. ASSUME NEW pr \in Printers, NEW off \in BOOLEAN \cup {None}, NEW maint \in BOOLEAN \cup {None},
             UpdatePrinterStock(pr, off, maint)
      PROVE  OfficeOK'
  <2> DEFINE offNow   == IF maint = TRUE THEN TRUE ELSE IF off = None THEN machine[pr].off ELSE off
             maintNow == IF maint = None THEN machine[pr].maint ELSE maint
  <2>1. machine' = [machine EXCEPT ![pr].off = offNow, ![pr].maint = maintNow]
    BY <1>1 DEF UpdatePrinterStock
  <2>2. offNow \in BOOLEAN /\ maintNow \in BOOLEAN
    BY DEF MachinesOK, Machine
  <2> HIDE DEF offNow, maintNow
  <2> DEFINE row == [machine[pr] EXCEPT !.off = offNow, !.maint = maintNow]
  <2>3. MachinesOK'
    <3>1. row \in Machine
      <4>1. PICK old \in Machine : old = machine[pr]
        BY DEF MachinesOK
      <4>2. PICK mid \in Machine : mid = [old EXCEPT !.off = offNow]
        BY <2>2 DEF Machine
      <4>3. [mid EXCEPT !.maint = maintNow] \in Machine
        BY <2>2 DEF Machine
      <4>4. row = [mid EXCEPT !.maint = maintNow]
        BY <4>1, <4>2 DEF Machine
      <4> QED BY <4>3, <4>4
    <3>2. machine' = [machine EXCEPT ![pr] = row]
      BY <2>1 DEF MachinesOK, Machine
    <3> HIDE DEF row
    <3> QED BY <3>1, <3>2 DEF MachinesOK
  <2> QED
    BY <1>1, <2>3 DEF UpdatePrinterStock, DesksOK, LeftOK, LotsOK
<1>2. ASSUME NEW d \in Desks, DeleteTx(d) PROVE OfficeOK'
  <2>1. /\ desk[d].on \in Printers
        /\ machine' = [machine EXCEPT ![desk[d].on].there = FALSE, ![desk[d].on].nozzles = {}]
    BY <1>2 DEF DeleteTx, DesksOK, Proper
  <2>2. MachinesOK'
    BY <2>1, ZenonT(40) DEF MachinesOK, Machine
  <2> QED
    BY <1>2, <2>2, DoneKeeps DEF DeleteTx, LeftOK, LotsOK
<1>3. ASSUME NEW d \in Desks, NEW pr \in Printers, DeleteCheck(d, pr) PROVE OfficeOK'
  <2> DEFINE r == [AtRest EXCEPT !.op = "remove", !.on = pr]
  <2>1. AtRest \in Work
    BY AtRestProper DEF Proper
  <2>2. r \in Work /\ r.op = "remove" /\ r.on = pr
    BY <2>1 DEF Work, AtRest
  <2>3. Proper(r)
    BY <2>2 DEF Proper
  <2> QED
    BY <1>3, <2>3, TakeStep DEF DeleteCheck
<1> QED
  BY <1>1, <1>2, <1>3 DEF PrinterNext

LEMMA NozzleTypes ==
  ASSUME OfficeOK, NozzleNext
  PROVE  OfficeOK'
<1> USE DEF OfficeOK
<1>1. ASSUME NEW pr \in Printers, NEW m \in Models, UpdatePrinter(pr, m) PROVE OfficeOK'
  <2>1. MachinesOK'
    BY <1>1 DEF UpdatePrinter, MachinesOK, Machine
  <2> QED
    BY <1>1, <2>1 DEF UpdatePrinter, DesksOK, LeftOK, LotsOK, vars
<1>2. ASSUME NEW pr \in Printers, NEW nozzle \in Nozzles, Unfit(pr, nozzle) PROVE OfficeOK'
  <2>1. MachinesOK'
    BY <1>2 DEF Unfit, MachinesOK, Machine
  <2> QED
    BY <1>2, <2>1 DEF Unfit, DesksOK, LeftOK, LotsOK, vars
<1>3. ASSUME NEW d \in Desks, NEW pr \in Printers, NEW add \in SUBSET Nozzles, NEW remove \in SUBSET Nozzles,
             NEW wide \in BOOLEAN, Fit(d, pr, add, remove, wide)
      PROVE  OfficeOK'
  <2> DEFINE targets == {pr} \cup IF wide THEN {q \in Siblings(pr) : ~Resinous(q)} ELSE {}
             r == [AtRest EXCEPT !.op = "fit", !.on = pr, !.out = remove, !.of = add, !.ids = targets]
  <2>1. AtRest \in Work
    BY AtRestProper DEF Proper
  <2>2. targets \subseteq Printers
    BY DEF Siblings, There
  <2>3. Take(d, r)
    BY <1>3 DEF Fit
  <2> HIDE DEF targets
  <2>4. r \in Work /\ r.op = "fit" /\ r.of = add
    BY <2>1, <2>2 DEF Work, AtRest
  <2>5. Proper(r)
    BY <2>4 DEF Proper
  <2> QED
    BY <2>3, <2>5, TakeStep
<1>4. ASSUME NEW d \in Desks, FitTx(d) PROVE OfficeOK'
  <2>1. desk[d].of \in SUBSET Nozzles
    BY <1>4 DEF FitTx, DesksOK, Proper
  <2>2. MachinesOK'
    BY <1>4, <2>1 DEF FitTx, MachinesOK, Machine
  <2> QED
    BY <1>4, <2>2, DoneKeeps DEF FitTx, LeftOK, LotsOK, vars
<1> QED
  BY <1>1, <1>2, <1>3, <1>4 DEF NozzleNext

LEMMA LotTypes ==
  ASSUME OfficeOK, LotNext
  PROVE  OfficeOK'
<1> USE DEF OfficeOK
<1>1. ASSUME NEW d \in Desks, NEW ids \in SUBSET Spools, NEW name \in Names \cup {None}, NEW m \in Materials,
             NEW size \in Sizes, NEW price \in Prices, IntakeLook(d, ids, name, m, size, price)
      PROVE  OfficeOK'
  <2> DEFINE n == LET l == LotOf(name, m) IN IF l = {} THEN 0 ELSE (CHOOSE x \in l : TRUE).number
             sizes == [a \in ids |-> size]
             r == [AtRest EXCEPT !.op = "intake", !.ids = ids, !.on = name, !.of = m, !.n = n,
                                 !.size = sizes, !.price = price]
  <2>1. AtRest \in Work
    BY AtRestProper DEF Proper
  <2>2. n \in Nat
    <3>1. LotOf(name, m) \subseteq Lot
      BY DEF LotOf, LotsOK
    <3>2. \A l \in Lot : l.number \in Nat
      BY DEF Lot
    <3> QED
      BY <3>1, <3>2
  <2>3. sizes \in [ids -> Nat] /\ price \in Nat /\ ids \in SUBSET Assets /\ ids \subseteq Stocks
    BY DEF Assets, Stocks
  <2>4. sizes \in UNION {[S -> Nat] : S \in SUBSET Assets}
    BY <2>3
  <2>5. Take(d, r)
    BY <1>1 DEF IntakeLook
  <2> HIDE DEF n, sizes
  <2>6. r \in Work /\ r.op = "intake" /\ r.on = name /\ r.of = m /\ r.ids = ids /\ r.size = sizes
    BY <2>1, <2>2, <2>3, <2>4 DEF Work, AtRest
  <2>7. Proper(r)
    BY <2>3, <2>6 DEF Proper
  <2> QED
    BY <2>5, <2>7, TakeStep
<1>2. ASSUME NEW d \in Desks, IntakeTx(d) PROVE OfficeOK'
  <2> DEFINE r == desk[d]
             number == Cardinality(lots) + 1
             lot == [number |-> number, material |-> r.of, name |-> IF r.on = None THEN number ELSE r.on]
  <2>1. r.on \in Names \cup {None} /\ r.of \in Materials /\ r.ids \subseteq Stocks /\ r.size \in [r.ids -> Nat]
    BY <1>2 DEF IntakeTx, DesksOK, Proper
  <2>2. LeftOK'
    BY <1>2, <2>1 DEF IntakeTx, LeftOK
  <2>3. LotsOK'
    <3>1. number \in Nat \ {0}
      BY FS_CardinalityType DEF LotsOK
    <3>2. lot \in Lot
      BY <2>1, <3>1 DEF Lot
    <3>3. lots' \in {lots, lots \cup {lot}}
      BY <1>2 DEF IntakeTx
    <3> HIDE DEF lot
    <3> QED
      BY <3>2, <3>3, FS_AddElement DEF LotsOK
  <2> QED
    BY <1>2, <2>2, <2>3, DoneKeeps DEF IntakeTx, MachinesOK
<1>3. ASSUME NEW l \in lots, NEW name \in Names, RenameAssetBatch(l, name) PROVE OfficeOK'
  <2> DEFINE renamed == [l EXCEPT !.name = name]
  <2>1. l \in Lot
    BY DEF LotsOK
  <2>2. renamed \in Lot
    BY <2>1 DEF Lot
  <2>3. lots' = (lots \ {l}) \cup {renamed}
    BY <1>3 DEF RenameAssetBatch
  <2> HIDE DEF renamed
  <2>4. LotsOK'
    BY <2>2, <2>3, FS_AddElement, FS_RemoveElement DEF LotsOK
  <2> QED
    BY <1>3, <2>4 DEF RenameAssetBatch, MachinesOK, DesksOK, LeftOK, vars
<1> QED
  BY <1>1, <1>2, <1>3 DEF LotNext

LEMMA SplitTypes ==
  ASSUME OfficeOK, SplitNext
  PROVE  OfficeOK'
<1> USE DEF OfficeOK
<1>1. ASSUME NEW d \in Desks, NEW s \in Stocks, NEW a \in Stocks, NEW b \in Stocks,
             NEW x \in Nat, NEW y \in Nat, SplitRead(d, s, [c \in {a, b} |-> IF c = a THEN x ELSE y])
      PROVE  OfficeOK'
  <2> DEFINE parts == [c \in {a, b} |-> IF c = a THEN x ELSE y]
             r == [AtRest EXCEPT !.op = "split", !.on = s, !.ids = DOMAIN parts, !.size = parts,
                                 !.n = left[s]]
  <2>1. AtRest \in Work
    BY AtRestProper DEF Proper
  <2>2. left[s] \in Nat
    BY DEF LeftOK
  <2>3. parts \in [{a, b} -> Nat] /\ {a, b} \in SUBSET Assets /\ {a, b} \subseteq Stocks /\ DOMAIN parts = {a, b}
    BY <2>2 DEF Assets
  <2>4. parts \in UNION {[S -> Nat] : S \in SUBSET Assets}
    BY <2>3
  <2>5. Take(d, r)
    BY <1>1 DEF SplitRead
  <2> HIDE DEF parts
  <2>6. r \in Work /\ r.op = "split" /\ r.on = s /\ r.ids = {a, b} /\ r.size = parts
    BY <2>1, <2>2, <2>3, <2>4 DEF Work, AtRest
  <2>7. s \notin {a, b}
    <3>1. s \in There(Stocks) /\ {a, b} \subseteq IF s \in Spools THEN Absent(Spools) ELSE Absent(Tanks)
      BY <1>1 DEF SplitRead
    <3> QED BY <3>1 DEF There, Absent
  <2>8. Proper(r)
    BY <2>3, <2>6, <2>7 DEF Proper
  <2> QED
    BY <2>5, <2>8, TakeStep
<1>2. ASSUME NEW d \in Desks, SplitTx(d) PROVE OfficeOK'
  <2>1. desk[d].size \in [desk[d].ids -> Nat]
    BY <1>2 DEF SplitTx, DesksOK, Proper
  <2>2. LeftOK'
    BY <1>2, <2>1 DEF SplitTx, LeftOK
  <2> QED
    BY <1>2, <2>2, DoneKeeps DEF SplitTx, MachinesOK, LotsOK
<1>3. ASSUME NEW d \in Desks, SplitFails(d) PROVE OfficeOK'
  BY <1>3, DoneKeeps DEF SplitFails, MachinesOK, LeftOK, LotsOK, vars, office
<1>4. PICK d \in Desks :
        \/ \E s \in There(Stocks), a, b \in Absent(Stocks) : \E x, y \in 1..(left[s] + Slack) :
             a # b /\ SplitRead(d, s, [c \in {a, b} |-> IF c = a THEN x ELSE y])
        \/ SplitTx(d) \/ SplitFails(d)
  BY DEF SplitNext
<1>5. CASE \E s \in There(Stocks), a, b \in Absent(Stocks) : \E x, y \in 1..(left[s] + Slack) :
             a # b /\ SplitRead(d, s, [c \in {a, b} |-> IF c = a THEN x ELSE y])
  <2>1. PICK s \in There(Stocks), a \in Absent(Stocks), b \in Absent(Stocks) :
             \E x, y \in 1..(left[s] + Slack) :
               a # b /\ SplitRead(d, s, [c \in {a, b} |-> IF c = a THEN x ELSE y])
    BY <1>5
  <2>2. PICK x \in 1..(left[s] + Slack), y \in 1..(left[s] + Slack) :
             a # b /\ SplitRead(d, s, [c \in {a, b} |-> IF c = a THEN x ELSE y])
    BY <2>1
  <2>3. s \in Stocks /\ a \in Stocks /\ b \in Stocks /\ x \in Nat /\ y \in Nat
    BY DEF There, Absent
  <2> QED
    BY <2>2, <2>3, <1>1, SMTT(30)
<1> QED
  BY <1>2, <1>3, <1>4, <1>5

LEMMA StockTypes ==
  ASSUME OfficeOK, DeleteNext \/ CorrectNext
  PROVE  OfficeOK'
<1> USE DEF OfficeOK
<1>1. ASSUME NEW a \in Assets, DeleteAsset(a) PROVE OfficeOK'
  <2>1. MachinesOK'
    BY <1>1 DEF DeleteAsset, MachinesOK, Machine
  <2>2. LeftOK'
    BY <1>1 DEF DeleteAsset, LeftOK
  <2> QED
    BY <1>1, <2>1, <2>2 DEF DeleteAsset, DesksOK, LotsOK
<1>2. ASSUME NEW a \in Assets, NEW size \in Sizes, NEW price \in Prices, UpdateAsset(a, size, price)
      PROVE  OfficeOK'
  BY <1>2 DEF UpdateAsset, MachinesOK, DesksOK, LeftOK, LotsOK, vars
<1>3. ASSUME NEW s \in Stocks, NEW used \in BOOLEAN, NEW g \in Sizes \cup {0, left[s]},
             UpdateAssetStock(s, g, used)
      PROVE  OfficeOK'
  <2>1. g \in Nat
    BY DEF LeftOK
  <2> QED
    BY <1>3, <2>1 DEF UpdateAssetStock, MachinesOK, DesksOK, LeftOK, LotsOK
<1>4. ASSUME NEW ids, NEW size \in Nat, NEW price, NEW m, Purchase(ids, size, price, m) PROVE OfficeOK'
  BY <1>4 DEF Purchase, MachinesOK, DesksOK, LeftOK, LotsOK
<1>5. \A size \in Sizes : size \in Nat
  OBVIOUS
<1> QED
  BY <1>1, <1>2, <1>3, <1>4, <1>5 DEF DeleteNext, CorrectNext, CreateResinTank, CreateNozzle

\* On the shop floor stock is used and nothing else of the office is touched.
LEMMA ShopTypes ==
  ASSUME OfficeOK, BookingInv, ShopNext
  PROVE  OfficeOK'
<1>1. LeftOK'
  <2>1. ASSUME NEW w \in Workers, ShopCall(w) PROVE UNCHANGED left
    BY <2>1 DEF ShopCall, Assign, Reserve, Schedule, Start, Complete, Begin, world
  <2>2. ASSUME NEW w \in Workers, CompleteTx(w) PROVE LeftOK'
    <3>1. req[w].p \in Pieces
      BY <2>2 DEF CompleteTx, At, BookingInv, RequestsOK, Sound
    <3> QED
      BY <2>2, <3>1 DEF CompleteTx, Consumed, Monus, OfficeOK, LeftOK
  <2>3. ASSUME NEW w \in Workers, ShopProceed(w) PROVE LeftOK'
    BY <2>2, <2>3 DEF ShopProceed, world, AssignWrite, AssignReload, AssignStatus, ReserveTx, ScheduleCheck,
       ScheduleWrite, StartCheck, ShopStartTx, CompleteWrite, SyncRead, SyncWrite, OfficeOK, LeftOK
  <2>4. ASSUME NEW c \in clock.due, ClockComplete(c[1], c[2]) PROVE LeftOK'
    <3>1. c[1] \in Pieces
      BY DEF BookingInv, ClockOK
    <3> QED
      BY <2>4, <3>1 DEF ClockComplete, Monus, OfficeOK, LeftOK
  <2>5. CASE ShopAdvance \/ ClockSelect \/ TimePasses
    BY <2>5 DEF ShopAdvance, ClockSelect, TimePasses, world, OfficeOK, LeftOK
  <2> QED
    BY <2>1, <2>3, <2>4, <2>5 DEF ShopNext, CompleteOne, OfficeOK, LeftOK
<1> QED
  BY <1>1 DEF ShopNext, office, OfficeOK, MachinesOK, DesksOK, LotsOK

----------------------------------------------------------------------------
(* The cap of the licence.                                                 *)

\* One request at a time adds printers, and those it has added so far fit
\* beside the ones there are under the cap that the last was counted against:
\* inductive, since the recount sees both and nobody else adds any.
CapInv ==
  /\ \A d, e \in Desks : desk[d].op = "create" /\ desk[e].op = "create" => d = e
  /\ \A d \in Desks : desk[d].op = "create" =>
       \A cap \in desk[d].under : Cardinality(There(Printers)) + Cardinality(desk[d].ids) <= cap

LEMMA ThereAre ==
  /\ There(Printers) = {pr \in Printers : machine[pr].there}
  /\ There(Printers)' = {pr \in Printers : machine'[pr].there}
BY DEF There

LEMMA Counted ==
  ASSUME NEW S \in SUBSET Printers
  PROVE  IsFiniteSet(S) /\ Cardinality(S) \in Nat
BY FS_Subset, FS_CardinalityType

LEMMA FewerFit ==
  ASSUME NEW S \in SUBSET Printers, NEW T \in SUBSET S
  PROVE  Cardinality(T) <= Cardinality(S)
BY Counted, FS_Subset

\* What adds no printer and no unit keeps within the cap.
LEMMA CapKept ==
  ASSUME OfficeOK, CapInv, NEW T, T = There(Printers)', T \subseteq There(Printers),
         \A d \in Desks : desk'[d].op = "create" => desk'[d] = desk[d]
  PROVE  CapInv'
<1>1. There(Printers) \in SUBSET Printers /\ T \in SUBSET There(Printers) /\ T \in SUBSET Printers
  BY DEF There
<1>2. /\ Cardinality(T) <= Cardinality(There(Printers))
      /\ Cardinality(T) \in Nat /\ Cardinality(There(Printers)) \in Nat
  BY <1>1, FewerFit, Counted
<1>3. \A d \in Desks : desk[d].op = "create" => Cardinality(desk[d].ids) \in Nat
  BY Counted DEF OfficeOK, DesksOK, Proper
<1>4. ASSUME NEW d \in Desks, desk'[d].op = "create", NEW cap \in desk'[d].under
      PROVE  Cardinality(T) + Cardinality(desk'[d].ids) <= cap
  <2>1. desk[d] \in Work /\ desk[d].op = "create" /\ desk'[d] = desk[d] /\ cap \in Nat
    BY <1>4 DEF OfficeOK, DesksOK, Work
  <2>2. Cardinality(There(Printers)) + Cardinality(desk[d].ids) <= cap
    BY <1>4, <2>1 DEF CapInv
  <2> QED
    BY <1>2, <1>3, <2>1, <2>2
<1> QED
  BY <1>4 DEF CapInv

LEMMA CreateKeepsCap ==
  ASSUME OfficeOK, CapInv, CreateNext
  PROVE  CapInv'
<1> DEFINE T == There(Printers)
<1>0. T \in SUBSET Printers /\ Cardinality(T) \in Nat
  BY Counted DEF There
<1>1. ASSUME NEW d \in Desks, NEW n \in 1..2, NEW m \in Models, OpenCreate(d, n, m)
      PROVE  CapInv'
  <2>1. /\ UNCHANGED machine
        /\ \A e \in Desks : desk[e].op # "create"
        /\ desk' = [desk EXCEPT ![d] = [AtRest EXCEPT !.op = "create", !.on = m, !.n = n]]
    BY <1>1 DEF OpenCreate, Take, office
  <2>2. desk'[d].under = {} /\ \A e \in Desks \ {d} : desk'[e] = desk[e]
    BY <2>1 DEF AtRest, OfficeOK, DesksOK
  <2>3. \A e \in Desks : desk'[e].op = "create" => e = d
    BY <2>1, <2>2
  <2> QED
    BY <2>2, <2>3 DEF CapInv
<1>2. ASSUME NEW d \in Desks, NEW answer \in Answers, CreateUnit(d, answer) PROVE CapInv'
  <2>1. UNCHANGED machine /\ desk[d].op = "create"
    BY <1>2 DEF CreateUnit, office
  <2>2. There(Printers)' = There(Printers)
    BY <2>1, ThereAre
  <2>3. CASE Done(d)
    BY <1>0, <2>2, <2>3, CapKept DEF Done, AtRest, OfficeOK, DesksOK
  <2>4. CASE ~Done(d)
    <3>1. PICK pr \in Absent(Printers), r \in Work :
             /\ desk' = [desk EXCEPT ![d] = r] /\ Proper(r)
             /\ r.op = "create" /\ r.ids = desk[d].ids \cup {pr}
             /\ r.under \subseteq Nat /\ (r.under # {} => Enforced /\ r.under = answer.caps)
             /\ CanAddPrinter(d, answer)
      BY <1>2, <2>4, UnitStep DEF OfficeOK
    <3>2. /\ desk'[d].ids = desk[d].ids \cup {pr} /\ desk'[d].under = r.under
          /\ \A e \in Desks \ {d} : desk'[e] = desk[e]
      BY <3>1 DEF OfficeOK, DesksOK
    <3>3. desk[d].ids \in SUBSET Printers
      BY <2>1 DEF OfficeOK, DesksOK, Proper
    <3>4. Cardinality(desk[d].ids) \in Nat /\ Cardinality(desk'[d].ids) <= Cardinality(desk[d].ids) + 1
      <4>1. IsFiniteSet(desk[d].ids) /\ Cardinality(desk[d].ids) \in Nat
        BY <3>3, Counted
      <4>2. Cardinality(desk[d].ids \cup {pr}) =
              IF pr \in desk[d].ids THEN Cardinality(desk[d].ids) ELSE Cardinality(desk[d].ids) + 1
        BY <4>1, FS_AddElement
      <4> QED
        BY <3>2, <4>1, <4>2
    <3>5. Cardinality(desk'[d].ids) \in Nat
      BY <3>2, <3>3, Counted DEF Absent
    <3>6. ASSUME NEW cap \in r.under PROVE Cardinality(T) + Cardinality(desk'[d].ids) <= cap
      <4>1. cap \in Nat /\ Cardinality(T) + Cardinality(desk[d].ids) + 1 <= cap
        BY <3>1, <3>6 DEF CanAddPrinter
      <4> QED
        BY <1>0, <3>4, <3>5, <4>1
    <3>7. \A e \in Desks \ {d} : desk[e].op # "create"
      BY <2>1 DEF CapInv
    <3> QED
      BY <2>2, <3>2, <3>6, <3>7 DEF CapInv
  <2> QED
    BY <2>3, <2>4
<1>3. ASSUME NEW d \in Desks, CreateCommit(d) PROVE CapInv'
  <2>1. desk[d].op = "create"
    BY <1>3 DEF CreateCommit
  <2>2. \A e \in Desks : desk'[e].op # "create"
    BY <1>3, <2>1 DEF CreateCommit, Done, AtRest, CapInv, OfficeOK, DesksOK
  <2> QED
    BY <2>2 DEF CapInv
<1> QED
  BY <1>1, <1>2, <1>3 DEF CreateNext

\* What is committed was counted.
LEMMA CommitKeepsToTheCap ==
  ASSUME OfficeOK, CapInv, NEW d \in Desks, CreateCommit(d), NEW cap \in desk[d].under
  PROVE  Cardinality(There(Printers)') <= cap
<1> DEFINE ids == desk[d].ids
           T == There(Printers)
           U == There(Printers)'
<1>0. T \in SUBSET Printers /\ Cardinality(T) \in Nat
  BY Counted DEF There
<1>1. desk[d].op = "create" /\ ids \in SUBSET Printers /\ Cardinality(ids) \in Nat
  BY Counted DEF CreateCommit, OfficeOK, DesksOK, Proper
<1>2. \A pr \in Printers : machine'[pr].there => pr \in ids \/ machine[pr].there
  BY DEF CreateCommit
<1>3. U \in SUBSET (T \cup ids)
  BY <1>2, ThereAre
<1>4. Cardinality(U) <= Cardinality(T \cup ids) /\ Cardinality(U) \in Nat /\ Cardinality(T \cup ids) \in Nat
  BY <1>0, <1>1, <1>3, FewerFit, Counted
<1>5. Cardinality(T \cup ids) <= Cardinality(T) + Cardinality(ids)
  <2>1. IsFiniteSet(T) /\ IsFiniteSet(ids) /\ Cardinality(T \cap ids) \in Nat
    BY <1>0, <1>1, Counted
  <2>2. Cardinality(T \cup ids) = Cardinality(T) + Cardinality(ids) - Cardinality(T \cap ids)
    BY <2>1, FS_Union
  <2> QED
    BY <1>0, <1>1, <1>4, <2>1, <2>2
<1>6. Cardinality(T) + Cardinality(ids) <= cap /\ cap \in Nat
  BY <1>1 DEF CapInv, OfficeOK, DesksOK, Work
<1> QED
  BY <1>0, <1>1, <1>4, <1>5, <1>6

\* A step of one desk that is not about adding printers, and adds none.
LEMMA ElsewhereKeepsCap ==
  ASSUME OfficeOK, CapInv, NEW d \in Desks, NEW r, r.op # "create", desk' = [desk EXCEPT ![d] = r],
         \A pr \in Printers : machine'[pr].there => machine[pr].there
  PROVE  CapInv'
BY CapKept, ThereAre DEF OfficeOK, DesksOK

LEMMA TakeKeepsCap ==
  ASSUME OfficeOK, CapInv, NEW d \in Desks, NEW r, r.op # "create", Take(d, r)
  PROVE  CapInv'
BY ElsewhereKeepsCap DEF Take, office

LEMMA DoneKeepsCap ==
  ASSUME OfficeOK, CapInv, NEW d \in Desks, Done(d),
         \A pr \in Printers : machine'[pr].there => machine[pr].there
  PROVE  CapInv'
<1>1. AtRest.op # "create"
  BY DEF AtRest
<1> QED
  BY <1>1, ElsewhereKeepsCap DEF Done

\* A step of no desk that adds no printer.
LEMMA DesklessKeepsCap ==
  ASSUME OfficeOK, CapInv, UNCHANGED desk,
         \A pr \in Printers : machine'[pr].there => machine[pr].there
  PROVE  CapInv'
BY CapKept, ThereAre

LEMMA OthersKeepCap ==
  ASSUME OfficeOK, CapInv, PrinterNext \/ NozzleNext \/ LotNext \/ SplitNext \/ DeleteNext \/ CorrectNext \/ ShopNext
  PROVE  CapInv'
<1>0. machine \in [Printers -> Machine]
  BY DEF OfficeOK, MachinesOK
<1>1. CASE PrinterNext
  <2>1. ASSUME NEW pr \in Printers, NEW off, NEW maint, UpdatePrinterStock(pr, off, maint) PROVE CapInv'
    BY <1>0, <2>1, DesklessKeepsCap DEF UpdatePrinterStock, Machine
  <2>2. ASSUME NEW d \in Desks, DeleteTx(d) PROVE CapInv'
    BY <1>0, <2>2, DoneKeepsCap DEF DeleteTx, Machine
  <2>3. ASSUME NEW d \in Desks, NEW pr \in Printers, DeleteCheck(d, pr) PROVE CapInv'
    <3>1. [AtRest EXCEPT !.op = "remove", !.on = pr].op # "create"
      BY DEF AtRest
    <3> QED
      BY <2>3, <3>1, TakeKeepsCap DEF DeleteCheck
  <2> QED
    BY <1>1, <2>1, <2>2, <2>3 DEF PrinterNext
<1>2. CASE NozzleNext
  <2>1. ASSUME NEW pr \in Printers, NEW m, UpdatePrinter(pr, m) PROVE CapInv'
    BY <1>0, <2>1, DesklessKeepsCap DEF UpdatePrinter, Machine
  <2>2. ASSUME NEW pr \in Printers, NEW nozzle, Unfit(pr, nozzle) PROVE CapInv'
    BY <1>0, <2>2, DesklessKeepsCap DEF Unfit, Machine
  <2>3. ASSUME NEW d \in Desks, NEW pr, NEW add, NEW remove, NEW wide, Fit(d, pr, add, remove, wide)
        PROVE  CapInv'
    <3> DEFINE targets == {pr} \cup IF wide THEN {q \in Siblings(pr) : ~Resinous(q)} ELSE {}
               r == [AtRest EXCEPT !.op = "fit", !.on = pr, !.out = remove, !.of = add, !.ids = targets]
    <3>1. Take(d, r)
      BY <2>3 DEF Fit
    <3> HIDE DEF targets
    <3>2. r.op # "create"
      BY DEF AtRest
    <3> QED
      BY <3>1, <3>2, TakeKeepsCap
  <2>4. ASSUME NEW d \in Desks, FitTx(d) PROVE CapInv'
    BY <1>0, <2>4, DoneKeepsCap DEF FitTx, Machine
  <2> QED
    BY <1>2, <2>1, <2>2, <2>3, <2>4 DEF NozzleNext
<1>3. CASE LotNext
  <2>1. ASSUME NEW d \in Desks, NEW ids, NEW name, NEW m, NEW size, NEW price,
               IntakeLook(d, ids, name, m, size, price)
        PROVE  CapInv'
    <3> DEFINE n == LET l == LotOf(name, m) IN IF l = {} THEN 0 ELSE (CHOOSE x \in l : TRUE).number
               r == [AtRest EXCEPT !.op = "intake", !.ids = ids, !.on = name, !.of = m, !.n = n,
                                   !.size = [a \in ids |-> size], !.price = price]
    <3>1. Take(d, r)
      BY <2>1 DEF IntakeLook
    <3> HIDE DEF n
    <3>2. r.op # "create"
      BY DEF AtRest
    <3> QED
      BY <3>1, <3>2, TakeKeepsCap
  <2>2. ASSUME NEW d \in Desks, IntakeTx(d) PROVE CapInv'
    BY <2>2, DoneKeepsCap DEF IntakeTx
  <2>3. ASSUME NEW l, NEW name, RenameAssetBatch(l, name) PROVE CapInv'
    BY <2>3, DesklessKeepsCap DEF RenameAssetBatch
  <2> QED
    BY <1>3, <2>1, <2>2, <2>3 DEF LotNext
<1>4. CASE SplitNext
  <2>1. ASSUME NEW d \in Desks, NEW s, NEW parts, SplitRead(d, s, parts) PROVE CapInv'
    <3> DEFINE r == [AtRest EXCEPT !.op = "split", !.on = s, !.ids = DOMAIN parts, !.size = parts, !.n = left[s]]
    <3>1. Take(d, r)
      BY <2>1 DEF SplitRead
    <3>2. r.op # "create"
      BY DEF AtRest
    <3> QED
      BY <3>1, <3>2, TakeKeepsCap
  <2>2. ASSUME NEW d \in Desks, SplitTx(d) \/ SplitFails(d) PROVE CapInv'
    BY <2>2, DoneKeepsCap DEF SplitTx, SplitFails, office
  <2> QED
    BY <1>4, <2>1, <2>2 DEF SplitNext
<1>5. CASE DeleteNext \/ CorrectNext
  <2>1. ASSUME NEW a \in Assets, DeleteAsset(a) PROVE CapInv'
    BY <1>0, <2>1, DesklessKeepsCap DEF DeleteAsset, Machine
  <2>2. CASE CorrectNext
    BY <2>2, DesklessKeepsCap DEF CorrectNext, UpdateAsset, UpdateAssetStock, CreateResinTank, CreateNozzle,
                                  Purchase, office
  <2> QED
    BY <1>5, <2>1, <2>2 DEF DeleteNext
<1>6. CASE ShopNext
  BY <1>6, DesklessKeepsCap DEF ShopNext, office
<1> QED
  BY <1>1, <1>2, <1>3, <1>4, <1>5, <1>6

----------------------------------------------------------------------------
(* The shop floor of the fleet keeps its rows whole.                       *)

LEMMA ShopKeepsBooking ==
  ASSUME BookingInv, ShopNext
  PROVE  BookingInv'
<1>0. piece \in [Pieces -> Row] /\ \A q \in Pieces : ChecksHold(q, piece[q])
  BY DEF BookingInv, RowsOK
<1>1. ASSUME NEW w \in Workers, ShopCall(w) PROVE BookingInv'
  <2>1. There(Printers) \subseteq Printers /\ Inventory(Tanks) \subseteq Tanks /\ Inventory(Spools) \subseteq Spools
    BY DEF There, Inventory
  <2>2. Call(w)
    BY <1>1, <2>1 DEF ShopCall, Call
  <2> QED
    BY <2>2, CallStep
<1>2. ASSUME NEW w \in Workers, ShopStartTx(w) PROVE BookingInv'
  <2>1. req[w].p \in Pieces
    BY <1>2 DEF ShopStartTx, At, BookingInv, RequestsOK, Sound
  <2>2. [piece EXCEPT ![req[w].p].status = "printing"] \in [Pieces -> Row]
    BY <1>0, <2>1 DEF Row, Rollup!PieceStatus
  <2> QED
    BY <1>2, <2>2, WriteStep DEF ShopStartTx
<1>3. ASSUME NEW w \in Workers, ShopProceed(w) PROVE BookingInv'
  <2>1. CASE Goto(w, "idle") /\ UNCHANGED <<world, now, clock, charged>>
    BY <2>1, QuietStep DEF world, BookingInv, OrdersOK
  <2>2. CASE Proceed(w)
    BY <2>2, ProceedStep
  <2> QED
    BY <1>2, <1>3, <2>1, <2>2 DEF ShopProceed, Proceed
<1>4. CASE ShopAdvance
  <2> DEFINE due == {p \in Pieces : /\ piece[p].status = "scheduled"
                                   /\ Windowed(piece[p])
                                   /\ piece[p].from <= now}
             rows == [p \in Pieces |-> IF p \in due THEN [piece[p] EXCEPT !.status = "printing"]
                                                    ELSE piece[p]]
  <2>1. rows \in [Pieces -> Row]
    BY <1>0, RowFields DEF Rollup!PieceStatus
  <2>2. \A q \in Pieces : /\ ChecksHold(q, rows[q])
                          /\ rows[q].status \in Busy =>
                               /\ piece[q].status \in Busy
                               /\ rows[q].printer = piece[q].printer
                               /\ rows[q].from = piece[q].from
                               /\ rows[q].to = piece[q].to
    <3> TAKE q \in Pieces
    <3>1. CASE q \in due
      BY <1>0, <3>1 DEF Row, ChecksHold, CoreData, Busy
    <3>2. CASE q \notin due
      BY <1>0, <3>2
    <3> QED
      BY <3>1, <3>2
  <2>3. Put(rows)
    BY <1>4 DEF ShopAdvance
  <2>4. Tables'
    BY <2>1, <2>2, <2>3, PutKeeps DEF BookingInv, Tables
  <2>5. ClockOK'
    BY <1>4 DEF ShopAdvance, BookingInv, ClockOK
  <2> QED
    BY <1>4, <2>4, <2>5 DEF ShopAdvance, BookingInv, Tables, RequestsOK, OrdersOK
<1>5. CASE ClockSelect \/ CompleteOne
  BY <1>5, TickStep DEF Tick
<1>6. CASE TimePasses
  BY <1>6 DEF TimePasses, world, BookingInv, RowsOK, RequestsOK, ClockOK, OrdersOK
<1> QED
  BY <1>1, <1>3, <1>4, <1>5, <1>6 DEF ShopNext

\* What is written to the rows from the office.
LEMMA OfficePut ==
  ASSUME BookingInv, NEW rows \in [Pieces -> Row], Put(rows), UNCHANGED <<req, clock>>, OrdersOK',
         \A p \in Pieces : ChecksHold(p, rows[p]) /\ (rows[p].status \in Busy => rows[p] = piece[p])
  PROVE  BookingInv'
<1>1. Tables'
  BY PutKeeps DEF BookingInv, Tables
<1> QED
  BY <1>1 DEF BookingInv, Tables, RequestsOK, ClockOK

LEMMA RevertedRows ==
  ASSUME BookingInv, NEW pr
  PROVE  /\ Reverted(pr) \in [Pieces -> Row]
         /\ \A p \in Pieces :
              IF piece[p].printer = pr /\ piece[p].status \in Waiting
              THEN Reverted(pr)[p].status = "pending" /\ Reverted(pr)[p].printer = None
              ELSE Reverted(pr)[p] = piece[p]
<1>1. piece \in [Pieces -> Row] /\ "pending" \in Rollup!PieceStatus
  BY DEF BookingInv, RowsOK, Rollup!PieceStatus
<1>2. ASSUME NEW p \in Pieces
      PROVE  LET row == [Unbooked(WithoutSpool(p, piece[p])) EXCEPT !.status = "pending", !.printer = None]
             IN  row \in Row /\ row.status = "pending" /\ row.printer = None
  <2>1. Unbooked(WithoutSpool(p, piece[p])) \in Row
    BY <1>1, RowFields
  <2> QED
    BY <1>1, <2>1 DEF Row
<1> QED
  BY <1>1, <1>2 DEF Reverted

LEMMA RevertKeepsBooking ==
  ASSUME BookingInv, NEW pr, Revert(pr), UNCHANGED <<req, clock>>
  PROVE  BookingInv'
<1>1. Reverted(pr) \in [Pieces -> Row] /\ Put(Reverted(pr))
  BY RevertedRows DEF Revert
<1>2. \A p \in Pieces : ChecksHold(p, Reverted(pr)[p])
                        /\ (Reverted(pr)[p].status \in Busy => Reverted(pr)[p] = piece[p])
  BY RevertedRows DEF BookingInv, RowsOK, ChecksHold, Busy
<1>3. OrdersOK'
  BY RecomputedType DEF Revert, BookingInv, OrdersOK
<1> QED
  BY <1>1, <1>2, <1>3, OfficePut

LEMMA TakeLeaves ==
  ASSUME NEW d, NEW r, Take(d, r)
  PROVE  UNCHANGED <<piece, req, clock, orders>>
BY DEF Take, vars

LEMMA OfficeKeepsBooking ==
  ASSUME BookingInv, OfficeOK, CreateNext \/ PrinterNext \/ NozzleNext \/ LotNext \/ SplitNext \/ DeleteNext \/ CorrectNext
  PROVE  BookingInv'
<1>1. CASE UNCHANGED <<piece, req, clock, orders>>
  BY <1>1 DEF BookingInv, RowsOK, RequestsOK, ClockOK, OrdersOK
<1>2. CASE CreateNext
  BY <1>1, <1>2 DEF CreateNext, OpenCreate, CreateUnit, CreateCommit, Take, vars
<1>3. CASE PrinterNext
  <2>1. ASSUME NEW pr, NEW off, NEW maint, UpdatePrinterStock(pr, off, maint) PROVE BookingInv'
    BY <1>1, <2>1, RevertKeepsBooking DEF UpdatePrinterStock
  <2>2. ASSUME NEW d, DeleteTx(d) PROVE BookingInv'
    BY <2>2, RevertKeepsBooking DEF DeleteTx
  <2>3. ASSUME NEW d, NEW pr, DeleteCheck(d, pr) PROVE BookingInv'
    BY <1>1, <2>3 DEF DeleteCheck, Take, vars
  <2> QED
    BY <1>3, <2>1, <2>2, <2>3 DEF PrinterNext
<1>4. CASE NozzleNext
  <2>1. ASSUME NEW d, NEW pr, NEW add, NEW remove, NEW wide, Fit(d, pr, add, remove, wide) PROVE BookingInv'
    BY <1>1, <2>1, TakeLeaves DEF Fit
  <2>2. ASSUME NEW d, FitTx(d) PROVE BookingInv'
    BY <1>1, <2>2 DEF FitTx, vars
  <2> QED
    BY <1>1, <1>4, <2>1, <2>2 DEF NozzleNext, UpdatePrinter, Unfit, vars
<1>5. CASE LotNext
  <2>1. ASSUME NEW d, NEW ids, NEW name, NEW m, NEW size, NEW price, IntakeLook(d, ids, name, m, size, price)
        PROVE  BookingInv'
    BY <1>1, <2>1, TakeLeaves DEF IntakeLook
  <2>2. ASSUME NEW d, IntakeTx(d) PROVE BookingInv'
    BY <1>1, <2>2 DEF IntakeTx
  <2> QED
    BY <1>1, <1>5, <2>1, <2>2 DEF LotNext, RenameAssetBatch, vars
<1>6. CASE SplitNext
  <2>1. ASSUME NEW d, NEW s, NEW parts, SplitRead(d, s, parts) PROVE BookingInv'
    BY <1>1, <2>1, TakeLeaves DEF SplitRead
  <2>2. ASSUME NEW d, SplitTx(d) \/ SplitFails(d) PROVE BookingInv'
    BY <1>1, <2>2 DEF SplitTx, SplitFails, vars
  <2> QED
    BY <1>6, <2>1, <2>2 DEF SplitNext
<1>7. CASE CorrectNext
  BY <1>1, <1>7 DEF CorrectNext, UpdateAsset, UpdateAssetStock, CreateResinTank, CreateNozzle, Purchase, vars
<1>8. ASSUME NEW a \in Assets, DeleteAsset(a) PROVE BookingInv'
  <2> DEFINE rows == [p \in Pieces |-> IF piece[p].source = a THEN [piece[p] EXCEPT !.source = None]
                                                              ELSE piece[p]]
  <2>1. rows \in [Pieces -> Row]
    BY DEF BookingInv, RowsOK, Row
  <2>2. Legal(rows) /\ Put(rows) /\ UNCHANGED <<req, clock, orders>>
    BY <1>8 DEF DeleteAsset
  <2> QED
    BY <2>1, <2>2 DEF BookingInv, Put, Legal, RowsOK, RequestsOK, ClockOK, OrdersOK
<1> QED
  BY <1>2, <1>3, <1>4, <1>5, <1>6, <1>7, <1>8 DEF DeleteNext

----------------------------------------------------------------------------
(* Removed printers and the work that waits for them.                      *)

\* If piece p waits for a printer after this step it waited for it before, and
\* the printer has not gone.
Follows(p) ==
  piece'[p].status \in Waiting =>
    \/ piece'[p].printer = None
    \/ /\ piece[p].status \in Waiting
       /\ piece'[p].printer = piece[p].printer
       /\ machine[piece[p].printer].there => machine'[piece[p].printer].there

\* A row that is not touched, or not in what matters here.
LEMMA FollowsRow ==
  ASSUME BookingInv, NEW p \in Pieces,
         \A pr \in Printers : machine[pr].there => machine'[pr].there,
         \/ piece'[p] = piece[p]
         \/ piece'[p].status \notin Waiting
         \/ piece'[p].status = piece[p].status /\ piece'[p].printer = piece[p].printer
  PROVE  Follows(p)
<1>1. piece[p].printer \in Printers \cup {None}
  BY DEF BookingInv, RowsOK, Row
<1> QED
  BY <1>1 DEF Follows

\* On the shop floor only requests that assign or book make a piece wait.
LEMMA ProceedFollows ==
  ASSUME BookingInv, UNCHANGED machine, NEW w \in Workers, ShopProceed(w), NEW p \in Pieces \ Pursued
  PROVE  Follows(p)
<1> DEFINE q == req[w].p
<1>0. /\ piece \in [Pieces -> Row] /\ Sound(req[w])
      /\ req[w].op \in {"assign", "schedule"} => q # p
  BY DEF BookingInv, RowsOK, RequestsOK, Pursued
<1>1. CASE UNCHANGED piece
  BY <1>1, FollowsRow
<1>2. ASSUME NEW row, piece' \in {piece, [piece EXCEPT ![q] = row]},
             q = p => row.status \notin Waiting \/ (row.status = piece[p].status /\ row.printer = piece[p].printer)
      PROVE  Follows(p)
  <2>1. piece'[p] = piece[p] \/ (q = p /\ piece'[p] = row)
    BY <1>0, <1>2
  <2> QED
    BY <1>2, <2>1, FollowsRow
<1>3. CASE AssignWrite(w)
  <2>1. q # p /\ \E row : piece' \in {piece, [piece EXCEPT ![q] = row]}
    BY <1>0, <1>3 DEF AssignWrite, At, Write, Put
  <2> QED BY <1>2, <2>1
<1>4. CASE AssignStatus(w)
  <2>1. q # p /\ \E row : piece' \in {piece, [piece EXCEPT ![q] = row]}
    BY <1>0, <1>4 DEF AssignStatus, At, Write, Put
  <2> QED BY <1>2, <2>1
<1>5. CASE ScheduleWrite(w)
  <2>1. q # p /\ \E row : piece' \in {piece, [piece EXCEPT ![q] = row]}
    BY <1>0, <1>5 DEF ScheduleWrite, ScheduledRows, At, Write, Put
  <2> QED BY <1>2, <2>1
<1>6. CASE ReserveTx(w)
  <2> DEFINE row == [piece[q] EXCEPT !.source = req[w].stock]
  <2>1. piece' \in {piece, [piece EXCEPT ![q] = row]}
    BY <1>6 DEF ReserveTx, Put
  <2>2. q = p => row.status = piece[p].status /\ row.printer = piece[p].printer
    BY <1>0 DEF Row
  <2> HIDE DEF row
  <2> QED BY <1>2, <2>1, <2>2
<1>7. CASE ShopStartTx(w)
  <2> DEFINE row == [piece[q] EXCEPT !.status = "printing"]
  <2>1. piece' \in {piece, [piece EXCEPT ![q] = row]}
    BY <1>0, <1>7 DEF ShopStartTx, Write, Put
  <2>2. q = p => row.status \notin Waiting
    BY <1>0 DEF Row, Waiting
  <2> HIDE DEF row
  <2> QED BY <1>2, <2>1, <2>2
<1>8. CASE CompleteWrite(w)
  <2> DEFINE row == Ended(q, piece[q], req[w].to)
  <2>1. piece' \in {piece, [piece EXCEPT ![q] = row]} /\ req[w].op = "complete"
    BY <1>8 DEF CompleteWrite, At, Put
  <2>2. q = p => row.status \notin Waiting
    BY <1>0, <2>1 DEF Row, Waiting, Ended, Sound
  <2> HIDE DEF row
  <2> QED BY <1>2, <2>1, <2>2
<1>9. CASE AssignReload(w) \/ ScheduleCheck(w) \/ StartCheck(w) \/ CompleteTx(w) \/ SyncRead(w) \/ SyncWrite(w)
  BY <1>1, <1>9 DEF AssignReload, ScheduleCheck, StartCheck, CompleteTx, SyncRead, SyncWrite, world
<1> QED
  BY <1>1, <1>3, <1>4, <1>5, <1>6, <1>7, <1>8, <1>9 DEF ShopProceed, world

LEMMA ShopFollows ==
  ASSUME BookingInv, ShopNext, NEW p \in Pieces \ Pursued
  PROVE  Follows(p)
<1>0. machine' = machine /\ piece \in [Pieces -> Row]
  BY DEF ShopNext, office, BookingInv, RowsOK
<1>1. ASSUME NEW w \in Workers, ShopCall(w) PROVE Follows(p)
  <2>1. UNCHANGED piece
    BY <1>1 DEF ShopCall, Assign, Reserve, Schedule, Start, Complete, Begin, world
  <2> QED BY <1>0, <2>1, FollowsRow
<1>2. ASSUME NEW w \in Workers, ShopProceed(w) PROVE Follows(p)
  BY <1>0, <1>2, ProceedFollows
<1>3. CASE ShopAdvance
  <2>1. piece'[p] \in {piece[p], [piece[p] EXCEPT !.status = "printing"]}
    BY <1>3 DEF ShopAdvance, Put
  <2>2. piece'[p] = piece[p] \/ piece'[p].status \notin Waiting
    BY <1>0, <2>1 DEF Row, Waiting
  <2> QED BY <1>0, <2>2, FollowsRow
<1>4. ASSUME NEW c \in clock.due, ClockComplete(c[1], c[2]) PROVE Follows(p)
  <2>1. piece'[p] \in {piece[p], [piece[p] EXCEPT !.status = "done"]}
    BY <1>0, <1>4 DEF ClockComplete
  <2>2. piece'[p] = piece[p] \/ piece'[p].status \notin Waiting
    BY <1>0, <2>1 DEF Row, Waiting
  <2> QED BY <1>0, <2>2, FollowsRow
<1>5. CASE ClockSelect \/ TimePasses
  BY <1>0, <1>5, FollowsRow DEF ClockSelect, TimePasses, world
<1> QED
  BY <1>1, <1>2, <1>3, <1>4, <1>5 DEF ShopNext, CompleteOne

\* What is reverted from a printer no longer waits for it.
LEMMA RevertFollows ==
  ASSUME BookingInv, NEW pr, Revert(pr), NEW p \in Pieces,
         \A q \in Printers \ {pr} : machine[q].there => machine'[q].there
  PROVE  Follows(p)
<1>1. IF piece[p].printer = pr /\ piece[p].status \in Waiting
      THEN piece'[p].printer = None ELSE piece'[p] = piece[p]
  BY RevertedRows DEF Revert, Put
<1>2. piece[p].printer \in Printers \cup {None}
  BY DEF BookingInv, RowsOK, Row
<1> QED
  BY <1>1, <1>2 DEF Follows

LEMMA OfficeFollows ==
  ASSUME BookingInv, OfficeOK, NEW p \in Pieces,
         CreateNext \/ PrinterNext \/ NozzleNext \/ LotNext \/ SplitNext \/ DeleteNext \/ CorrectNext
  PROVE  Follows(p)
<1>0. machine \in [Printers -> Machine] /\ piece \in [Pieces -> Row]
  BY DEF OfficeOK, MachinesOK, BookingInv, RowsOK
<1>1. CASE UNCHANGED piece /\ \A pr \in Printers : machine[pr].there => machine'[pr].there
  BY <1>1, FollowsRow
<1>2. ASSUME NEW d, NEW r, Take(d, r) PROVE Follows(p)
  BY <1>1, <1>2 DEF Take, vars, office
<1>3. CASE CreateNext
  <2>1. ASSUME NEW d, NEW n, NEW m, OpenCreate(d, n, m) PROVE Follows(p)
    BY <1>2, <2>1 DEF OpenCreate
  <2>2. ASSUME NEW d, NEW answer, CreateUnit(d, answer) PROVE Follows(p)
    BY <1>1, <2>2 DEF CreateUnit, vars, office
  <2>3. ASSUME NEW d, CreateCommit(d) PROVE Follows(p)
    BY <1>0, <1>1, <2>3 DEF CreateCommit, Machine, vars
  <2> QED
    BY <1>3, <2>1, <2>2, <2>3 DEF CreateNext
<1>4. CASE PrinterNext
  <2>1. ASSUME NEW pr \in Printers, NEW off, NEW maint, UpdatePrinterStock(pr, off, maint) PROVE Follows(p)
    <3>1. \A q \in Printers : machine[q].there => machine'[q].there
      BY <1>0, <2>1 DEF UpdatePrinterStock, Machine
    <3>2. Revert(pr) \/ UNCHANGED piece
      BY <2>1 DEF UpdatePrinterStock
    <3> QED BY <1>1, <3>1, <3>2, RevertFollows
  <2>2. ASSUME NEW d \in Desks, DeleteTx(d) PROVE Follows(p)
    <3>1. \A q \in Printers \ {desk[d].on} : machine[q].there => machine'[q].there
      BY <1>0, <2>2 DEF DeleteTx
    <3>2. Revert(desk[d].on)
      BY <2>2 DEF DeleteTx
    <3> QED BY <3>1, <3>2, RevertFollows
  <2> QED
    BY <1>2, <1>4, <2>1, <2>2 DEF PrinterNext, DeleteCheck
<1>5. CASE NozzleNext
  <2>1. ASSUME NEW d, NEW pr, NEW add, NEW remove, NEW wide, Fit(d, pr, add, remove, wide) PROVE Follows(p)
    BY <1>2, <2>1 DEF Fit
  <2>2. ASSUME NEW pr \in Printers, NEW m, UpdatePrinter(pr, m) \/ Unfit(pr, m) PROVE Follows(p)
    BY <1>0, <1>1, <2>2 DEF UpdatePrinter, Unfit, Machine, vars
  <2>3. ASSUME NEW d, FitTx(d) PROVE Follows(p)
    BY <1>0, <1>1, <2>3 DEF FitTx, Machine, vars
  <2> QED
    BY <1>5, <2>1, <2>2, <2>3 DEF NozzleNext
<1>6. CASE LotNext
  <2>1. ASSUME NEW d, NEW ids, NEW name, NEW m, NEW size, NEW price, IntakeLook(d, ids, name, m, size, price)
        PROVE  Follows(p)
    BY <1>2, <2>1 DEF IntakeLook
  <2> QED
    BY <1>1, <1>6, <2>1 DEF LotNext, IntakeTx, RenameAssetBatch, vars
<1>7. CASE SplitNext
  <2>1. ASSUME NEW d, NEW s, NEW parts, SplitRead(d, s, parts) PROVE Follows(p)
    BY <1>2, <2>1 DEF SplitRead
  <2>2. ASSUME NEW d, SplitTx(d) \/ SplitFails(d) PROVE Follows(p)
    BY <1>1, <2>2 DEF SplitTx, SplitFails, vars, office
  <2> QED
    BY <1>7, <2>1, <2>2 DEF SplitNext
<1>8. ASSUME NEW a \in Assets, DeleteAsset(a) PROVE Follows(p)
  <2>1. \A pr \in Printers : machine'[pr].there = machine[pr].there
    BY <1>0, <1>8 DEF DeleteAsset, Machine
  <2>2. piece'[p] \in {piece[p], [piece[p] EXCEPT !.source = None]}
    BY <1>8 DEF DeleteAsset, Put
  <2>3. piece'[p].printer = piece[p].printer /\ piece'[p].status = piece[p].status
    BY <1>0, <2>2 DEF Row
  <2> QED
    BY <2>1, <2>3, FollowsRow
<1>9. CASE CorrectNext
  BY <1>1, <1>9 DEF CorrectNext, UpdateAsset, UpdateAssetStock, CreateResinTank, CreateNozzle,
                    Purchase, office, vars
<1> QED
  BY <1>3, <1>4, <1>5, <1>6, <1>7, <1>8, <1>9 DEF DeleteNext

\* What was on a printer that is there and is not being assigned or booked goes
\* on waiting for it only as long as it is there.
LEMMA WaitingStep ==
  ASSUME BookingInv, BookingInv', OfficeOK, WaitingWorkHasAMachine, FleetNext
  PROVE  WaitingWorkHasAMachine'
<1> SUFFICES ASSUME NEW p \in Pieces, p \notin strays', piece'[p].status \in Waiting,
                    ~machine'[piece'[p].printer].there
             PROVE  FALSE
  BY DEF WaitingWorkHasAMachine
<1>1. piece'[p].printer # None
  BY DEF BookingInv, RowsOK, ChecksHold, CoreData, Waiting, Busy
<1>2. p \notin strays \cup Pursued
  BY <1>1 DEF FleetNext, Straying
<1>3. Follows(p)
  BY <1>2, ShopFollows, OfficeFollows DEF FleetNext
<1>4. piece[p].status \in Waiting => machine[piece[p].printer].there
  BY <1>2 DEF WaitingWorkHasAMachine
<1> QED
  BY <1>1, <1>3, <1>4 DEF Follows

----------------------------------------------------------------------------
(* Deliveries under one name.                                              *)

\* One intake at a time is under way for a name and a material; and the lot it
\* found missing is missing still.
IntakeInv ==
  /\ \A d, e \in Desks : (/\ desk[d].op = "intake" /\ desk[e].op = "intake"
                          /\ desk[d].on # None
                          /\ desk[d].on = desk[e].on /\ desk[d].of = desk[e].of) => d = e
  /\ IntakesAreNeverTurnedAway

\* A step of one desk that begins no intake and files no lot.
LEMMA ElsewhereKeepsIntakes ==
  ASSUME IntakeInv, DesksOK, NEW d \in Desks, NEW r, r.op # "intake",
         desk' = [desk EXCEPT ![d] = r], lots' = lots
  PROVE  IntakeInv'
BY DEF IntakeInv, IntakesAreNeverTurnedAway, DesksOK, LotOf

LEMMA TakeKeepsIntakes ==
  ASSUME IntakeInv, DesksOK, NEW d \in Desks, NEW r, r.op # "intake", Take(d, r)
  PROVE  IntakeInv'
BY ElsewhereKeepsIntakes DEF Take, office

LEMMA DoneKeepsIntakes ==
  ASSUME IntakeInv, DesksOK, NEW d \in Desks, Done(d), lots' = lots
  PROVE  IntakeInv'
<1>1. AtRest.op # "intake"
  BY DEF AtRest
<1> QED
  BY <1>1, ElsewhereKeepsIntakes DEF Done

LEMMA DesklessKeepsIntakes ==
  ASSUME IntakeInv, desk' = desk, lots' = lots
  PROVE  IntakeInv'
BY DEF IntakeInv, IntakesAreNeverTurnedAway, LotOf

\* The lock on the name of the lot, the number a new lot takes, and that a lot
\* is renamed while nothing else happens.
LEMMA LotKeepsIntakes ==
  ASSUME "rename" \in Alone, Names \cap Nat = {}, None \notin Names, IntakeInv, OfficeOK, LotNext
  PROVE  IntakeInv'
<1>0. DesksOK /\ desk \in [Desks -> Work]
  BY DEF OfficeOK, DesksOK
<1>1. ASSUME NEW d \in Desks, NEW ids, NEW name \in Names \cup {None}, NEW m, NEW size, NEW price,
             IntakeLook(d, ids, name, m, size, price)
      PROVE  IntakeInv'
  <2> DEFINE found == LET l == LotOf(name, m) IN IF l = {} THEN 0 ELSE (CHOOSE x \in l : TRUE).number
             r == [AtRest EXCEPT !.op = "intake", !.ids = ids, !.on = name, !.of = m, !.n = found,
                                 !.size = [a \in ids |-> size], !.price = price]
  <2>1. found = 0 => LotOf(name, m) = {}
    <3>1. \A l \in LotOf(name, m) : l.number # 0
      BY DEF LotOf, OfficeOK, LotsOK, Lot
    <3> QED
      BY <3>1
  <2>2. name # None => \A e \in Desks : ~(desk[e].op = "intake" /\ desk[e].on = name /\ desk[e].of = m)
    BY <1>1 DEF IntakeLook
  <2>3. Take(d, r)
    BY <1>1 DEF IntakeLook
  <2> HIDE DEF found
  <2>4. r.op = "intake" /\ r.on = name /\ r.of = m /\ r.n = found
    BY DEF AtRest
  <2> HIDE DEF r
  <2>5. desk' = [desk EXCEPT ![d] = r] /\ lots' = lots
    BY <2>3 DEF Take, office
  <2>6. \A e \in Desks : desk'[e] = IF e = d THEN r ELSE desk[e]
    BY <1>0, <2>5
  <2>7. IntakesAreNeverTurnedAway'
    BY <2>1, <2>4, <2>5, <2>6 DEF IntakeInv, IntakesAreNeverTurnedAway, LotOf
  <2> QED
    BY <2>2, <2>4, <2>6, <2>7 DEF IntakeInv
<1>2. ASSUME NEW d \in Desks, IntakeTx(d) PROVE IntakeInv'
  <2>1. PICK lot : /\ lots' \in {lots, lots \cup {lot}}
                   /\ lot.name = IF desk[d].on = None THEN Cardinality(lots) + 1 ELSE desk[d].on
                   /\ lot.material = desk[d].of
    <3> DEFINE new == [number |-> Cardinality(lots) + 1, material |-> desk[d].of,
                       name |-> IF desk[d].on = None THEN Cardinality(lots) + 1 ELSE desk[d].on]
    <3>1. lots' \in {lots, lots \cup {new}}
      BY <1>2 DEF IntakeTx
    <3>2. /\ new.name = IF desk[d].on = None THEN Cardinality(lots) + 1 ELSE desk[d].on
          /\ new.material = desk[d].of
      OBVIOUS
    <3> HIDE DEF new
    <3> QED
      BY <3>1, <3>2
  <2>2. desk[d].op = "intake" /\ desk[d].on \in Names \cup {None} /\ Cardinality(lots) + 1 \in Nat
    BY <1>0, <1>2, FS_CardinalityType DEF IntakeTx, DesksOK, Proper, OfficeOK, LotsOK
  <2>3. \A e \in Desks : desk'[e].op = "intake" => e # d /\ desk'[e] = desk[e]
    BY <1>0, <1>2 DEF IntakeTx, Done, AtRest
  <2>4. ASSUME NEW e \in Desks, desk'[e].op = "intake", desk'[e].on # None, desk'[e].n = 0
        PROVE  LotOf(desk[e].on, desk[e].of)' = {}
    <3>1. desk[e].op = "intake" /\ desk[e].on \in Names /\ e # d /\ desk'[e] = desk[e]
      BY <1>0, <2>3, <2>4 DEF DesksOK, Proper
    <3>2. LotOf(desk[e].on, desk[e].of) = {}
      BY <2>4, <3>1 DEF IntakeInv, IntakesAreNeverTurnedAway
    <3>3. ~(lot.name = desk[e].on /\ lot.material = desk[e].of)
      BY <2>1, <2>2, <3>1 DEF IntakeInv
    <3> QED
      BY <2>1, <3>1, <3>2, <3>3 DEF LotOf
  <2>5. IntakesAreNeverTurnedAway'
    BY <2>3, <2>4 DEF IntakesAreNeverTurnedAway, LotOf
  <2> QED
    BY <2>3, <2>5 DEF IntakeInv
<1>3. ASSUME NEW l, NEW name, RenameAssetBatch(l, name) PROVE IntakeInv'
  <2>1. \A e \in Desks : desk'[e] = AtRest
    BY <1>3 DEF RenameAssetBatch, Free
  <2>2. AtRest.op # "intake"
    BY DEF AtRest
  <2> QED
    BY <2>1, <2>2 DEF IntakeInv, IntakesAreNeverTurnedAway
<1> QED
  BY <1>1, <1>2, <1>3 DEF LotNext

LEMMA OthersKeepIntakes ==
  ASSUME IntakeInv, OfficeOK,
         CreateNext \/ PrinterNext \/ NozzleNext \/ SplitNext \/ DeleteNext \/ CorrectNext \/ ShopNext
  PROVE  IntakeInv'
<1>0. DesksOK /\ desk \in [Desks -> Work]
  BY DEF OfficeOK, DesksOK
<1>1. CASE CreateNext
  <2>1. ASSUME NEW d \in Desks, NEW n, NEW m, OpenCreate(d, n, m) PROVE IntakeInv'
    <3>1. [AtRest EXCEPT !.op = "create", !.on = m, !.n = n].op # "intake"
      BY DEF AtRest
    <3> QED
      BY <1>0, <2>1, <3>1, TakeKeepsIntakes DEF OpenCreate
  <2>2. ASSUME NEW d \in Desks, NEW answer \in Answers, CreateUnit(d, answer) PROVE IntakeInv'
    <3>1. lots' = lots
      BY <2>2 DEF CreateUnit, office
    <3>2. CASE Done(d)
      BY <1>0, <3>1, <3>2, DoneKeepsIntakes
    <3>3. CASE ~Done(d)
      <4>1. PICK r \in Work : r.op = "create" /\ desk' = [desk EXCEPT ![d] = r]
        BY <1>0, <2>2, <3>3, UnitStep
      <4> QED
        BY <1>0, <3>1, <4>1, ElsewhereKeepsIntakes
    <3> QED
      BY <3>2, <3>3
  <2>3. ASSUME NEW d \in Desks, CreateCommit(d) PROVE IntakeInv'
    BY <1>0, <2>3, DoneKeepsIntakes DEF CreateCommit
  <2> QED
    BY <1>1, <2>1, <2>2, <2>3 DEF CreateNext
<1>2. CASE PrinterNext
  <2>1. ASSUME NEW pr, NEW off, NEW maint, UpdatePrinterStock(pr, off, maint) PROVE IntakeInv'
    BY <2>1, DesklessKeepsIntakes DEF UpdatePrinterStock
  <2>2. ASSUME NEW d \in Desks, DeleteTx(d) PROVE IntakeInv'
    BY <1>0, <2>2, DoneKeepsIntakes DEF DeleteTx
  <2>3. ASSUME NEW d \in Desks, NEW pr, DeleteCheck(d, pr) PROVE IntakeInv'
    <3>1. [AtRest EXCEPT !.op = "remove", !.on = pr].op # "intake"
      BY DEF AtRest
    <3> QED
      BY <1>0, <2>3, <3>1, TakeKeepsIntakes DEF DeleteCheck
  <2> QED
    BY <1>2, <2>1, <2>2, <2>3 DEF PrinterNext
<1>3. CASE NozzleNext
  <2>1. ASSUME NEW d \in Desks, NEW pr, NEW add, NEW remove, NEW wide, Fit(d, pr, add, remove, wide)
        PROVE  IntakeInv'
    <3> DEFINE targets == {pr} \cup IF wide THEN {q \in Siblings(pr) : ~Resinous(q)} ELSE {}
               r == [AtRest EXCEPT !.op = "fit", !.on = pr, !.out = remove, !.of = add, !.ids = targets]
    <3>1. Take(d, r)
      BY <2>1 DEF Fit
    <3> HIDE DEF targets
    <3>2. r.op # "intake"
      BY DEF AtRest
    <3> QED
      BY <1>0, <3>1, <3>2, TakeKeepsIntakes
  <2>2. ASSUME NEW d \in Desks, FitTx(d) PROVE IntakeInv'
    BY <1>0, <2>2, DoneKeepsIntakes DEF FitTx
  <2> QED
    BY <1>3, <2>1, <2>2, DesklessKeepsIntakes DEF NozzleNext, UpdatePrinter, Unfit
<1>4. CASE SplitNext
  <2>1. ASSUME NEW d \in Desks, NEW s, NEW parts, SplitRead(d, s, parts) PROVE IntakeInv'
    <3> DEFINE r == [AtRest EXCEPT !.op = "split", !.on = s, !.ids = DOMAIN parts, !.size = parts, !.n = left[s]]
    <3>1. Take(d, r)
      BY <2>1 DEF SplitRead
    <3>2. r.op # "intake"
      BY DEF AtRest
    <3> QED
      BY <1>0, <3>1, <3>2, TakeKeepsIntakes
  <2>2. ASSUME NEW d \in Desks, SplitTx(d) \/ SplitFails(d) PROVE IntakeInv'
    BY <1>0, <2>2, DoneKeepsIntakes DEF SplitTx, SplitFails, office
  <2> QED
    BY <1>4, <2>1, <2>2 DEF SplitNext
<1>5. CASE DeleteNext \/ CorrectNext \/ ShopNext
  BY <1>5, DesklessKeepsIntakes DEF DeleteNext, DeleteAsset, CorrectNext, UpdateAsset, UpdateAssetStock,
                                    CreateResinTank, CreateNozzle, Purchase, ShopNext, office
<1> QED
  BY <1>1, <1>2, <1>3, <1>4, <1>5

----------------------------------------------------------------------------
(* Sums of what is on hand and of what was paid.                           *)

\* When k is taken out of L and its parts ids are put in, to make M.
LEMMA SumMoved ==
  ASSUME NEW L, IsFiniteSet(L), NEW M, IsFiniteSet(M), NEW k \in L, NEW ids, ids \subseteq M, ids \cap L = {},
         M = (L \ {k}) \cup ids,
         NEW f, \A x \in L : f[x] \in Nat, NEW g, \A x \in M : g[x] \in Nat,
         \A x \in L \ {k} : g[x] = f[x]
  PROVE  Sum(g, M) + f[k] = Sum(f, L) + Sum(g, ids)
<1> DEFINE K == L \ {k}
<1>1. K \in SUBSET L /\ K \in SUBSET M /\ ids \in SUBSET M /\ M \ ids = K
  OBVIOUS
<1>2. IsFiniteSet(K)
  BY <1>1, FS_Subset
<1>3. Sum(f, L) = f[k] + Sum(f, K)
  BY SumWithout
<1>4. Sum(g, M) = Sum(g, ids) + Sum(g, K)
  <2> HIDE DEF K
  <2>1. Sum(g, M) = Sum(g, ids) + Sum(g, M \ ids)
    BY <1>1, SumOfParts
  <2> QED BY <1>1, <2>1
<1>5. Sum(g, K) = Sum(f, K)
  <2> HIDE DEF K
  <2>1. \A x \in K : g[x] = f[x]
    BY DEF K
  <2> QED BY <1>2, <2>1, SumSame
<1>6. Sum(f, K) \in Nat /\ Sum(g, ids) \in Nat /\ f[k] \in Nat
  <2>1. IsFiniteSet(ids) /\ \A x \in ids : g[x] \in Nat
    BY <1>1, FS_Subset
  <2>2. \A x \in K : f[x] \in Nat
    BY <1>1
  <2> HIDE DEF K
  <2> QED BY <1>2, <2>1, <2>2, SumIsNatural
<1> HIDE DEF K
<1> QED BY <1>3, <1>4, <1>5, <1>6

\* The sum of a column of the rows of the stock.
LEMMA PriceIsASum ==
  ASSUME NEW T, IsFiniteSet(T)
  PROVE  MapThenSumSet(LAMBDA s : asset[s].price, T) = Sum([a \in T |-> asset[a].price], T)
<1> DEFINE F == [a \in T |-> asset[a].price]
           Of(g, s) == IF s = {} THEN 0 ELSE asset[One(s)].price + g[s \ {One(s)}]
           g == CHOOSE g : g = [s \in SUBSET T |-> Of(g, s)]
<1>1. \A h : \A s \in SUBSET T : Of(h, s) = Tallied(F, h, s)
  BY OneIsIn DEF Tallied
<1> HIDE DEF F, Of
<1>2. \A h : Tally(F, T, h) <=> h = [s \in SUBSET T |-> Of(h, s)]
  BY <1>1 DEF Tally
<1>3. \E h : h = [s \in SUBSET T |-> Of(h, s)]
  BY <1>2, TallyExists
<1>4. g = [s \in SUBSET T |-> Of(g, s)]
  BY <1>3
<1>5. MapThenSumSet(LAMBDA s : asset[s].price, T) = g[T]
  BY DEF MapThenSumSet, MapThenFoldSet, Of, One
<1> HIDE DEF g
<1>6. PICK h : Tally(F, T, h) /\ Sum(F, T) = h[T]
  BY SumIsTallied
<1>7. g[T] = h[T]
  BY <1>2, <1>4, <1>6, TalliesAgree
<1> QED BY <1>5, <1>6, <1>7 DEF F

LEMMA InitialIsASum ==
  ASSUME NEW T, IsFiniteSet(T)
  PROVE  MapThenSumSet(LAMBDA s : asset[s].initial, T) = Sum([a \in T |-> asset[a].initial], T)
<1> DEFINE F == [a \in T |-> asset[a].initial]
           Of(g, s) == IF s = {} THEN 0 ELSE asset[One(s)].initial + g[s \ {One(s)}]
           g == CHOOSE g : g = [s \in SUBSET T |-> Of(g, s)]
<1>1. \A h : \A s \in SUBSET T : Of(h, s) = Tallied(F, h, s)
  BY OneIsIn DEF Tallied
<1> HIDE DEF F, Of
<1>2. \A h : Tally(F, T, h) <=> h = [s \in SUBSET T |-> Of(h, s)]
  BY <1>1 DEF Tally
<1>3. \E h : h = [s \in SUBSET T |-> Of(h, s)]
  BY <1>2, TallyExists
<1>4. g = [s \in SUBSET T |-> Of(g, s)]
  BY <1>3
<1>5. MapThenSumSet(LAMBDA s : asset[s].initial, T) = g[T]
  BY DEF MapThenSumSet, MapThenFoldSet, Of, One
<1> HIDE DEF g
<1>6. PICK h : Tally(F, T, h) /\ Sum(F, T) = h[T]
  BY SumIsTallied
<1>7. g[T] = h[T]
  BY <1>2, <1>4, <1>6, TalliesAgree
<1> QED BY <1>5, <1>6, <1>7 DEF F

\* The containers that the price of a material is made of.
Priced(S, m) == {s \in There(S) : /\ asset[s].material = m
                                  /\ asset[s].parent = None
                                  /\ asset[s].price > 0 /\ asset[s].initial > 0}

LEMMA PricingIsSums ==
  \A S, m : IsFiniteSet(S) =>
    Pricing(S, m) = <<Sum([a \in Priced(S, m) |-> asset[a].price], Priced(S, m)),
                      Sum([a \in Priced(S, m) |-> asset[a].initial], Priced(S, m))>>
<1> TAKE S, m
<1> SUFFICES ASSUME IsFiniteSet(S)
             PROVE Pricing(S, m) = <<Sum([a \in Priced(S, m) |-> asset[a].price], Priced(S, m)),
                                     Sum([a \in Priced(S, m) |-> asset[a].initial], Priced(S, m))>>
  OBVIOUS
<1>1. Priced(S, m) \in SUBSET S
  BY DEF Priced, There
<1>2. IsFiniteSet(Priced(S, m))
  BY <1>1, FS_Subset
<1>3. Pricing(S, m) = <<MapThenSumSet(LAMBDA s : asset[s].price, Priced(S, m)),
                        MapThenSumSet(LAMBDA s : asset[s].initial, Priced(S, m))>>
  BY DEF Pricing, Priced
<1>4. MapThenSumSet(LAMBDA s : asset[s].price, Priced(S, m)) = Sum([a \in Priced(S, m) |-> asset[a].price], Priced(S, m))
  BY <1>2, PriceIsASum
<1>5. MapThenSumSet(LAMBDA s : asset[s].initial, Priced(S, m)) = Sum([a \in Priced(S, m) |-> asset[a].initial], Priced(S, m))
  BY <1>2, InitialIsASum
<1> QED BY <1>3, <1>4, <1>5

Listed(S, m) == {s \in Inventory(S) : asset[s].material = m}

LEMMA OnHandIsSums == \A S, m : OnHand(S, m) = <<Sum(left, Listed(S, m)), Sum(reserved, Listed(S, m))>>
BY DEF OnHand, Listed, Sum

\* The same of the next state.
LEMMA OfTheNextState ==
  ( /\ \A S, m : IsFiniteSet(S) =>
         Pricing(S, m) = <<Sum([a \in Priced(S, m) |-> asset[a].price], Priced(S, m)),
                           Sum([a \in Priced(S, m) |-> asset[a].initial], Priced(S, m))>>
    /\ \A S, m : OnHand(S, m) = <<Sum(left, Listed(S, m)), Sum(reserved, Listed(S, m))>> )'
BY PricingIsSums, OnHandIsSums, PTL

----------------------------------------------------------------------------
(* The stock on record.                                                    *)

AssetRow == [there : BOOLEAN, split : BOOLEAN, used : BOOLEAN, parent : Stocks \cup {None}, initial : Nat, price : Nat,
             material : Materials \cup {None}, lot : Nat]

AssetsOK == asset \in [Assets -> AssetRow]

\* What pieces are to be made of is there, and in what is not there nothing is left.
Stocked ==
  /\ \A p \in Pieces : piece[p].source # None => asset[piece[p].source].there
  /\ \A s \in Stocks : asset[s].there \/ left[s] = 0

StockInv == AssetsOK /\ ReservedOK /\ Stocked

LEMMA ThereIs ==
  /\ There(Stocks) = {s \in Stocks : asset[s].there}
  /\ There(Assets) = {a \in Assets : asset[a].there}
  /\ There(Spools) = {s \in Spools : asset[s].there}
  /\ There(Tanks) = {s \in Tanks : asset[s].there}
BY KindsAreDistinct DEF There, Assets, Stocks

LEMMA SourcesTyped == BookingInv => \A p \in Pieces : piece[p] \in Row /\ piece[p].source \in Stocks \cup {None}
BY DEF BookingInv, RowsOK, Row

\* No stock goes, no piece gets one that is not there, nothing is poured into
\* what is not there.
LEMMA StockedKept ==
  ASSUME Stocked, BookingInv,
         \A s \in Stocks : asset[s].there => asset'[s].there,
         \A p \in Pieces : \/ piece'[p].source \in {None, piece[p].source}
                           \/ piece'[p].source \in Stocks /\ asset'[piece'[p].source].there,
         \A s \in Stocks : asset'[s].there \/ (left[s] = 0 => left'[s] = 0)
  PROVE  Stocked'
BY SourcesTyped DEF Stocked

LEMMA ReservedSame ==
  ASSUME ReservedOK, UNCHANGED <<piece, reserved>>
  PROVE  ReservedOK'
BY DEF ReservedOK, NothingReservedForNobody

\* A step that leaves rows and stock alone.
LEMMA StockSame ==
  ASSUME StockInv, BookingInv, UNCHANGED <<piece, reserved, left, asset>>
  PROVE  StockInv'
<1>1. ReservedOK' /\ Stocked'
  BY ReservedSame, StockedKept DEF StockInv
<1> QED BY <1>1 DEF StockInv, AssetsOK

\* A step in which the rows are written and the trigger fires.
LEMMA StockRetold ==
  ASSUME StockInv, BookingInv, Retold \/ UNCHANGED <<piece, reserved>>, UNCHANGED asset,
         \A p \in Pieces : \/ piece'[p].source \in {None, piece[p].source}
                           \/ piece'[p].source \in Stocks /\ asset[piece'[p].source].there,
         \A s \in Stocks : left[s] = 0 => left'[s] = 0
  PROVE  StockInv'
<1>1. ReservedOK'
  BY RetoldKeeps, ReservedSame DEF StockInv
<1>2. Stocked'
  BY StockedKept DEF StockInv
<1> QED BY <1>1, <1>2 DEF StockInv, AssetsOK

LEMMA ProceedKeepsStock ==
  ASSUME StockInv, BookingInv, UNCHANGED asset, NEW w \in Workers, ShopProceed(w)
  PROVE  StockInv'
<1> DEFINE q == req[w].p
           k == req[w].stock
<1>0. /\ piece \in [Pieces -> Row] /\ \A p \in Pieces : piece[p] \in Row
      /\ req[w] \in Request /\ Sound(req[w])
  BY DEF BookingInv, RowsOK, RequestsOK
<1>1. CASE Goto(w, "idle") /\ UNCHANGED <<world, now, clock, charged>>
  BY <1>1, StockSame DEF world
<1>2. CASE ~(Goto(w, "idle") /\ UNCHANGED <<world, now, clock, charged>>)
  <2>1. k # None => k \in Stocks /\ asset[k].there
    BY <1>2, ThereIs DEF ShopProceed
  <2>2. ASSUME NEW rows, NEW pc, Write(w, rows, pc), UNCHANGED left,
               \A p \in Pieces : rows[p].source \in {None, piece[p].source} \/ (k # None /\ rows[p].source = k)
        PROVE  StockInv'
    <3>1. Retold \/ UNCHANGED <<piece, reserved>>
      BY <2>2, WriteRetells
    <3>2. piece' = rows \/ UNCHANGED piece
      BY <2>2 DEF Write, Put
    <3>3. \A p \in Pieces : \/ piece'[p].source \in {None, piece[p].source}
                            \/ piece'[p].source \in Stocks /\ asset[piece'[p].source].there
      BY <2>1, <2>2, <3>2
    <3> QED BY <2>2, <3>1, <3>3, StockRetold
  <2>3. ASSUME NEW row, NEW pc, q \in Pieces, Write(w, [piece EXCEPT ![q] = row], pc), UNCHANGED left,
               row.source \in {None, piece[q].source} \/ (k # None /\ row.source = k)
        PROVE  StockInv'
    <3>1. \A p \in Pieces : LET rows == [piece EXCEPT ![q] = row] IN
            rows[p].source \in {None, piece[p].source} \/ (k # None /\ rows[p].source = k)
      BY <1>0, <2>3
    <3> QED BY <2>2, <2>3, <3>1
  <2>4. CASE AssignWrite(w)
    <3> DEFINE row == Assigned(piece[q], req[w])
    <3>1. q \in Pieces /\ Write(w, [piece EXCEPT ![q] = row], "reload") /\ UNCHANGED left
      BY <1>0, <2>4 DEF AssignWrite, At, Sound
    <3>2. row.source = IF k = None THEN piece[q].source ELSE k
      BY <1>0, <3>1 DEF Assigned, Row
    <3> HIDE DEF row
    <3> QED BY <2>3, <3>1, <3>2
  <2>5. CASE AssignStatus(w)
    <3> DEFINE row == [piece[q] EXCEPT !.status = req[w].to]
    <3>1. q \in Pieces /\ Write(w, [piece EXCEPT ![q] = row], "idle") /\ UNCHANGED left
      BY <1>0, <2>5 DEF AssignStatus, At, Sound
    <3>2. row.source = piece[q].source
      BY <1>0, <3>1 DEF Row
    <3> HIDE DEF row
    <3> QED BY <2>3, <3>1, <3>2
  <2>6. CASE ScheduleWrite(w)
    <3> DEFINE row == [piece[q] EXCEPT !.status = "scheduled", !.from = req[w].at, !.to = req[w].at + Minutes[q]]
    <3>1. q \in Pieces /\ Write(w, [piece EXCEPT ![q] = row], "sync") /\ UNCHANGED left
      BY <1>0, <2>6 DEF ScheduleWrite, ScheduledRows, At, Sound
    <3>2. row.source = piece[q].source
      BY <1>0, <3>1 DEF Row
    <3> HIDE DEF row
    <3> QED BY <2>3, <3>1, <3>2
  <2>7. CASE ShopStartTx(w)
    <3> DEFINE row == [piece[q] EXCEPT !.status = "printing"]
    <3>1. q \in Pieces /\ UNCHANGED left
      BY <1>0, <2>7 DEF ShopStartTx, At, Sound
    <3>2. Write(w, [piece EXCEPT ![q] = row], "sync")
      <4>1. [piece EXCEPT ![q].status = "printing"] = [piece EXCEPT ![q] = row]
        BY <1>0, <3>1
      <4> QED BY <2>7, <4>1 DEF ShopStartTx
    <3>3. row.source = piece[q].source
      BY <1>0, <3>1 DEF Row
    <3> HIDE DEF row
    <3> QED BY <2>3, <3>1, <3>2, <3>3
  <2>8. CASE CompleteWrite(w)
    <3> DEFINE row == Ended(q, piece[q], req[w].to)
    <3>1. q \in Pieces /\ Put([piece EXCEPT ![q] = row]) /\ UNCHANGED left
      BY <1>0, <2>8 DEF CompleteWrite, At, Sound
    <3>2. row.source = piece[q].source
      BY <1>0, <3>1 DEF Row, Ended
    <3> HIDE DEF row
    <3>3. Retold
      BY <3>1, PutRetells
    <3>4. \A p \in Pieces : piece'[p].source = piece[p].source
      BY <1>0, <3>1, <3>2 DEF Put
    <3> QED BY <3>1, <3>3, <3>4, StockRetold
  <2>9. CASE ReserveTx(w)
    <3>1. q \in Pieces /\ k \in Stocks /\ UNCHANGED left
      BY <1>0, <2>9 DEF ReserveTx, At, Sound
    <3>2. CASE Put([piece EXCEPT ![q].source = k])
      <4>1. Retold
        BY <3>2, PutRetells
      <4>2. \A p \in Pieces : piece'[p].source \in {piece[p].source, k}
        BY <1>0, <3>1, <3>2 DEF Put, Row
      <4>3. k # None
        BY <3>1 DEF Stocks
      <4> QED BY <2>1, <3>1, <4>1, <4>2, <4>3, StockRetold
    <3>3. CASE UNCHANGED <<piece, reserved>>
      BY <3>1, <3>3, StockRetold
    <3> QED BY <2>9, <3>2, <3>3 DEF ReserveTx
  <2>10. CASE CompleteTx(w)
    <3>1. q \in Pieces /\ Need[q] \in Nat
      BY <1>0, <2>10 DEF CompleteTx, At, Sound
    <3>2. left' = Consumed(q) /\ UNCHANGED <<piece, reserved>>
      BY <2>10 DEF CompleteTx
    <3>3. \A s \in Stocks : left[s] = 0 => left'[s] = 0
      BY <3>1, <3>2 DEF Consumed, Monus
    <3> QED BY <3>2, <3>3, StockRetold
  <2>11. CASE AssignReload(w) \/ ScheduleCheck(w) \/ StartCheck(w) \/ SyncRead(w) \/ SyncWrite(w)
    BY <2>11, StockSame DEF AssignReload, ScheduleCheck, StartCheck, SyncRead, SyncWrite, world
  <2> QED
    BY <1>2, <2>4, <2>5, <2>6, <2>7, <2>8, <2>9, <2>10, <2>11 DEF ShopProceed
<1> QED BY <1>1, <1>2

LEMMA ShopKeepsStock ==
  ASSUME StockInv, BookingInv, ShopNext
  PROVE  StockInv'
<1>0. asset' = asset /\ desk' = desk /\ \A p \in Pieces : piece[p] \in Row
  BY DEF ShopNext, office, BookingInv, RowsOK
<1>1. ASSUME NEW w \in Workers, ShopCall(w) PROVE StockInv'
  <2> DEFINE Begins == \E r : Begin(w, r)
  <2>1. ASSUME NEW p \in Pieces
        PROVE  /\ \A pr, tank, qty : Assign(w, p, pr, tank, qty) => Begins
               /\ \A t : (Reserve(w, p, t) => Begins) /\ (Schedule(w, p, t) => Begins)
                       /\ (Complete(w, p, t) => Begins)
               /\ Start(w, p) => Begins
    <3>1. \A pr, tank, qty : Assign(w, p, pr, tank, qty) => Begins
      BY DEF Assign
    <3>2. \A t : (Reserve(w, p, t) => Begins) /\ (Schedule(w, p, t) => Begins)
      BY DEF Reserve, Schedule
    <3>3. (\A t : Complete(w, p, t) => Begins) /\ (Start(w, p) => Begins)
      BY DEF Complete, Start
    <3> HIDE DEF Begins
    <3> QED BY <3>1, <3>2, <3>3
  <2> HIDE DEF Begins
  <2>3. Begins
    BY <1>1, <2>1 DEF ShopCall
  <2> USE DEF Begins
  <2>2. UNCHANGED <<piece, reserved, left>>
    BY <2>3 DEF Begin, world
  <2> QED BY <1>0, <2>2, StockSame
<1>2. ASSUME NEW w \in Workers, ShopProceed(w) PROVE StockInv'
  BY <1>0, <1>2, ProceedKeepsStock
<1>3. CASE ShopAdvance
  <2>1. Retold /\ UNCHANGED left
    BY <1>3, PutRetells DEF ShopAdvance
  <2>2. \A p \in Pieces : piece'[p] \in {piece[p], [piece[p] EXCEPT !.status = "printing"]}
    BY <1>3 DEF ShopAdvance, Put
  <2>3. \A p \in Pieces : piece'[p].source = piece[p].source
    BY <1>0, <2>2 DEF Row
  <2> QED BY <1>0, <2>1, <2>3, StockRetold
<1>4. CASE ClockSelect \/ TimePasses
  BY <1>0, <1>4, StockSame DEF ClockSelect, TimePasses, world
<1>5. ASSUME NEW c \in clock.due, ClockComplete(c[1], c[2]) PROVE StockInv'
  <2>1. c[1] \in Pieces /\ Need[c[1]] \in Nat
    BY DEF BookingInv, ClockOK
  <2>2. Retold \/ UNCHANGED <<piece, reserved>>
    BY <1>5, TickRetells DEF Tick, CompleteOne
  <2>3. \A s \in Stocks : left[s] = 0 => left'[s] = 0
    BY <1>5, <2>1 DEF ClockComplete, Monus
  <2>4. \A p \in Pieces : piece'[p] \in {piece[p], [piece[p] EXCEPT !.status = "done"]}
    BY <1>5 DEF ClockComplete, BookingInv, RowsOK
  <2>5. \A p \in Pieces : piece'[p].source = piece[p].source
    BY <1>0, <2>4 DEF Row
  <2> QED BY <1>0, <2>2, <2>3, <2>5, StockRetold
<1> QED BY <1>1, <1>2, <1>3, <1>4, <1>5 DEF ShopNext, CompleteOne

\* A step of the office that leaves stock and rows alone.
LEMMA TakeKeepsStock ==
  ASSUME StockInv, BookingInv, NEW d, NEW r, Take(d, r)
  PROVE  StockInv'
BY StockSame DEF Take, vars, office

LEMMA RevertKeepsStock ==
  ASSUME StockInv, BookingInv, NEW pr, Revert(pr), UNCHANGED <<asset, left>>
  PROVE  StockInv'
<1>1. Retold
  BY PutRetells DEF Revert
<1>2. piece \in [Pieces -> Row]
  BY DEF BookingInv, RowsOK
<1>3. ASSUME NEW p \in Pieces PROVE piece'[p].source \in {None, piece[p].source}
  <2>1. piece'[p] \in {piece[p], [Unbooked(WithoutSpool(p, piece[p])) EXCEPT !.status = "pending", !.printer = None]}
    BY DEF Revert, Put, Reverted
  <2>2. Unbooked(WithoutSpool(p, piece[p])) \in Row
    BY <1>2, RowFields
  <2>3. Unbooked(WithoutSpool(p, piece[p])).source \in {None, piece[p].source}
    BY <1>2 DEF Unbooked, WithoutSpool, Row
  <2>4. [Unbooked(WithoutSpool(p, piece[p])) EXCEPT !.status = "pending", !.printer = None].source
          = Unbooked(WithoutSpool(p, piece[p])).source
    BY <2>2 DEF Row
  <2> QED BY <2>1, <2>3, <2>4
<1> QED BY <1>1, <1>3, StockRetold

\* Containers bought, received or split off are there, with what is in them.
LEMMA BoughtKeepsStock ==
  ASSUME StockInv, BookingInv, UNCHANGED <<piece, reserved>>, AssetsOK',
         \A a \in Stocks : asset'[a].there \/ (asset'[a].there = asset[a].there /\ left'[a] = left[a])
  PROVE  StockInv'
<1>1. \A s \in Stocks : asset[s] \in AssetRow
  BY DEF StockInv, AssetsOK, Assets
<1>2. Stocked'
  BY <1>1, StockedKept DEF StockInv
<1> QED BY <1>2, ReservedSame DEF StockInv

LEMMA PurchaseKeepsStock ==
  ASSUME StockInv, BookingInv, NEW ids \in SUBSET Assets, NEW size \in Nat, NEW price \in Nat,
         NEW m \in Materials \cup {None}, Purchase(ids, size, price, m)
  PROVE  StockInv'
<1> DEFINE row == [NoAsset EXCEPT !.there = TRUE, !.initial = size, !.price = price, !.material = m, !.lot = 0]
<1>1. row \in AssetRow /\ row.there
  BY DEF AssetRow, NoAsset
<1>2. /\ asset' = [a \in Assets |-> IF a \in ids THEN row ELSE asset[a]]
      /\ left' = [s \in Stocks |-> IF s \in ids THEN size ELSE left[s]]
      /\ UNCHANGED <<piece, reserved>>
  BY DEF Purchase, Bought
<1> HIDE DEF row
<1>3. AssetsOK'
  BY <1>1, <1>2 DEF StockInv, AssetsOK
<1>4. \A a \in Stocks : asset'[a].there \/ (asset'[a].there = asset[a].there /\ left'[a] = left[a])
  BY <1>1, <1>2 DEF Assets
<1> QED BY <1>2, <1>3, <1>4, BoughtKeepsStock

LEMMA IntakeKeepsStock ==
  ASSUME StockInv, BookingInv, OfficeOK, NEW d \in Desks, IntakeTx(d)
  PROVE  StockInv'
<1> DEFINE r == desk[d]
           lotted == r.on # None \/ Cardinality(r.ids) > 1
           number == Cardinality(lots) + 1
           lot == IF ~lotted THEN 0 ELSE IF r.n # 0 THEN r.n ELSE number
           row(a) == [NoAsset EXCEPT !.there = TRUE, !.initial = r.size[a], !.price = r.price,
                                     !.material = r.of, !.lot = lot]
<1>1. r \in Work /\ Proper(r) /\ r.op = "intake" /\ lot \in Nat
  BY FS_CardinalityType DEF IntakeTx, OfficeOK, DesksOK, LotsOK, Work
<1>2. CASE UNCHANGED <<left, asset>>
  BY <1>2, StockSame DEF IntakeTx
<1>3. CASE ~UNCHANGED <<left, asset>>
  <2>1. /\ asset' = [a \in Assets |-> IF a \in r.ids THEN row(a) ELSE asset[a]]
        /\ left' = [s \in Stocks |-> IF s \in r.ids THEN r.size[s] ELSE left[s]]
        /\ UNCHANGED <<piece, reserved>>
    BY <1>3 DEF IntakeTx, Bought
  <2> HIDE DEF lot
  <2>2. ASSUME NEW a \in r.ids PROVE row(a) \in AssetRow /\ row(a).there
    <3>1. r.size[a] \in Nat /\ r.price \in Nat /\ r.of \in Materials
      BY <1>1 DEF Proper, Work
    <3> QED BY <1>1, <3>1 DEF AssetRow, NoAsset
  <2> HIDE DEF row, r
  <2>3. AssetsOK'
    BY <2>1, <2>2 DEF StockInv, AssetsOK
  <2>4. \A a \in Stocks : asset'[a].there \/ (asset'[a].there = asset[a].there /\ left'[a] = left[a])
    BY <2>1, <2>2 DEF Assets
  <2> QED BY <2>1, <2>3, <2>4, BoughtKeepsStock
<1> QED BY <1>2, <1>3

\* What a split does to the row of a container.
SplitOff(r, a) == [NoAsset EXCEPT !.there = TRUE, !.parent = r.on, !.initial = r.size[a],
                                  !.material = asset[r.on].material]
SplitRow(r, a) == CASE a \in r.ids -> SplitOff(r, a)
                    [] a = r.on -> [asset[a] EXCEPT !.split = TRUE]
                    [] OTHER -> asset[a]

\* A part is there, of what was split, and only that is marked as split.
SplitAs(r, a, row) ==
  /\ a \in r.ids => /\ row.there /\ ~row.split /\ row.parent = r.on
                    /\ row.material = asset[r.on].material
  /\ a \notin r.ids => /\ row.there = asset[a].there /\ row.parent = asset[a].parent
                       /\ row.initial = asset[a].initial /\ row.price = asset[a].price
                       /\ row.material = asset[a].material
                       /\ row.split = IF a = r.on THEN TRUE ELSE asset[a].split

LEMMA SplitRows ==
  ASSUME AssetsOK, OfficeOK, NEW d \in Desks, desk[d].op = "split", NEW a \in Assets
  PROVE  SplitRow(desk[d], a) \in AssetRow /\ SplitAs(desk[d], a, SplitRow(desk[d], a))
<1> DEFINE r == desk[d]
<1>1. /\ r.ids \subseteq Stocks /\ r.size \in [r.ids -> Nat] /\ r.on \in Stocks
      /\ asset[a] \in AssetRow /\ asset[r.on] \in AssetRow /\ r.on \notin r.ids
  BY DEF OfficeOK, DesksOK, Proper, AssetsOK, Assets
<1> HIDE DEF r
<1>2. CASE a \in r.ids
  <2> DEFINE row == SplitOff(r, a)
  <2>1. SplitRow(r, a) = row
    BY <1>1, <1>2 DEF SplitRow
  <2>2. r.size[a] \in Nat /\ asset[r.on].material \in Materials \cup {None}
    BY <1>1, <1>2 DEF AssetRow
  <2>3. row \in AssetRow /\ row.there /\ ~row.split /\ row.parent = r.on /\ row.material = asset[r.on].material
    BY <1>1, <2>2 DEF AssetRow, NoAsset, SplitOff
  <2> HIDE DEF row
  <2> QED BY <1>2, <2>1, <2>3 DEF r, SplitAs
<1>3. CASE a \notin r.ids /\ a = r.on
  <2>1. SplitRow(r, a) = [asset[a] EXCEPT !.split = TRUE]
    BY <1>3 DEF SplitRow
  <2> QED BY <1>1, <1>3, <2>1 DEF AssetRow, r, SplitAs
<1>4. CASE a \notin r.ids /\ a # r.on
  <2>1. SplitRow(r, a) = asset[a]
    BY <1>4 DEF SplitRow
  <2> QED BY <1>1, <1>4, <2>1 DEF r, SplitAs
<1> QED BY <1>2, <1>3, <1>4

LEMMA SplitKeepsStock ==
  ASSUME StockInv, BookingInv, OfficeOK, NEW d \in Desks, SplitTx(d)
  PROVE  StockInv'
<1> DEFINE r == desk[d]
<1>1. /\ r.op = "split" /\ UNCHANGED piece
      /\ asset' = [a \in Assets |-> SplitRow(r, a)]
      /\ left' = [s \in Stocks |-> CASE s \in r.ids -> r.size[s]
                                     [] s = r.on    -> 0
                                     [] OTHER       -> left[s]]
      /\ reserved' = [reserved EXCEPT ![r.on] = 0]
  BY DEF SplitTx, SplitRow, SplitOff
<1>2. \A a \in Assets : /\ asset'[a] \in AssetRow
                        /\ SplitAs(r, a, asset'[a])
  BY <1>1, SplitRows DEF StockInv
<1>3. AssetsOK'
  BY <1>1, <1>2 DEF AssetsOK
<1>4. \A s \in Stocks : asset[s].there => asset'[s].there
  BY <1>2 DEF SplitAs, Assets
<1>5. Stocked'
  <2>1. \A s \in Stocks : asset'[s].there \/ (left[s] = 0 => left'[s] = 0)
    BY <1>1, <1>2 DEF Assets, SplitAs
  <2> QED BY <1>1, <1>4, <2>1, StockedKept DEF StockInv
<1>6. ReservedOK'
  <2>1. \A s : Booked(s, piece) \in Nat
    BY BookedIsNatural
  <2>2. reserved' \in [Stocks -> Nat] /\ \A s \in Stocks : reserved'[s] \in {0, reserved[s]}
    BY <1>1 DEF StockInv, ReservedOK
  <2>3. \A s \in Stocks : Booked(s, piece') = Booked(s, piece)
    BY <1>1
  <2>4. \A s \in Stocks : reserved'[s] <= Booked(s, piece)
    BY <2>1, <2>2 DEF StockInv, ReservedOK, NothingReservedForNobody
  <2> QED BY <2>2, <2>3, <2>4 DEF ReservedOK, NothingReservedForNobody
<1> QED BY <1>3, <1>5, <1>6 DEF StockInv

LEMMA DeleteKeepsStock ==
  ASSUME StockInv, BookingInv, NEW a \in Assets, DeleteAsset(a)
  PROVE  StockInv'
<1> DEFINE rows == [p \in Pieces |-> IF piece[p].source = a THEN [piece[p] EXCEPT !.source = None]
                                                            ELSE piece[p]]
<1>1. /\ Put(rows) /\ asset' = [asset EXCEPT ![a] = NoAsset]
      /\ left' = [s \in Stocks |-> IF s = a THEN 0 ELSE left[s]]
  BY DEF DeleteAsset
<1>2. \A p \in Pieces : piece'[p].source = IF piece[p].source = a THEN None ELSE piece[p].source
  BY <1>1, SourcesTyped DEF Put, Row
<1>3. ReservedOK'
  BY <1>1, PutRetells, RetoldKeeps DEF StockInv
<1>4. AssetsOK'
  <2>1. NoAsset \in AssetRow
    BY DEF NoAsset, AssetRow
  <2> QED BY <1>1, <2>1 DEF StockInv, AssetsOK
<1>5. \A s \in Stocks : s # a => asset'[s] = asset[s]
  BY <1>1 DEF StockInv, AssetsOK, Assets
<1>6. Stocked'
  <2>1. \A p \in Pieces : piece'[p].source # None => asset'[piece'[p].source].there
    BY <1>2, <1>5, SourcesTyped DEF StockInv, Stocked
  <2>2. \A s \in Stocks : asset'[s].there \/ left'[s] = 0
    BY <1>1, <1>5 DEF StockInv, Stocked
  <2> QED BY <2>1, <2>2 DEF Stocked
<1> QED BY <1>3, <1>4, <1>6 DEF StockInv

LEMMA CorrectKeepsStock ==
  ASSUME StockInv, BookingInv, OfficeOK, CorrectNext
  PROVE  StockInv'
<1>1. ASSUME NEW a \in Assets, NEW size \in Sizes, NEW price \in Prices, UpdateAsset(a, size, price)
      PROVE  StockInv'
  <2> DEFINE n == IF a \in Stocks THEN size ELSE 0
  <2>1. asset' = [asset EXCEPT ![a].initial = n, ![a].price = price] /\ UNCHANGED <<piece, reserved, left>>
    BY <1>1 DEF UpdateAsset, vars
  <2>2. n \in Nat /\ price \in Nat
    OBVIOUS
  <2> HIDE DEF n
  <2>3. PICK old \in AssetRow : old = asset[a]
    BY DEF StockInv, AssetsOK
  <2>4. PICK mid \in AssetRow : mid = [old EXCEPT !.initial = n]
    BY <2>2 DEF AssetRow
  <2>5. PICK new \in AssetRow : new = [mid EXCEPT !.price = price]
    BY <2>2 DEF AssetRow
  <2>5b. new.there = mid.there /\ mid.there = old.there
    BY <2>4, <2>5 DEF AssetRow
  <2>6. asset' = [asset EXCEPT ![a] = new]
    BY <2>1, <2>3, <2>4, <2>5 DEF StockInv, AssetsOK, AssetRow
  <2>7. AssetsOK' /\ \A b \in Assets : asset'[b].there = asset[b].there
    BY <2>3, <2>5b, <2>6 DEF StockInv, AssetsOK
  <2>8. Stocked'
    BY <2>1, <2>7, StockedKept DEF StockInv, Assets
  <2> QED BY <2>1, <2>7, <2>8, ReservedSame DEF StockInv
<1>2. ASSUME NEW s \in Stocks, NEW g, NEW used \in BOOLEAN, UpdateAssetStock(s, g, used) PROVE StockInv'
  <2>1. /\ UNCHANGED <<piece, reserved>> /\ left' = [left EXCEPT ![s] = g] /\ asset[s].there
        /\ left \in [Stocks -> Nat] /\ asset' = [asset EXCEPT ![s].used = used] /\ s \in Assets
    BY <1>2, ThereIs DEF UpdateAssetStock, OfficeOK, LeftOK, Assets
  <2>2. [asset[s] EXCEPT !.used = used] \in AssetRow /\ [asset[s] EXCEPT !.used = used].there
    BY <2>1 DEF StockInv, AssetsOK, AssetRow
  <2>3. AssetsOK' /\ \A a \in Assets : asset'[a].there = asset[a].there
    BY <2>1, <2>2 DEF StockInv, AssetsOK
  <2>4. \A t \in Stocks : asset'[t].there \/ (left[t] = 0 => left'[t] = 0)
    BY <2>1, <2>3 DEF Assets
  <2>5. Stocked'
    BY <2>1, <2>3, <2>4, StockedKept DEF StockInv, Assets
  <2> QED BY <2>1, <2>3, <2>5, ReservedSame DEF StockInv
<1>3. ASSUME NEW ids \in SUBSET Tanks, NEW m \in Materials, NEW size \in Sizes, NEW price \in Prices,
             CreateResinTank(ids, m, size, price)
      PROVE  StockInv'
  <2>1. ids \in SUBSET Assets /\ size \in Nat /\ price \in Nat
    BY DEF Assets, Stocks
  <2> QED BY <1>3, <2>1, PurchaseKeepsStock DEF CreateResinTank
<1>4. ASSUME NEW ids \in SUBSET Nozzles, NEW price \in Prices, CreateNozzle(ids, price)
      PROVE  StockInv'
  <2>1. ids \in SUBSET Assets /\ 0 \in Nat /\ price \in Nat
    BY DEF Assets
  <2> QED BY <1>4, <2>1, PurchaseKeepsStock DEF CreateNozzle
<1> QED BY <1>1, <1>2, <1>3, <1>4 DEF CorrectNext

LEMMA OfficeKeepsStock ==
  ASSUME StockInv, BookingInv, OfficeOK,
         CreateNext \/ PrinterNext \/ NozzleNext \/ LotNext \/ SplitNext \/ DeleteNext
  PROVE  StockInv'
<1>1. CASE CreateNext
  BY <1>1, StockSame DEF CreateNext, OpenCreate, CreateUnit, CreateCommit, Take, vars, office
<1>2. CASE PrinterNext
  <2>1. ASSUME NEW pr, NEW off, NEW maint, UpdatePrinterStock(pr, off, maint) PROVE StockInv'
    BY <2>1, RevertKeepsStock, StockSame DEF UpdatePrinterStock
  <2>2. ASSUME NEW d, DeleteTx(d) PROVE StockInv'
    BY <2>2, RevertKeepsStock DEF DeleteTx
  <2>3. ASSUME NEW d, NEW pr, DeleteCheck(d, pr) PROVE StockInv'
    BY <2>3, TakeKeepsStock DEF DeleteCheck
  <2> QED BY <1>2, <2>1, <2>2, <2>3 DEF PrinterNext
<1>3. CASE NozzleNext
  <2>1. ASSUME NEW d, NEW pr, NEW add, NEW remove, NEW wide, Fit(d, pr, add, remove, wide) PROVE StockInv'
    BY <2>1, TakeKeepsStock DEF Fit
  <2>2. ASSUME NEW d, FitTx(d) PROVE StockInv'
    BY <2>2, StockSame DEF FitTx, vars
  <2> QED BY <1>3, <2>1, <2>2, StockSame DEF NozzleNext, UpdatePrinter, Unfit, vars
<1>4. CASE LotNext
  <2>1. ASSUME NEW d, NEW ids, NEW name, NEW m, NEW size, NEW price, IntakeLook(d, ids, name, m, size, price)
        PROVE  StockInv'
    BY <2>1, TakeKeepsStock DEF IntakeLook
  <2>2. ASSUME NEW l, NEW name, RenameAssetBatch(l, name) PROVE StockInv'
    BY <2>2, StockSame DEF RenameAssetBatch, vars
  <2> QED BY <1>4, <2>1, <2>2, IntakeKeepsStock DEF LotNext
<1>5. CASE SplitNext
  <2>1. ASSUME NEW d, NEW s, NEW parts, SplitRead(d, s, parts) PROVE StockInv'
    BY <2>1, TakeKeepsStock DEF SplitRead
  <2>2. ASSUME NEW d, SplitFails(d) PROVE StockInv'
    BY <2>2, StockSame DEF SplitFails, vars, office
  <2> QED BY <1>5, <2>1, <2>2, SplitKeepsStock DEF SplitNext
<1>6. CASE DeleteNext
  BY <1>6, DeleteKeepsStock DEF DeleteNext
<1> QED BY <1>1, <1>2, <1>3, <1>4, <1>5, <1>6

----------------------------------------------------------------------------
(* Splits.                                                                 *)

\* What an intake or a split under way has set aside for its containers.
SetsAside(r) == r.op \in {"intake", "split"}

\* The parts are of the kind of what is split, and make up what was left of it.
Parted(r) ==
  /\ \E S \in {Spools, Tanks} : r.on \in S /\ r.ids \subseteq S
  /\ Near(Sum(r.size, r.ids), r.n)

\* What is set aside is not there yet, nobody else has set it aside, and the
\* parts of a split make up what was read: inductive without a word on what the
\* parent is by now, which nothing keeps.
PartsInv ==
  /\ \A d \in Desks : SetsAside(desk[d]) => \A a \in desk[d].ids : ~asset[a].there
  /\ \A d, e \in Desks : SetsAside(desk[d]) /\ SetsAside(desk[e]) /\ d # e => desk[d].ids \cap desk[e].ids = {}
  /\ \A d \in Desks : desk[d].op = "split" => Parted(desk[d])

\* A step that sets nothing aside and makes nothing there that is.
LEMMA PartsKept ==
  ASSUME PartsInv,
         \A d \in Desks : SetsAside(desk'[d]) => desk'[d] = desk[d],
         \A d \in Desks : SetsAside(desk'[d]) => \A a \in desk[d].ids : asset'[a].there => asset[a].there
  PROVE  PartsInv'
<1>1. \A d \in Desks : SetsAside(desk'[d]) => SetsAside(desk[d])
  BY DEF SetsAside
<1>2. \A d \in Desks : SetsAside(desk'[d]) => \A a \in desk'[d].ids : ~asset'[a].there
  BY <1>1 DEF PartsInv
<1>3. \A d, e \in Desks : SetsAside(desk'[d]) /\ SetsAside(desk'[e]) /\ d # e => desk'[d].ids \cap desk'[e].ids = {}
  BY <1>1 DEF PartsInv
<1>4. \A d \in Desks : desk'[d].op = "split" => Parted(desk'[d])
  BY DEF PartsInv, SetsAside
<1> QED
  BY <1>2, <1>3, <1>4 DEF PartsInv, SetsAside, Parted

LEMMA ElsewhereKeepsParts ==
  ASSUME PartsInv, DesksOK, NEW d \in Desks, NEW r, ~SetsAside(r),
         desk' = [desk EXCEPT ![d] = r], asset' = asset
  PROVE  PartsInv'
BY PartsKept DEF DesksOK

LEMMA TakeKeepsParts ==
  ASSUME PartsInv, DesksOK, NEW d \in Desks, NEW r, r.op \notin {"intake", "split"}, Take(d, r)
  PROVE  PartsInv'
BY ElsewhereKeepsParts DEF Take, office, SetsAside

LEMMA DoneKeepsParts ==
  ASSUME PartsInv, DesksOK, NEW d \in Desks, Done(d), asset' = asset
  PROVE  PartsInv'
<1>1. ~SetsAside(AtRest)
  BY DEF AtRest, SetsAside
<1> QED
  BY <1>1, ElsewhereKeepsParts DEF Done

LEMMA DesklessKeepsParts ==
  ASSUME PartsInv, desk' = desk, asset' = asset
  PROVE  PartsInv'
BY PartsKept

\* What is set aside when a request begins is free.
LEMMA BeginKeepsParts ==
  ASSUME PartsInv, DesksOK, NEW d \in Desks, NEW r, Take(d, r), SetsAside(r),
         \A a \in r.ids : ~asset[a].there /\ \A e \in Desks : a \notin desk[e].ids,
         r.op = "split" => Parted(r)
  PROVE  PartsInv'
<1>1. \A e \in Desks : desk'[e] = IF e = d THEN r ELSE desk[e]
  BY DEF Take, DesksOK
<1>2. asset' = asset
  BY DEF Take, office
<1>3. \A e \in Desks : SetsAside(desk'[e]) => \A a \in desk'[e].ids : ~asset'[a].there
  BY <1>1, <1>2 DEF PartsInv
<1>4. \A e, f \in Desks : SetsAside(desk'[e]) /\ SetsAside(desk'[f]) /\ e # f => desk'[e].ids \cap desk'[f].ids = {}
  BY <1>1 DEF PartsInv
<1>5. \A e \in Desks : desk'[e].op = "split" => Parted(desk'[e])
  BY <1>1 DEF PartsInv
<1> QED
  BY <1>3, <1>4, <1>5 DEF PartsInv, SetsAside, Parted

LEMMA FreeToSetAside ==
  ASSUME NEW S \in {Spools, Tanks}, NEW a \in Absent(S)
  PROVE  a \in S /\ ~asset[a].there /\ \A e \in Desks : a \notin desk[e].ids
BY ThereIs DEF Absent

LEMMA LotKeepsParts ==
  ASSUME PartsInv, OfficeOK, LotNext
  PROVE  PartsInv'
<1>0. DesksOK /\ desk \in [Desks -> Work]
  BY DEF OfficeOK, DesksOK
<1>1. ASSUME NEW d \in Desks, NEW ids, NEW name, NEW m, NEW size, NEW price,
             IntakeLook(d, ids, name, m, size, price)
      PROVE  PartsInv'
  <2> DEFINE found == LET l == LotOf(name, m) IN IF l = {} THEN 0 ELSE (CHOOSE x \in l : TRUE).number
             r == [AtRest EXCEPT !.op = "intake", !.ids = ids, !.on = name, !.of = m, !.n = found,
                                 !.size = [a \in ids |-> size], !.price = price]
  <2>1. Take(d, r)
    BY <1>1 DEF IntakeLook
  <2> HIDE DEF found
  <2>2. r.op = "intake" /\ r.ids = ids
    BY DEF AtRest
  <2> HIDE DEF r
  <2>3. ids \subseteq Absent(Spools)
    BY <1>1 DEF IntakeLook
  <2>4. \A a \in r.ids : ~asset[a].there /\ \A e \in Desks : a \notin desk[e].ids
    BY <2>2, <2>3, FreeToSetAside
  <2> QED
    BY <1>0, <2>1, <2>2, <2>4, BeginKeepsParts DEF SetsAside
<1>2. ASSUME NEW d \in Desks, IntakeTx(d) PROVE PartsInv'
  <2>1. desk[d].op = "intake" /\ \A e \in Desks : desk'[e] = IF e = d THEN AtRest ELSE desk[e]
    BY <1>0, <1>2 DEF IntakeTx, Done
  <2>2. ~SetsAside(AtRest) /\ SetsAside(desk[d])
    BY <2>1 DEF AtRest, SetsAside
  <2>3. \A a \in Assets : a \notin desk[d].ids => asset'[a] = asset[a] \/ asset' = asset
    BY <1>2 DEF IntakeTx
  <2>4. ASSUME NEW e \in Desks, SetsAside(desk'[e]), NEW a \in desk[e].ids, asset'[a].there PROVE asset[a].there
    <3>1. e # d /\ SetsAside(desk[e])
      BY <2>1, <2>2, <2>4
    <3>2. a \notin desk[d].ids /\ a \in Assets
      BY <1>0, <2>2, <3>1 DEF PartsInv, DesksOK, Proper, SetsAside, Assets
    <3> QED BY <2>3, <2>4, <3>2
  <2> QED
    BY <2>1, <2>2, <2>4, PartsKept
<1>3. ASSUME NEW l, NEW name, RenameAssetBatch(l, name) PROVE PartsInv'
  BY <1>3, DesklessKeepsParts DEF RenameAssetBatch
<1> QED
  BY <1>1, <1>2, <1>3 DEF LotNext

LEMMA SplitKeepsParts ==
  ASSUME PartsInv, OfficeOK, SplitNext
  PROVE  PartsInv'
<1>0. DesksOK /\ desk \in [Desks -> Work]
  BY DEF OfficeOK, DesksOK
<1>1. ASSUME NEW d \in Desks, NEW s, NEW parts, SplitRead(d, s, parts) PROVE PartsInv'
  <2> DEFINE r == [AtRest EXCEPT !.op = "split", !.on = s, !.ids = DOMAIN parts, !.size = parts, !.n = left[s]]
  <2>1. Take(d, r)
    BY <1>1 DEF SplitRead
  <2>2. r.op = "split" /\ r.on = s /\ r.ids = DOMAIN parts /\ r.size = parts /\ r.n = left[s]
    BY DEF AtRest
  <2> HIDE DEF r
  <2>3. PICK S \in {Spools, Tanks} : s \in S /\ DOMAIN parts \subseteq Absent(S)
    BY <1>1 DEF SplitRead, There, Stocks
  <2>4. \A a \in r.ids : a \in S /\ ~asset[a].there /\ \A e \in Desks : a \notin desk[e].ids
    BY <2>2, <2>3, FreeToSetAside
  <2>5. Near(Sum(parts, DOMAIN parts), left[s])
    BY <1>1 DEF SplitRead, Sum
  <2>6. Parted(r)
    BY <2>2, <2>3, <2>4, <2>5 DEF Parted
  <2> QED
    BY <1>0, <2>1, <2>2, <2>4, <2>6, BeginKeepsParts DEF SetsAside
<1>2. ASSUME NEW d \in Desks, SplitTx(d) PROVE PartsInv'
  <2>1. desk[d].op = "split" /\ \A e \in Desks : desk'[e] = IF e = d THEN AtRest ELSE desk[e]
    BY <1>0, <1>2 DEF SplitTx, Done
  <2>2. ~SetsAside(AtRest) /\ SetsAside(desk[d])
    BY <2>1 DEF AtRest, SetsAside
  <2>3. \A a \in Assets : a \notin desk[d].ids /\ a # desk[d].on => asset'[a] = asset[a]
    BY <1>2 DEF SplitTx
  <2>4. ASSUME NEW e \in Desks, SetsAside(desk'[e]), NEW a \in desk[e].ids, asset'[a].there PROVE asset[a].there
    <3>1. e # d /\ SetsAside(desk[e])
      BY <2>1, <2>2, <2>4
    <3>2. a \notin desk[d].ids /\ a \in Assets
      BY <1>0, <2>2, <3>1 DEF PartsInv, DesksOK, Proper, SetsAside, Assets
    <3>3. CASE a = desk[d].on
      BY <1>2, <3>3 DEF SplitTx
    <3>4. CASE a # desk[d].on
      BY <2>3, <2>4, <3>2, <3>4
    <3> QED BY <3>3, <3>4
  <2> QED
    BY <2>1, <2>2, <2>4, PartsKept
<1>3. ASSUME NEW d \in Desks, SplitFails(d) PROVE PartsInv'
  BY <1>0, <1>3, DoneKeepsParts DEF SplitFails, office
<1> QED
  BY <1>1, <1>2, <1>3 DEF SplitNext

LEMMA StockKeepsParts ==
  ASSUME PartsInv, OfficeOK, AssetsOK, DeleteNext \/ CorrectNext
  PROVE  PartsInv'
<1>1. ASSUME UNCHANGED desk,
             \A a \in Assets : (\E d \in Desks : a \in desk[d].ids) /\ asset'[a].there => asset[a].there
      PROVE  PartsInv'
  <2>1. \A d \in Desks : SetsAside(desk[d]) => desk[d].ids \subseteq Assets
    BY DEF OfficeOK, DesksOK, Proper, SetsAside, Assets
  <2> QED
    BY <1>1, <2>1, PartsKept
<1>2. ASSUME NEW a \in Assets, DeleteAsset(a) PROVE PartsInv'
  <2>1. ~NoAsset.there
    BY DEF NoAsset
  <2>2. UNCHANGED desk /\ asset' = [asset EXCEPT ![a] = NoAsset]
    BY <1>2 DEF DeleteAsset
  <2> QED
    BY <1>1, <2>1, <2>2 DEF AssetsOK
<1>3. ASSUME NEW a, NEW size, NEW price, UpdateAsset(a, size, price) PROVE PartsInv'
  <2>1. UNCHANGED desk /\ a \in There(Assets)
    BY <1>3 DEF UpdateAsset
  <2>2. a \in Assets /\ asset[a].there /\ \A b \in Assets : b # a => asset'[b] = asset[b]
    BY <1>3, <2>1, ThereIs DEF UpdateAsset, AssetsOK
  <2> QED
    BY <1>1, <2>1, <2>2
<1>4. ASSUME NEW s, NEW g, NEW used, UpdateAssetStock(s, g, used) PROVE PartsInv'
  <2>1. UNCHANGED desk /\ s \in There(Stocks)
    BY <1>4 DEF UpdateAssetStock
  <2>2. s \in Assets /\ asset[s].there /\ \A b \in Assets : b # s => asset'[b] = asset[b]
    BY <1>4, <2>1, ThereIs DEF UpdateAssetStock, AssetsOK, Assets
  <2> QED
    BY <1>1, <2>1, <2>2
<1>5. ASSUME NEW S, NEW ids, ids \subseteq Absent(S), NEW size, NEW price, NEW m, Purchase(ids, size, price, m)
      PROVE  PartsInv'
  <2>1. UNCHANGED desk /\ \A a \in Assets : a \notin ids => asset'[a] = asset[a]
    BY <1>5 DEF Purchase, Bought
  <2>2. \A a \in ids : \A d \in Desks : a \notin desk[d].ids
    BY <1>5 DEF Absent
  <2> QED
    BY <1>1, <2>1, <2>2
<1> QED
  BY <1>2, <1>3, <1>4, <1>5 DEF DeleteNext, CorrectNext, CreateResinTank, CreateNozzle

LEMMA OthersKeepParts ==
  ASSUME PartsInv, OfficeOK, CreateNext \/ PrinterNext \/ NozzleNext \/ ShopNext
  PROVE  PartsInv'
<1>0. DesksOK /\ desk \in [Desks -> Work]
  BY DEF OfficeOK, DesksOK
<1>1. CASE CreateNext
  <2>1. ASSUME NEW d \in Desks, NEW n, NEW m, OpenCreate(d, n, m) PROVE PartsInv'
    <3>1. [AtRest EXCEPT !.op = "create", !.on = m, !.n = n].op \notin {"intake", "split"}
      BY DEF AtRest
    <3> QED
      BY <1>0, <2>1, <3>1, TakeKeepsParts DEF OpenCreate
  <2>2. ASSUME NEW d \in Desks, NEW answer \in Answers, CreateUnit(d, answer) PROVE PartsInv'
    <3>1. asset' = asset
      BY <2>2 DEF CreateUnit, office
    <3>2. CASE Done(d)
      BY <1>0, <3>1, <3>2, DoneKeepsParts
    <3>3. CASE ~Done(d)
      <4>1. PICK r \in Work : r.op = "create" /\ desk' = [desk EXCEPT ![d] = r]
        BY <1>0, <2>2, <3>3, UnitStep
      <4> QED
        BY <1>0, <3>1, <4>1, ElsewhereKeepsParts DEF SetsAside
    <3> QED
      BY <3>2, <3>3
  <2>3. ASSUME NEW d \in Desks, CreateCommit(d) PROVE PartsInv'
    BY <1>0, <2>3, DoneKeepsParts DEF CreateCommit
  <2> QED
    BY <1>1, <2>1, <2>2, <2>3 DEF CreateNext
<1>2. CASE PrinterNext
  <2>1. ASSUME NEW pr, NEW off, NEW maint, UpdatePrinterStock(pr, off, maint) PROVE PartsInv'
    BY <2>1, DesklessKeepsParts DEF UpdatePrinterStock
  <2>2. ASSUME NEW d \in Desks, DeleteTx(d) PROVE PartsInv'
    BY <1>0, <2>2, DoneKeepsParts DEF DeleteTx
  <2>3. ASSUME NEW d \in Desks, NEW pr, DeleteCheck(d, pr) PROVE PartsInv'
    <3>1. [AtRest EXCEPT !.op = "remove", !.on = pr].op \notin {"intake", "split"}
      BY DEF AtRest
    <3> QED
      BY <1>0, <2>3, <3>1, TakeKeepsParts DEF DeleteCheck
  <2> QED
    BY <1>2, <2>1, <2>2, <2>3 DEF PrinterNext
<1>3. CASE NozzleNext
  <2>1. ASSUME NEW d \in Desks, NEW pr, NEW add, NEW remove, NEW wide, Fit(d, pr, add, remove, wide)
        PROVE  PartsInv'
    <3> DEFINE targets == {pr} \cup IF wide THEN {q \in Siblings(pr) : ~Resinous(q)} ELSE {}
               r == [AtRest EXCEPT !.op = "fit", !.on = pr, !.out = remove, !.of = add, !.ids = targets]
    <3>1. Take(d, r)
      BY <2>1 DEF Fit
    <3> HIDE DEF targets
    <3>2. r.op \notin {"intake", "split"}
      BY DEF AtRest
    <3> QED
      BY <1>0, <3>1, <3>2, TakeKeepsParts
  <2>2. ASSUME NEW d \in Desks, FitTx(d) PROVE PartsInv'
    BY <1>0, <2>2, DoneKeepsParts DEF FitTx
  <2> QED
    BY <1>3, <2>1, <2>2, DesklessKeepsParts DEF NozzleNext, UpdatePrinter, Unfit
<1>4. CASE ShopNext
  BY <1>4, DesklessKeepsParts DEF ShopNext, office
<1> QED
  BY <1>1, <1>2, <1>3, <1>4

LEMMA PartsStep == AssetsOK /\ OfficeOK /\ PartsInv /\ [FleetNext]_fleetVars => PartsInv'
<1> SUFFICES ASSUME AssetsOK, OfficeOK, PartsInv, [FleetNext]_fleetVars PROVE PartsInv'
  OBVIOUS
<1>1. CASE FleetNext
  BY <1>1, LotKeepsParts, SplitKeepsParts, StockKeepsParts, OthersKeepParts DEF FleetNext
<1>2. CASE UNCHANGED fleetVars
  BY <1>2, DesklessKeepsParts DEF fleetVars, office
<1> QED
  BY <1>1, <1>2

LEMMA ListedAre ==
  /\ \A S \in {Spools, Tanks} : \A m :
       Listed(S, m) = {s \in S : asset[s].there /\ ~asset[s].split /\ asset[s].material = m}
  /\ \A S \in {Spools, Tanks} : \A m :
       Priced(S, m) = {s \in S : asset[s].there /\ asset[s].material = m /\ asset[s].parent = None
                                 /\ asset[s].price > 0 /\ asset[s].initial > 0}
BY ThereIs DEF Listed, Inventory, Priced

LEMMA ListedAreNext ==
  ( /\ \A S \in {Spools, Tanks} : \A m :
         Listed(S, m) = {s \in S : asset[s].there /\ ~asset[s].split /\ asset[s].material = m}
    /\ \A S \in {Spools, Tanks} : \A m :
         Priced(S, m) = {s \in S : asset[s].there /\ asset[s].material = m /\ asset[s].parent = None
                                   /\ asset[s].price > 0 /\ asset[s].initial > 0} )'
BY ListedAre, PTL

\* Nothing is reserved of a stock that no booked or running piece uses.
LEMMA UnusedIsFree ==
  ASSUME ReservedOK, NEW s \in Stocks, \A p \in Pieces : piece[p].source = s => piece[p].status \notin Busy
  PROVE  reserved[s] = 0
<1>1. BookedOn(s, piece) = {}
  BY DEF BookedOn
<1>2. Sum(Need, {}) = 0
  BY SumOpens, FS_EmptySet
<1>3. Booked(s, piece) = 0
  BY <1>1, <1>2, BookedIsASum
<1> QED BY <1>3 DEF ReservedOK, NothingReservedForNobody

LEMMA SplitMoves ==
  ASSUME StockInv, BookingInv, OfficeOK, PartsInv, NEW d \in Desks, SplitTx(d), StillAsRead(d),
         NEW S \in {Spools, Tanks}
  PROVE  /\ Near(MapThenSumSet(LAMBDA s : left'[s], S), MapThenSumSet(LAMBDA s : left[s], S))
         /\ \A m \in Materials : /\ Near(OnHand(S, m)[1]', OnHand(S, m)[1])
                                 /\ OnHand(S, m)[2]' = OnHand(S, m)[2]
                                 /\ Pricing(S, m)' = Pricing(S, m)
<1> DEFINE r == desk[d]
           k == r.on
           ids == r.ids
<1>1. /\ r.op = "split" /\ Parted(r)
      /\ k \in Stocks /\ k \notin ids /\ ids \subseteq Stocks /\ r.size \in [ids -> Nat]
  BY DEF SplitTx, PartsInv, OfficeOK, DesksOK, Proper
<1>2. /\ asset' = [a \in Assets |-> SplitRow(r, a)]
      /\ left' = [s \in Stocks |-> CASE s \in ids -> r.size[s]
                                     [] s = k     -> 0
                                     [] OTHER     -> left[s]]
      /\ reserved' = [reserved EXCEPT ![k] = 0]
  BY DEF SplitTx, SplitRow, SplitOff
<1>3. /\ asset[k].there /\ ~asset[k].split /\ \A a \in ids : ~asset[a].there
      /\ Near(Sum(r.size, ids), left[k])
      /\ reserved[k] = 0
      /\ (k \in S /\ ids \subseteq S) \/ (k \notin S /\ ids \cap S = {})
  <2>1. asset[k].there /\ ~asset[k].split /\ reserved[k] = 0 /\ left[k] = r.n
    BY DEF StillAsRead, SplitTx
  <2>2. \A a \in ids : ~asset[a].there
    BY <1>1 DEF PartsInv, SetsAside
  <2>3. Near(Sum(r.size, ids), left[k])
    BY <1>1, <2>1 DEF Parted
  <2>4. PICK T \in {Spools, Tanks} : k \in T /\ ids \subseteq T
    BY <1>1 DEF Parted
  <2>5. (k \in S /\ ids \subseteq S) \/ (k \notin S /\ ids \cap S = {})
    BY <2>4, KindsAreDistinct
  <2> QED BY <2>1, <2>2, <2>3, <2>5
\* The rows after.
<1>4. \A a \in Stocks :
        /\ a \in ids => /\ asset'[a].there /\ ~asset'[a].split /\ asset'[a].parent = k
                        /\ asset'[a].material = asset[k].material
        /\ a \notin ids => /\ asset'[a].there = asset[a].there /\ asset'[a].parent = asset[a].parent
                           /\ asset'[a].initial = asset[a].initial /\ asset'[a].price = asset[a].price
                           /\ asset'[a].material = asset[a].material
                           /\ asset'[a].split = IF a = k THEN TRUE ELSE asset[a].split
  <2> TAKE a \in Stocks
  <2>1. a \in Assets /\ asset'[a] = SplitRow(desk[d], a) /\ AssetsOK /\ desk[d].op = "split"
    BY <1>1, <1>2 DEF Assets, StockInv
  <2>2. SplitAs(desk[d], a, asset'[a])
    BY <2>1, SplitRows
  <2> QED BY <2>2 DEF SplitAs
<1> DEFINE size == r.size
<1>5. /\ \A s \in ids : left'[s] = size[s] /\ left[s] = 0 /\ size[s] \in Nat
      /\ left'[k] = 0
      /\ \A s \in Stocks : s \notin ids /\ s # k => left'[s] = left[s]
      /\ \A s \in Stocks : left[s] \in Nat /\ left'[s] \in Nat
  BY <1>1, <1>2, <1>3 DEF StockInv, Stocked, OfficeOK, LeftOK
\* Nothing is promised of any of them.
<1>6. reserved' = reserved /\ reserved[k] = 0 /\ \A s \in ids : reserved[s] = 0
  <2>1. reserved[k] = 0
    BY <1>3
  <2>2. ASSUME NEW s \in ids PROVE reserved[s] = 0
    <3>1. \A p \in Pieces : piece[p].source # s
      BY <1>1, <1>3, <2>2 DEF StockInv, Stocked, Stocks
    <3>2. s \in Stocks
      BY <1>1
    <3> QED BY <3>1, <3>2, UnusedIsFree DEF StockInv
  <2>3. reserved' = reserved
    BY <1>2, <2>1 DEF StockInv, ReservedOK
  <2> QED BY <2>1, <2>2, <2>3
<1>7. \A s \in Stocks : reserved[s] \in Nat
  BY DEF StockInv, ReservedOK
<1>8. S \subseteq Stocks /\ IsFiniteSet(S) /\ IsFiniteSet(ids) /\ k # None
  <2>1. S \subseteq Stocks /\ k # None
    BY <1>1 DEF Stocks
  <2> QED BY <1>1, <2>1, RowsAreFinite, FS_Subset
<1>9. /\ Sum(left', ids) \in Nat /\ left[k] \in Nat
      /\ Near(Sum(left', ids), left[k])
  <2>1. Sum(left', ids) = Sum(size, ids)
    BY <1>5, <1>8, SumSame
  <2>2. Sum(left', ids) \in Nat
    BY <1>5, <1>8, <2>1, SumIsNatural
  <2> QED BY <1>1, <1>3, <1>5, <2>1, <2>2
<1>10. Sum(reserved, ids) = reserved[k]
  BY <1>6, <1>8, SumOfNothing
<1> HIDE DEF r, k, ids, size
\* Whatever k counts for on its own, its parts count for.
<1>11. ASSUME NEW L, L \subseteq S, k \in L, ids \cap L = {}, ids \subseteq S
       PROVE  /\ Near(Sum(left', (L \ {k}) \cup ids), Sum(left, L))
              /\ Sum(left', (L \ {k}) \cup ids) \in Nat /\ Sum(left, L) \in Nat
              /\ Sum(reserved, (L \ {k}) \cup ids) = Sum(reserved, L)
  <2> DEFINE M == (L \ {k}) \cup ids
  <2>1. L \subseteq Stocks /\ M \subseteq Stocks /\ IsFiniteSet(L) /\ IsFiniteSet(M) /\ ids \subseteq M
    <3>1. L \subseteq Stocks /\ M \subseteq Stocks /\ ids \subseteq M
      BY <1>8, <1>11
    <3> QED BY <3>1, RowsAreFinite, FS_Subset
  <2>2. M = (L \ {k}) \cup ids
    OBVIOUS
  <2> HIDE DEF M
  <2>3. (\A x \in L : left[x] \in Nat) /\ (\A x \in M : left'[x] \in Nat)
    BY <1>5, <2>1
  <2>4. \A x \in L \ {k} : left'[x] = left[x]
    BY <1>5, <1>11, <2>1
  <2>5. Near(Sum(left', M), Sum(left, L)) /\ Sum(left', M) \in Nat /\ Sum(left, L) \in Nat
    <3>1. Sum(left', M) + left[k] = Sum(left, L) + Sum(left', ids)
      BY <1>11, <2>1, <2>2, <2>3, <2>4, SumMoved
    <3>2. Sum(left', M) \in Nat /\ Sum(left, L) \in Nat
      BY <2>1, <2>3, SumIsNatural
    <3> QED BY <1>9, <3>1, <3>2 DEF Near
  <2>6. (\A x \in L : reserved[x] \in Nat) /\ (\A x \in M : reserved[x] \in Nat)
    BY <1>7, <2>1
  <2>7. Sum(reserved, M) = Sum(reserved, L)
    <3>1. Sum(reserved, M) + reserved[k] = Sum(reserved, L) + Sum(reserved, ids)
      BY <1>11, <2>1, <2>2, <2>6, SumMoved
    <3>2. Sum(reserved, M) \in Nat /\ Sum(reserved, L) \in Nat
      BY <2>1, <2>6, SumIsNatural
    <3> QED BY <1>6, <1>10, <3>1, <3>2
  <2> QED BY <2>2, <2>5, <2>7
\* Where neither k nor its parts are counted, all is as it was.
<1>12. ASSUME NEW L, L \subseteq S, k \notin L, ids \cap L = {} PROVE Near(Sum(left', L), Sum(left, L))
  <2>1. IsFiniteSet(L) /\ \A x \in L : left'[x] = left[x] /\ left[x] \in Nat
    BY <1>5, <1>8, <1>12, FS_Subset
  <2>2. Sum(left', L) = Sum(left, L) /\ Sum(left, L) \in Nat
    BY <2>1, SumSame, SumIsNatural
  <2> QED BY <2>2 DEF Near
<1>13. Near(Sum(left', S), Sum(left, S))
  <2>1. CASE k \notin S
    BY <1>3, <1>12, <2>1
  <2>2. CASE k \in S
    <3> DEFINE L == S \ ids
               M == (L \ {k}) \cup ids
    <3>1. ids \subseteq S
      BY <1>3, <2>2
    <3>2. L \subseteq S /\ k \in L /\ ids \cap L = {} /\ M = S \ {k}
      BY <1>1, <2>2, <3>1 DEF k, ids
    <3> HIDE DEF L
    <3>3. Near(Sum(left', M), Sum(left, L)) /\ Sum(left', M) \in Nat
      BY <1>11, <3>1, <3>2
    <3>4. Sum(left, S) = Sum(left, ids) + Sum(left, L)
      <4>1. \A x \in S : left[x] \in Nat
        BY <1>5, <1>8
      <4>2. Sum(left, S) = Sum(left, ids) + Sum(left, S \ ids)
        BY <1>8, <3>1, <4>1, SumOfParts
      <4> QED BY <4>2 DEF L
    <3>5. Sum(left, ids) = 0
      BY <1>5, <1>8, SumOfNothing
    <3>6. Sum(left', S) = left'[k] + Sum(left', M)
      <4>1. \A x \in S : left'[x] \in Nat
        BY <1>5, <1>8
      <4>2. Sum(left', S) = left'[k] + Sum(left', S \ {k})
        BY <1>8, <2>2, <4>1, SumWithout
      <4> QED BY <3>2, <4>2
    <3>7. Sum(left, L) \in Nat
      <4>1. IsFiniteSet(L) /\ \A x \in L : left[x] \in Nat
        BY <1>5, <1>8, <3>2, FS_Subset
      <4> QED BY <4>1, SumIsNatural
    <3> HIDE DEF M
    <3> QED BY <1>5, <3>3, <3>4, <3>5, <3>6, <3>7 DEF Near
  <2> QED BY <2>1, <2>2
<1>14. ASSUME NEW m PROVE Near(OnHand(S, m)[1]', OnHand(S, m)[1]) /\ OnHand(S, m)[2]' = OnHand(S, m)[2]
  <2> DEFINE L == Listed(S, m)
             M == Listed(S, m)'
  <2>1. L = {s \in S : asset[s].there /\ ~asset[s].split /\ asset[s].material = m}
    BY ListedAre
  <2>2. M = {s \in S : asset'[s].there /\ ~asset'[s].split /\ asset'[s].material = m}
    BY ListedAreNext
  <2>3. OnHand(S, m) = <<Sum(left, L), Sum(reserved, L)>> /\ OnHand(S, m)' = <<Sum(left', M), Sum(reserved', M)>>
    BY OnHandIsSums, OfTheNextState
  <2> HIDE DEF L, M
  <2>4. Near(Sum(left', M), Sum(left, L)) /\ Sum(reserved, M) = Sum(reserved, L)
    <3>1. CASE k \in S /\ asset[k].material = m
      <4>1. ids \subseteq S /\ L \subseteq S /\ k \in L /\ ids \cap L = {}
        BY <1>3, <2>1, <3>1
      <4>2. M = (L \ {k}) \cup ids
        <5>1. \A x \in S : x \in Stocks
          BY <1>8
        <5>2. ASSUME NEW x \in S PROVE x \in M <=> (x \in L /\ x # k) \/ x \in ids
          <6>1. CASE x \in ids
            BY <1>4, <2>2, <3>1, <5>1, <6>1
          <6>2. CASE x \notin ids
            BY <1>4, <2>1, <2>2, <5>1, <6>2
          <6> QED BY <6>1, <6>2
        <5>3. M \subseteq S
          BY <2>2
        <5> QED BY <4>1, <5>2, <5>3
      <4> QED BY <1>11, <4>1, <4>2
    <3>2. CASE ~(k \in S /\ asset[k].material = m)
      <4>1. L \subseteq S /\ k \notin L /\ ids \cap L = {}
        BY <1>3, <2>1, <3>2
      <4>2. M = L
        <5>1. \A x \in S : x \in Stocks
          BY <1>8
        <5>2. ASSUME NEW x \in S PROVE x \in M <=> x \in L
          <6>1. CASE x \in ids
            BY <1>3, <1>4, <2>1, <2>2, <3>2, <5>1, <6>1
          <6>2. CASE x \notin ids
            BY <1>4, <2>1, <2>2, <3>2, <5>1, <6>2
          <6> QED BY <6>1, <6>2
        <5> QED BY <2>1, <2>2, <5>2
      <4> QED BY <1>12, <4>1, <4>2
    <3> QED BY <3>1, <3>2
  <2> QED BY <1>6, <2>3, <2>4
<1>15. ASSUME NEW m PROVE Pricing(S, m)' = Pricing(S, m)
  <2> DEFINE L == Priced(S, m)
             M == Priced(S, m)'
             paid == [a \in L |-> asset[a].price]
             paidNext == [a \in M |-> asset'[a].price]
             bought == [a \in L |-> asset[a].initial]
             boughtNext == [a \in M |-> asset'[a].initial]
  <2>1. L = {s \in S : asset[s].there /\ asset[s].material = m /\ asset[s].parent = None
                       /\ asset[s].price > 0 /\ asset[s].initial > 0}
    BY ListedAre
  <2>2. M = {s \in S : asset'[s].there /\ asset'[s].material = m /\ asset'[s].parent = None
                       /\ asset'[s].price > 0 /\ asset'[s].initial > 0}
    BY ListedAreNext
  <2>3. Pricing(S, m) = <<Sum(paid, L), Sum(bought, L)>> /\ Pricing(S, m)' = <<Sum(paidNext, M), Sum(boughtNext, M)>>
    BY <1>8, PricingIsSums, OfTheNextState
  <2>4. M = L /\ \A a \in L : asset'[a].price = asset[a].price /\ asset'[a].initial = asset[a].initial
    <3> HIDE DEF L, M
    <3>1. \A a \in S : a \in L => a \notin ids
      BY <1>3, <2>1
    <3>2. \A a \in S : a \in M => a \notin ids
      BY <1>4, <1>8, <2>2
    <3> QED BY <1>4, <1>8, <2>1, <2>2, <3>1, <3>2
  <2>5. paidNext = paid /\ boughtNext = bought
    BY <2>4
  <2> HIDE DEF L, M, paid, paidNext, bought, boughtNext
  <2> QED BY <2>3, <2>4, <2>5
<1> QED BY <1>13, <1>14, <1>15 DEF Sum

----------------------------------------------------------------------------
(* The theorems.                                                           *)

LEMMA OfficeInit == FleetInit => OfficeOK /\ CapInv /\ WaitingWorkHasAMachine /\ IntakeInv
<1> SUFFICES ASSUME FleetInit PROVE OfficeOK /\ CapInv /\ WaitingWorkHasAMachine /\ IntakeInv
  OBVIOUS
<1>1. /\ \A d \in Desks : desk[d] = AtRest
      /\ desk \in [Desks -> Work]
  BY AtRestProper DEF FleetInit, Proper
<1>2. AtRest.op = "none"
  BY DEF AtRest
<1>3. OfficeOK
  <2>1. PICK m \in Models : machine = [pr \in Printers |-> [there |-> pr \in Owned, model |-> m, off |-> FALSE,
                                                          maint |-> FALSE, nozzles |-> {}]]
    BY DEF FleetInit
  <2>2. MachinesOK
    BY <2>1 DEF MachinesOK, Machine
  <2>3. DesksOK
    BY <1>1, AtRestProper DEF DesksOK
  <2>4. LeftOK /\ LotsOK
    BY FS_EmptySet DEF FleetInit, Init, LeftOK, LotsOK
  <2> QED
    BY <2>2, <2>3, <2>4 DEF OfficeOK
<1>4. CapInv
  BY <1>1, <1>2 DEF CapInv
<1>5. WaitingWorkHasAMachine
  BY DEF FleetInit, Init, Fresh, Waiting, WaitingWorkHasAMachine
<1>6. IntakeInv
  BY <1>1, <1>2 DEF IntakeInv, IntakesAreNeverTurnedAway
<1> QED
  BY <1>3, <1>4, <1>5, <1>6

LEMMA TypesStep == BookingInv /\ OfficeOK /\ [FleetNext]_fleetVars => BookingInv' /\ OfficeOK'
<1> SUFFICES ASSUME BookingInv, OfficeOK, [FleetNext]_fleetVars PROVE BookingInv' /\ OfficeOK'
  OBVIOUS
<1>1. CASE FleetNext
  BY <1>1, ShopKeepsBooking, OfficeKeepsBooking, ShopTypes, CreateTypes, PrinterTypes, NozzleTypes,
     LotTypes, SplitTypes, StockTypes DEF FleetNext
<1>2. CASE UNCHANGED fleetVars
  BY <1>2 DEF fleetVars, vars, office, BookingInv, RowsOK, RequestsOK, ClockOK, OrdersOK,
              OfficeOK, MachinesOK, DesksOK, LeftOK, LotsOK
<1> QED
  BY <1>1, <1>2

\* Whatever the office and the shop floor do at once, their rows, requests and
\* machines stay well formed, and the rows within the database's constraints.
THEOREM FleetInvariance == FleetSpec => [](BookingInv /\ OfficeOK)
<1>1. FleetInit => BookingInv /\ OfficeOK
  BY BookingInit, OfficeInit DEF FleetInit
<1> QED
  BY <1>1, TypesStep, PTL DEF FleetSpec

\* A printer is not double-booked either while machines come, go and are
\* switched off and its prints are thrown back (revertPrinterAssignmentsTx).
THEOREM FleetNeverDoubleBooked == FleetSpec => []PrinterNeverDoubleBooked
<1>1. BookingInv => PrinterNeverDoubleBooked
  BY DEF BookingInv, Exclusion, PrinterNeverDoubleBooked, Overlap
<1> QED
  BY <1>1, FleetInvariance, PTL

\* However many additions run at once, and of how many printers each, and
\* whatever else comes and goes: what an addition commits keeps to the cap that
\* its last printer was counted against (assertCanAddPrinter under the advisory
\* lock of createPrinter).  Where licensing is not enforced, the plan has no cap
\* or its status cannot be resolved, it was counted against none.
THEOREM CapHolds == FleetSpec => AdditionsKeepToTheCap
<1>1. FleetInit => CapInv
  BY OfficeInit
<1>2. OfficeOK /\ CapInv /\ [FleetNext]_fleetVars => CapInv'
  <2> SUFFICES ASSUME OfficeOK, CapInv, [FleetNext]_fleetVars PROVE CapInv'
    OBVIOUS
  <2>1. CASE FleetNext
    BY <2>1, CreateKeepsCap, OthersKeepCap DEF FleetNext
  <2>2. CASE UNCHANGED fleetVars
    BY <2>2, DesklessKeepsCap DEF fleetVars, office
  <2> QED
    BY <2>1, <2>2
<1>3. OfficeOK /\ CapInv /\ [FleetNext]_fleetVars
        => [\A d \in Desks : CreateCommit(d) =>
              \A cap \in desk[d].under : Cardinality(There(Printers)') <= cap]_fleetVars
  BY CommitKeepsToTheCap
<1> QED
  BY <1>1, <1>2, <1>3, FleetInvariance, PTL DEF FleetSpec, AdditionsKeepToTheCap

\* No work waits for a printer that is gone, except what a request was assigning
\* or booking when it went, until that is moved or taken off it (deletePrinter
\* and revertPrinterAssignmentsTx, between whose check and transaction the shop
\* floor goes on).
THEOREM WaitingWorkIsHoused == FleetSpec => []WaitingWorkHasAMachine
<1>1. FleetInit => WaitingWorkHasAMachine
  BY OfficeInit
<1>2. BookingInv /\ OfficeOK /\ WaitingWorkHasAMachine /\ [FleetNext]_fleetVars => WaitingWorkHasAMachine'
  <2> SUFFICES ASSUME BookingInv, OfficeOK, WaitingWorkHasAMachine, [FleetNext]_fleetVars
               PROVE  WaitingWorkHasAMachine'
    OBVIOUS
  <2>1. CASE FleetNext
    BY <2>1, TypesStep, WaitingStep
  <2>2. CASE UNCHANGED fleetVars
    BY <2>2 DEF fleetVars, office, vars, WaitingWorkHasAMachine
  <2> QED
    BY <2>1, <2>2
<1> QED
  BY <1>1, <1>2, FleetInvariance, PTL DEF FleetSpec

\* Where renaming a lot runs beside no other request, and no one types a name
\* of the form the program gives lots itself, an intake that found no lot of
\* its name is not refused by the unique index (createSpool's advisory lock).
THEOREM IntakesFindTheirLot ==
  ASSUME "rename" \in Alone, Names \cap Nat = {}, None \notin Names
  PROVE  FleetSpec => []IntakesAreNeverTurnedAway
<1>1. FleetInit => IntakeInv
  BY OfficeInit
<1>2. OfficeOK /\ IntakeInv /\ [FleetNext]_fleetVars => IntakeInv'
  <2> SUFFICES ASSUME OfficeOK, IntakeInv, [FleetNext]_fleetVars PROVE IntakeInv'
    OBVIOUS
  <2>1. CASE FleetNext
    BY <2>1, LotKeepsIntakes, OthersKeepIntakes DEF FleetNext
  <2>2. CASE UNCHANGED fleetVars
    BY <2>2, DesklessKeepsIntakes DEF fleetVars, office
  <2> QED
    BY <2>1, <2>2
<1>3. IntakeInv => IntakesAreNeverTurnedAway
  BY DEF IntakeInv
<1> QED
  BY <1>1, <1>2, <1>3, FleetInvariance, PTL DEF FleetSpec

LEMMA StockInit == FleetInit => StockInv /\ PartsInv
<1> SUFFICES ASSUME FleetInit PROVE StockInv /\ PartsInv
  OBVIOUS
<1>1. PICK m \in Materials :
        asset = [a \in Assets |->
                   IF a \in Owned
                   THEN [NoAsset EXCEPT !.there = TRUE, !.initial = IF a \in Stocks THEN InStock[a] ELSE 0,
                                        !.material = m]
                   ELSE NoAsset]
  BY DEF FleetInit
<1>2. ASSUME NEW a \in Assets PROVE asset[a] \in AssetRow /\ (asset[a].there <=> a \in Owned)
  <2> DEFINE n == IF a \in Stocks THEN InStock[a] ELSE 0
             row == [NoAsset EXCEPT !.there = TRUE, !.initial = n, !.material = m]
  <2>1. n \in Nat
    OBVIOUS
  <2> HIDE DEF n
  <2>2. row \in AssetRow /\ row.there /\ NoAsset \in AssetRow /\ ~NoAsset.there
    BY <2>1 DEF AssetRow, NoAsset
  <2>3. asset[a] = IF a \in Owned THEN row ELSE NoAsset
    BY <1>1 DEF n
  <2> HIDE DEF row
  <2> QED BY <2>2, <2>3
<1>3. AssetsOK
  BY <1>1, <1>2 DEF AssetsOK
<1>4. ReservedOK
  <2>1. \A s : Booked(s, piece) \in Nat
    BY BookedIsNatural
  <2>2. reserved = [s \in Stocks |-> 0]
    BY DEF FleetInit, Init
  <2> QED BY <2>1, <2>2 DEF ReservedOK, NothingReservedForNobody
<1>5. Stocked
  <2>1. \A p \in Pieces : piece[p].source = None
    BY DEF FleetInit, Init, Fresh
  <2>2. \A s \in Stocks : s \notin Owned => left[s] = 0
    BY DEF FleetInit, Init
  <2> QED BY <1>2, <2>1, <2>2 DEF Stocked, Assets
<1>6. PartsInv
  BY DEF FleetInit, PartsInv, SetsAside, AtRest
<1> QED BY <1>3, <1>4, <1>5, <1>6 DEF StockInv

LEMMA StockStep == StockInv /\ BookingInv /\ OfficeOK /\ [FleetNext]_fleetVars => StockInv'
<1> SUFFICES ASSUME StockInv, BookingInv, OfficeOK, [FleetNext]_fleetVars PROVE StockInv'
  OBVIOUS
<1>1. CASE FleetNext
  BY <1>1, ShopKeepsStock, OfficeKeepsStock, CorrectKeepsStock DEF FleetNext
<1>2. CASE UNCHANGED fleetVars
  BY <1>2, StockSame DEF fleetVars, office, vars
<1> QED BY <1>1, <1>2

\* Stock that is not there is empty and no piece is to be made of it, and no
\* more is on record as reserved of any than booked and running pieces take,
\* whatever is bought, split, corrected, deleted or used up at once.
THEOREM StockInvariance == FleetSpec => []StockInv
<1>1. FleetInit => StockInv
  BY StockInit
<1> QED
  BY <1>1, StockStep, FleetInvariance, PTL DEF FleetSpec

\* A split whose parent still is as it was read moves material and no more than
\* its rounding, whatever else goes on beside it: what is left in all and what is
\* on hand of every material differ by no more than that, and what is promised of
\* it and what its price is made of stay the same (splitAsset, getAssetsOverview,
\* listMaterialPricing).
THEOREM SplitsMoveNoMore == FleetSpec => SplitsOnlyMoveMaterial
<1>1. FleetInit => PartsInv
  BY StockInit
<1>2. StockInv /\ OfficeOK /\ PartsInv /\ [FleetNext]_fleetVars => PartsInv'
  BY PartsStep DEF StockInv
<1>3. StockInv /\ BookingInv /\ OfficeOK /\ PartsInv /\ [FleetNext]_fleetVars
        => [\A d \in Desks : SplitTx(d) /\ StillAsRead(d) =>
              /\ \A S \in {Spools, Tanks} :
                   Near(MapThenSumSet(LAMBDA s : left'[s], S), MapThenSumSet(LAMBDA s : left[s], S))
              /\ \A S \in {Spools, Tanks}, m \in Materials :
                   /\ Near(OnHand(S, m)[1]', OnHand(S, m)[1])
                   /\ OnHand(S, m)[2]' = OnHand(S, m)[2]
                   /\ Pricing(S, m)' = Pricing(S, m)]_fleetVars
  BY SplitMoves
<1> QED
  BY <1>1, <1>2, <1>3, FleetInvariance, StockInvariance, PTL DEF FleetSpec, SplitsOnlyMoveMaterial
=============================================================================
