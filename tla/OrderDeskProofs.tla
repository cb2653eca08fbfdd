--------------------------- MODULE OrderDeskProofs ---------------------------
(***************************************************************************)
(* Proofs about OrderDesk, for every number of orders, customers, pieces,  *)
(* plates, files and requests, and with every desk staffed at once: the    *)
(* five properties its run checks scene by scene.                          *)
(***************************************************************************)
EXTENDS OrderDesk, FiniteSetTheorems, TLAPS

----------------------------------------------------------------------------
(* The inductive invariant, first part: what a request holds on to is typed. *)

\* What a request carries from its reads to its transaction.
Patch(to) ==
  /\ DOMAIN to \subseteq {"colour", "status", "key"}
  /\ "colour" \in DOMAIN to => to.colour \in Colours \cup {None}
  /\ "status" \in DOMAIN to => to.status \in PieceStatus
  /\ "key" \in DOMAIN to => to.key \in Keys \cup {None}

UpdateRequest == [op : {"resolve", "update"}, on : Orders, xs : {{}}, old : OrderRow,
                  to : [status : OrderStatus \cup {None}, customer : Customers \cup {None},
                        number : 0..MaxSerial \cup {None}],
                  keys : {{}}, n : {0}]

Carries(q) ==
  /\ q.op \in {"none", "create", "restart", "resolve", "update", "delete", "purge", "forget", "sync",
               "duplicate", "patch", "replace", "deletePieces", "deleteBed", "disassemble"}
  /\ q.op = "none" => q = AtRest
  /\ q.op = "create" => /\ q.on \in Orders /\ q.n \in 1..MaxSerial
                        /\ q.to \in [customer : Customers \cup {None}, guest : BOOLEAN, minted : {TRUE}]
  /\ q.op = "restart" => q.n \in 1..MaxSerial + 1 /\ q.to \in 0..MaxSerial
  /\ q.op \in {"resolve", "update"} => q \in UpdateRequest
  /\ q.op \in {"delete", "purge"} => q.on \in Orders /\ q.old \in OrderRow
  /\ q.op = "forget" => q.on \in Customers
  /\ q.op = "sync" => q.on \in Orders
  /\ q.op = "duplicate" => q.old \in PieceRow
  /\ q.op = "patch" => q.on \in Pieces /\ q.old \in PieceRow /\ Patch(q.to)
  /\ q.op = "replace" => q.on \in Pieces /\ q.old \in PieceRow /\ q.to \in Colours \cup {None}
  /\ q.op = "deletePieces" => q.xs \subseteq Pieces /\ q.old \in [q.xs -> PieceRow]
  /\ q.op = "deleteBed" => q.on \in Plates /\ q.old \in PlateRow
  /\ q.op = "disassemble" => q.on \in Plates

RequestsOK == req \in [Requests -> {req[r] : r \in Requests}] /\ \A r \in Requests : Carries(req[r])

SweepOK == sweep \in [todo : SUBSET Orders, on : Orders \cup {None}, keys : SUBSET Keys]

CleanupOK ==
  /\ cleanup \in [Workers -> [at : {"none", "check", "remove"}, keys : SUBSET Keys]]
  /\ owed \subseteq Keys /\ spilled \subseteq Keys

\* A row that is not there points at no file.
Blank ==
  /\ \A x \in Pieces : ~piece[x].there => piece[x].key = None
  /\ \A a \in Attachments : ~attachment[a].there => attachment[a].key = None
  /\ \A b \in Plates : ~plate[b].there => plate[b].key = None

Typed == TypeOK /\ RequestsOK /\ SweepOK /\ CleanupOK /\ Blank

----------------------------------------------------------------------------
(* The operators of the model.                                             *)

LEMMA BoundedHasMaximum ==
  ASSUME NEW b \in Nat, NEW S, S \subseteq 0..b, S # {}
  PROVE  \E n \in S : \A m \in S : m <= n
<1> DEFINE Above(n) == {m \in 0..b : n < m}
           T == {Above(n) : n \in S}
<1>1. IsWellFoundedOn(StrictSubsetOrdering(0..b), SUBSET (0..b))
  <2>1. IsFiniteSet(0..b)
    BY FS_Interval
  <2>2. FiniteSubsetsOf(0..b) = SUBSET (0..b)
    BY <2>1, FS_FiniteSubsetsOfFinite
  <2> QED BY <2>2, FS_StrictSubsetOrderingWellFounded
<1>2. T \subseteq SUBSET (0..b) /\ T # {}
  OBVIOUS
<1>3. \E x \in T : \A y \in T : ~(<<y, x>> \in StrictSubsetOrdering(0..b))
  BY <1>1, <1>2, WFMin
<1>4. PICK n \in S : \A k \in S : ~(<<Above(k), Above(n)>> \in StrictSubsetOrdering(0..b))
  BY <1>3
<1>5. ASSUME NEW m \in S, ~(m <= n) PROVE FALSE
  <2>1. Above(m) \subseteq Above(n) /\ m \in Above(n) /\ m \notin Above(m)
    BY <1>5
  <2>2. Above(m) # Above(n)
    BY <2>1
  <2> QED BY <1>4, <2>1, <2>2 DEF StrictSubsetOrdering
<1> QED BY <1>5

LEMMA RecomputedIsAStatus ==
  ASSUME NEW s \in OrderStatus, NEW pcs
  PROVE  Recomputed(s, pcs, TRUE) \in OrderStatus
BY DEF Recomputed, Clamped, Target, LeastAdvancedStage, OrderStatus, Shipping, Fulfilment, Manual

LEMMA WithStatusKeeps ==
  ASSUME NEW o \in OrderRow, NEW s \in OrderStatus
  PROVE  /\ WithStatus(o, s) \in OrderRow
         /\ WithStatus(o, s).there = o.there /\ WithStatus(o, s).number = o.number
         /\ WithStatus(o, s).minted = o.minted /\ WithStatus(o, s).customer = o.customer
         /\ WithStatus(o, s).guest = o.guest
BY DEF WithStatus, OrderRow

\* The tables agree on what is not an order's status.
SameOrders(ord) ==
  /\ ord \in [Orders -> OrderRow]
  /\ \A o \in Orders : /\ ord[o].there = order[o].there /\ ord[o].number = order[o].number
                       /\ ord[o].minted = order[o].minted /\ ord[o].customer = order[o].customer

LEMMA SyncedKeeps ==
  ASSUME TypeOK, NEW os, NEW pcs
  PROVE  SameOrders(Synced(os, pcs))
<1>1. ASSUME NEW o \in Orders
      PROVE /\ Synced(os, pcs)[o] \in OrderRow
            /\ Synced(os, pcs)[o].there = order[o].there /\ Synced(os, pcs)[o].number = order[o].number
            /\ Synced(os, pcs)[o].minted = order[o].minted /\ Synced(os, pcs)[o].customer = order[o].customer
  <2> DEFINE s == Recomputed(order[o].status, [x \in OfOrder(o, pcs) |-> pcs[x]], TRUE)
  <2>1. order[o] \in OrderRow /\ order[o].status \in OrderStatus
    BY DEF TypeOK, OrderRow
  <2>2. s \in OrderStatus
    BY <2>1, RecomputedIsAStatus
  <2> HIDE DEF s
  <2>3. Synced(os, pcs)[o] \in {order[o], WithStatus(order[o], s)}
    BY DEF Synced, s
  <2> QED BY <2>1, <2>2, <2>3, WithStatusKeeps
<1>2. Synced(os, pcs) = [o \in Orders |-> Synced(os, pcs)[o]]
  BY DEF Synced
<1> QED BY <1>1, <1>2 DEF SameOrders

\* Table `new` holds the pieces of `pcs`, or none in their place, but for
\* their plates and statuses.
SamePieces(new, pcs) ==
  /\ new \in [Pieces -> PieceRow]
  /\ \A x \in Pieces : /\ new[x].there = pcs[x].there /\ new[x].order = pcs[x].order
                       /\ new[x].key = pcs[x].key /\ new[x].colour = pcs[x].colour
                       /\ new[x].spool = pcs[x].spool

LEMMA LooseKeeps ==
  ASSUME NEW pcs \in [Pieces -> PieceRow], NEW bs, NEW standing
  PROVE  SamePieces(Loose(pcs, bs, standing), pcs)
<1>1. ASSUME NEW x \in Pieces
      PROVE /\ Loose(pcs, bs, standing)[x] \in PieceRow
            /\ Loose(pcs, bs, standing)[x].there = pcs[x].there /\ Loose(pcs, bs, standing)[x].order = pcs[x].order
            /\ Loose(pcs, bs, standing)[x].key = pcs[x].key /\ Loose(pcs, bs, standing)[x].colour = pcs[x].colour
            /\ Loose(pcs, bs, standing)[x].spool = pcs[x].spool
  <2>1. PICK p \in PieceRow : p = pcs[x]
    OBVIOUS
  <2>2. PICK s \in PieceStatus : s = IF p.status \in standing THEN p.status ELSE "pending"
    BY DEF PieceRow, PieceStatus
  <2>3. Loose(pcs, bs, standing)[x] = IF p.plate \in bs THEN [p EXCEPT !.plate = None, !.status = s] ELSE p
    BY <2>1, <2>2 DEF Loose
  <2> QED BY <2>1, <2>3 DEF PieceRow
<1>2. Loose(pcs, bs, standing) = [x \in Pieces |-> Loose(pcs, bs, standing)[x]]
  BY DEF Loose
<1> QED BY <1>1, <1>2 DEF SamePieces

LEMMA PiecesAfterKeeps ==
  ASSUME NEW pcs \in [Pieces -> PieceRow], NEW bs
  PROVE  SamePieces(PiecesAfter(bs, pcs), pcs)
BY LooseKeeps DEF PiecesAfter

\* The plates are as they were, or gone: those of `bs`.
SamePlates(new, gone) ==
  /\ new \in [Plates -> PlateRow]
  /\ \A b \in Plates : IF b \in gone THEN new[b] = NoPlate
                       ELSE new[b].there = plate[b].there /\ new[b].key = plate[b].key

LEMMA NoRowsAreRows ==
  /\ NoPiece \in PieceRow /\ NoPlate \in PlateRow /\ NoAttachment \in AttachmentRow
  /\ NoOrder \in OrderRow /\ NoCustomer \in CustomerRow
BY OrderDeskAssumption
DEF NoPiece, NoPlate, NoAttachment, NoOrder, NoCustomer, PieceRow, PlateRow, AttachmentRow, OrderRow, CustomerRow,
    PieceStatus, Fulfilment, OrderStatus

LEMMA PlatesAfterKeeps ==
  ASSUME TypeOK, NEW bs, NEW pcs
  PROVE  SamePlates(PlatesAfter(bs, pcs), PlatesGone(bs, pcs))
<1>1. ASSUME NEW b \in Plates
      PROVE /\ PlatesAfter(bs, pcs)[b] \in PlateRow
            /\ IF b \in PlatesGone(bs, pcs) THEN PlatesAfter(bs, pcs)[b] = NoPlate
               ELSE PlatesAfter(bs, pcs)[b].there = plate[b].there /\ PlatesAfter(bs, pcs)[b].key = plate[b].key
  <2>1. PICK p \in PlateRow : p = plate[b]
    BY DEF TypeOK
  <2>2. PlatesAfter(bs, pcs)[b] = IF b \in PlatesGone(bs, pcs) THEN NoPlate
                    ELSE IF b \in Dead(bs, pcs) THEN [p EXCEPT !.status = "cancelled"]
                    ELSE IF b \in Broken(bs, pcs) THEN [p EXCEPT !.status = "disassembled"]
                    ELSE p
    BY <2>1 DEF PlatesAfter
  <2> QED BY <2>1, <2>2, NoRowsAreRows DEF PlateRow
<1>2. PlatesAfter(bs, pcs) = [b \in Plates |-> PlatesAfter(bs, pcs)[b]]
  BY DEF PlatesAfter
<1> QED BY <1>1, <1>2 DEF SamePlates

----------------------------------------------------------------------------
(* The steps.                                                              *)

\* What is so when a request begins: r took q.
Asked(r, q) ==
  /\ Carries(q) /\ q.op # "none"
  /\ q.op = "create" => /\ lock = None /\ q.n = counter + 1
                        /\ q.on \in Absent(order) /\ (\A s \in Requests : req[s].on # q.on)
                        /\ q.to.customer \in LiveCustomers \cup {None}
  /\ q.op = "restart" => lock = None /\ q.to = Highest
  /\ q.op \in {"resolve", "update", "delete", "purge"} => q.on \in There(order) /\ q.old = order[q.on]
  /\ q.op \in {"resolve", "update"} => q.to.customer \in LiveCustomers \cup {None, q.old.customer}
  /\ q.op \in {"patch", "replace"} => q.on \in There(piece) /\ q.old = piece[q.on]
  /\ q.op = "patch" => ("key" \in DOMAIN q.to => q.to.key \in bucket)
  /\ q.op = "duplicate" => \E x \in There(piece) : q.old = piece[x]
  /\ q.op = "deletePieces" => q.xs \subseteq There(piece) /\ q.old = [x \in q.xs |-> piece[x]]
  /\ q.op = "deleteBed" => q.on \in There(plate) /\ q.old = plate[q.on]
  /\ lock' = IF q.op \in {"create", "restart"} THEN r ELSE lock

\* A request begins: it reads, and at most locks the counter.
Asks(r) ==
  /\ \E q : Take(r, q) /\ Asked(r, q)
  /\ UNCHANGED <<bucketVars, order, customer, piece, attachment, plate, counter, raced, sweep>>

LEMMA CreateAsks ==
  ASSUME Typed, NEW r \in Requests, NEW o \in Orders, NEW c \in Customers \cup {None}, NEW guest \in BOOLEAN,
         CreateOpen(r, o, c, guest)
  PROVE  Asks(r)
<1> DEFINE q == [AtRest EXCEPT !.op = "create", !.on = o, !.n = counter + 1,
                               !.to = [customer |-> c, guest |-> guest, minted |-> TRUE]]
<1>1. Take(r, q) /\ lock = None /\ lock' = r
  BY DEF CreateOpen
<1>2. q.op = "create" /\ q.on = o /\ q.n = counter + 1 /\ q.to = [customer |-> c, guest |-> guest, minted |-> TRUE]
  BY DEF AtRest
<1>3. counter + 1 \in 1..MaxSerial
  BY OrderDeskAssumption DEF CreateOpen, Typed, TypeOK
<1> HIDE DEF q
<1>4. Carries(q)
  BY <1>2, <1>3 DEF Carries
<1>5. Asked(r, q)
  BY <1>1, <1>2, <1>4 DEF Asked, CreateOpen
<1> QED BY <1>1, <1>5 DEF Asks, CreateOpen

LEMMA HighestBounds ==
  ASSUME TypeOK
  PROVE  Highest \in 0..MaxSerial /\ \A o \in There(order) : order[o].number <= Highest
<1>1. Numbers \subseteq 0..MaxSerial /\ MaxSerial \in Nat
  BY OrderDeskAssumption DEF TypeOK, Numbers, There, OrderRow
<1>2. \A o \in There(order) : order[o].number \in Numbers \cup {0}
  BY DEF Numbers
<1>3. CASE Numbers = {}
  BY <1>1, <1>2, <1>3 DEF Highest
<1>4. CASE Numbers # {}
  <2>1. \E n \in Numbers : \A m \in Numbers : m <= n
    BY <1>1, <1>4, BoundedHasMaximum
  <2>2. Highest \in Numbers /\ \A m \in Numbers : m <= Highest
    BY <1>4, <2>1 DEF Highest
  <2>3. Highest \in 0..MaxSerial
    BY <1>1, <2>2
  <2>4. \A m \in Numbers : m <= Highest
    BY <2>2
  <2>5. 0 <= Highest
    BY <1>1, <2>3
  <2> HIDE DEF Highest
  <2> QED BY <1>2, <2>3, <2>4, <2>5
<1> QED BY <1>3, <1>4

LEMMA RestartAsks ==
  ASSUME Typed, NEW r \in Requests, NEW n \in 1..MaxSerial + 1, RestartLock(r, n)
  PROVE  Asks(r)
<1> DEFINE q == [AtRest EXCEPT !.op = "restart", !.n = n, !.to = Highest]
<1>1. Take(r, q) /\ lock = None /\ lock' = r
  BY DEF RestartLock
<1>2. q.op = "restart" /\ q.n = n /\ q.to = Highest
  BY DEF AtRest
<1>3. Highest \in 0..MaxSerial
  BY HighestBounds DEF Typed
<1> HIDE DEF q
<1>4. Carries(q)
  BY <1>2, <1>3 DEF Carries
<1> QED BY <1>1, <1>2, <1>4 DEF Asks, Asked, RestartLock

LEMMA UpdateAsks ==
  ASSUME Typed, NEW r \in Requests, NEW o \in Orders, NEW status \in {None, "confirmed"},
         NEW c \in Customers \cup {None}, NEW n \in 0..MaxSerial \cup {None}, UpdateRead(r, o, status, c, n)
  PROVE  Asks(r)
<1>0. PICK to : to = [status |-> status, customer |-> c, number |-> n]
  OBVIOUS
<1>1. PICK op \in {"resolve", "update"} :
        Take(r, [AtRest EXCEPT !.op = op, !.on = o, !.old = order[o], !.to = to])
  BY <1>0 DEF UpdateRead
<1> DEFINE q == [AtRest EXCEPT !.op = op, !.on = o, !.old = order[o], !.to = to]
<1>2. q \in [op : {op}, on : {o}, xs : {{}}, old : {order[o]}, to : {to}, keys : {{}}, n : {0}]
  BY DEF AtRest
<1>3. order[o] \in OrderRow
  BY DEF Typed, TypeOK
<1>4. to \in [status : OrderStatus \cup {None}, customer : Customers \cup {None}, number : 0..MaxSerial \cup {None}]
  BY <1>0 DEF OrderStatus
<1>5. to.customer \in LiveCustomers \cup {None, order[o].customer} /\ o \in There(order)
  BY <1>0 DEF UpdateRead
<1>6. q \in UpdateRequest /\ q.op = op /\ q.on = o /\ q.old = order[o] /\ q.to = to
  BY <1>2, <1>3, <1>4 DEF UpdateRequest
<1> HIDE DEF q
<1>7. Carries(q)
  BY <1>6 DEF Carries
<1>8. lock' = lock
  BY DEF UpdateRead, rows
<1>9. Asked(r, q)
  BY <1>5, <1>6, <1>7, <1>8 DEF Asked
<1>10. Take(r, q)
  BY <1>1 DEF q
<1> QED BY <1>9, <1>10 DEF Asks, UpdateRead, rows

LEMMA DeletionsAsk ==
  ASSUME Typed, NEW r \in Requests
  PROVE  /\ \A o \in Orders, op \in {"delete", "purge"} : DeleteOrderRead(r, o, op) => Asks(r)
         /\ \A c \in Customers : DeleteCustomerRead(r, c) => Asks(r)
         /\ \A b \in Plates : DeleteBedRead(r, b) \/ DisassembleRead(r, b) => Asks(r)
<1>1. ASSUME NEW o \in Orders, NEW op \in {"delete", "purge"}, DeleteOrderRead(r, o, op) PROVE Asks(r)
  <2> DEFINE q == [AtRest EXCEPT !.op = op, !.on = o, !.old = order[o]]
  <2>1. Take(r, q) /\ o \in There(order) /\ lock' = lock
    BY <1>1 DEF DeleteOrderRead, rows
  <2>2. q.op = op /\ q.on = o /\ q.old = order[o] /\ order[o] \in OrderRow
    BY DEF AtRest, Typed, TypeOK
  <2> HIDE DEF q
  <2>3. Asked(r, q)
    BY <2>1, <2>2 DEF Asked, Carries
  <2> QED BY <1>1, <2>1, <2>3 DEF Asks, DeleteOrderRead, rows
<1>2. ASSUME NEW c \in Customers, DeleteCustomerRead(r, c) PROVE Asks(r)
  <2> DEFINE q == [AtRest EXCEPT !.op = "forget", !.on = c]
  <2>1. Take(r, q) /\ lock' = lock
    BY <1>2 DEF DeleteCustomerRead, rows
  <2>2. q.op = "forget" /\ q.on = c
    BY DEF AtRest
  <2> HIDE DEF q
  <2>3. Asked(r, q)
    BY <2>1, <2>2 DEF Asked, Carries
  <2> QED BY <1>2, <2>1, <2>3 DEF Asks, DeleteCustomerRead, rows
<1>3. ASSUME NEW b \in Plates, DeleteBedRead(r, b) PROVE Asks(r)
  <2> DEFINE q == [AtRest EXCEPT !.op = "deleteBed", !.on = b, !.old = plate[b]]
  <2>1. Take(r, q) /\ b \in There(plate) /\ lock' = lock
    BY <1>3 DEF DeleteBedRead, rows
  <2>2. q.op = "deleteBed" /\ q.on = b /\ q.old = plate[b] /\ plate[b] \in PlateRow
    BY DEF AtRest, Typed, TypeOK
  <2> HIDE DEF q
  <2>3. Asked(r, q)
    BY <2>1, <2>2 DEF Asked, Carries
  <2> QED BY <1>3, <2>1, <2>3 DEF Asks, DeleteBedRead, rows
<1>4. ASSUME NEW b \in Plates, DisassembleRead(r, b) PROVE Asks(r)
  <2> DEFINE q == [AtRest EXCEPT !.op = "disassemble", !.on = b]
  <2>1. Take(r, q) /\ lock' = lock
    BY <1>4 DEF DisassembleRead, rows
  <2>2. q.op = "disassemble" /\ q.on = b
    BY DEF AtRest
  <2> HIDE DEF q
  <2>3. Asked(r, q)
    BY <2>1, <2>2 DEF Asked, Carries
  <2> QED BY <1>4, <2>1, <2>3 DEF Asks, DisassembleRead, rows
<1> QED BY <1>1, <1>2, <1>3, <1>4

LEMMA PieceEditsAsk ==
  ASSUME Typed, NEW r \in Requests
  PROVE  /\ \A x \in Pieces : DuplicateRead(r, x) => Asks(r)
         /\ \A x \in Pieces, c \in Colours \cup {None} : ReplaceRead(r, x, c) => Asks(r)
         /\ \A X \in SUBSET Pieces, force \in BOOLEAN : DeletePiecesRead(r, X, force) => Asks(r)
<1>1. ASSUME NEW x \in Pieces, DuplicateRead(r, x) PROVE Asks(r)
  <2> DEFINE q == [AtRest EXCEPT !.op = "duplicate", !.old = piece[x]]
  <2>1. Take(r, q) /\ x \in There(piece) /\ lock' = lock
    BY <1>1 DEF DuplicateRead, rows
  <2>2. q.op = "duplicate" /\ q.old = piece[x] /\ piece[x] \in PieceRow
    BY DEF AtRest, Typed, TypeOK
  <2> HIDE DEF q
  <2>3. Asked(r, q)
    BY <2>1, <2>2 DEF Asked, Carries
  <2> QED BY <1>1, <2>1, <2>3 DEF Asks, DuplicateRead, rows
<1>2. ASSUME NEW x \in Pieces, NEW c \in Colours \cup {None}, ReplaceRead(r, x, c) PROVE Asks(r)
  <2> DEFINE q == [AtRest EXCEPT !.op = "replace", !.on = x, !.old = piece[x], !.to = c]
  <2>1. Take(r, q) /\ x \in There(piece) /\ lock' = lock
    BY <1>2 DEF ReplaceRead, rows
  <2>2. q.op = "replace" /\ q.on = x /\ q.old = piece[x] /\ piece[x] \in PieceRow /\ q.to = c
    BY DEF AtRest, Typed, TypeOK
  <2> HIDE DEF q
  <2>3. Asked(r, q)
    BY <2>1, <2>2 DEF Asked, Carries
  <2> QED BY <1>2, <2>1, <2>3 DEF Asks, ReplaceRead, rows
<1>3. ASSUME NEW X \in SUBSET Pieces, NEW force \in BOOLEAN, DeletePiecesRead(r, X, force) PROVE Asks(r)
  <2> DEFINE old == [x \in X |-> piece[x]]
             q == [AtRest EXCEPT !.op = "deletePieces", !.xs = X, !.old = old]
  <2>1. Take(r, q) /\ X \subseteq There(piece) /\ lock' = lock
    BY <1>3 DEF DeletePiecesRead, rows
  <2>2. q.op = "deletePieces" /\ q.xs = X /\ q.old = old
    BY DEF AtRest
  <2>3. old \in [X -> PieceRow] /\ old = [x \in X |-> piece[x]]
    BY DEF Typed, TypeOK
  <2> HIDE DEF q, old
  <2>4. Carries(q)
    BY <2>2, <2>3 DEF Carries
  <2>5. Asked(r, q)
    BY <2>1, <2>2, <2>3, <2>4 DEF Asked
  <2> QED BY <1>3, <2>1, <2>5 DEF Asks, DeletePiecesRead, rows
<1> QED BY <1>1, <1>2, <1>3

LEMMA PatchAsks ==
  ASSUME Typed, NEW r \in Requests, NEW x \in Pieces, NEW to, PatchRead(r, x, to), Patch(to)
  PROVE  Asks(r)
<1>1. PICK s \in {piece[x].status, "ready"} :
        Take(r, [AtRest EXCEPT !.op = "patch", !.on = x, !.old = piece[x],
                               !.to = IF "status" \in DOMAIN to \/ s = piece[x].status THEN to
                                      ELSE [f \in DOMAIN to \cup {"status"} |-> IF f = "status" THEN s ELSE to[f]]])
  BY DEF PatchRead
<1>2. PICK t : t = IF "status" \in DOMAIN to \/ s = piece[x].status THEN to
                   ELSE [f \in DOMAIN to \cup {"status"} |-> IF f = "status" THEN s ELSE to[f]]
  OBVIOUS
<1>3. piece[x] \in PieceRow /\ s \in PieceStatus
  BY DEF Typed, TypeOK, PieceRow, PieceStatus
<1>4. Patch(t) /\ ("key" \in DOMAIN t => "key" \in DOMAIN to /\ t.key = to.key)
  BY <1>2, <1>3 DEF Patch
<1> DEFINE q == [AtRest EXCEPT !.op = "patch", !.on = x, !.old = piece[x], !.to = t]
<1>5. q.op = "patch" /\ q.on = x /\ q.old = piece[x] /\ q.to = t
  BY DEF AtRest
<1>6. Take(r, q)
  BY <1>1, <1>2
<1>7. x \in There(piece) /\ lock' = lock /\ ("key" \in DOMAIN to => to.key \in bucket)
  BY DEF PatchRead, rows
<1> HIDE DEF q
<1>8. Asked(r, q)
  BY <1>3, <1>4, <1>5, <1>7 DEF Asked, Carries
<1> QED BY <1>6, <1>8 DEF Asks, PatchRead, rows

\* A piece's row is written, and its order's status is left to a second transaction.
Creates(r) == \E x \in Pieces, o \in Orders, k \in Keys \cup {None}, c \in Colours \cup {None} : CreatePiece(r, x, o, k, c)

\* The transactions that end a request.
Numbered(r) == CreateCommit(r) \/ RestartCommit(r) \/ UpdateTx(r)
Deletes(r) == DeleteOrderTx(r) \/ PurgeOrderTx(r) \/ DeletePiecesTx(r) \/ DeleteBedTx(r) \/ DisassembleTx(r)
Edits(r) == CreatePieceSync(r) \/ PatchTx(r) \/ ReplaceTx(r) \/ \E X \in SUBSET Pieces : DuplicateTx(r, X)
Ends(r) == Numbered(r) \/ Deletes(r) \/ Edits(r) \/ DeleteCustomerTx(r)

\* What happens in one go.
AtOnce ==
  \/ \E o \in Orders, c \in Customers \cup {None}, guest \in BOOLEAN, n \in 0..MaxSerial : CreateWithNumber(o, c, guest, n)
  \/ \E c \in Customers : CreateCustomer(c) \/ RestoreCustomer(c)
  \/ \E k \in Keys : Uploads(k)
  \/ \E X \in SUBSET Pieces, o \in Orders, k \in Keys \cup {None} : CreatePieces(X, o, k)
  \/ \E a \in Attachments, o \in Orders, kind \in {"stl", "other"}, k \in Keys : Attach(a, o, kind, k)
  \/ \E r \in Requests, a \in Attachments : Detach(r, a)
  \/ \E x \in Pieces : Shop(x)

Background == (\E w \in Workers : Cleaning(w)) \/ SweepNext \/ Crash

LEMMA StepCases ==
  ASSUME Typed, DeskNext
  PROVE  \/ \E r \in Requests : Asks(r) \/ Creates(r) \/ Resolve(r) \/ Ends(r)
         \/ AtOnce \/ Background
<1> DEFINE Goal == \/ \E r \in Requests : Asks(r) \/ Creates(r) \/ Resolve(r) \/ Ends(r)
                   \/ AtOnce \/ Background
<1>1. CASE PlaceNext
  BY <1>1, OrderDeskAssumption DEF PlaceNext, AtOnce
<1>2. CASE MintNext
  <2>1. PICK r \in Requests : \/ \E o \in Orders : CreateOpen(r, o, None, FALSE)
                              \/ CreateCommit(r) \/ RestartCommit(r)
                              \/ \E n \in 1..MaxSerial + 1 : RestartLock(r, n)
    BY <1>2 DEF MintNext
  <2>2. Asks(r) \/ Ends(r)
    BY <2>1, CreateAsks, RestartAsks DEF Ends, Numbered
  <2> QED BY <2>2
<1>3. CASE TypeNext
  <2>1. CASE \E o \in Orders, n \in 1..MaxSerial : CreateWithNumber(o, None, FALSE, n)
    <3>1. PICK o \in Orders, n \in 1..MaxSerial : CreateWithNumber(o, None, FALSE, n)
      BY <2>1
    <3>2. n \in 0..MaxSerial /\ None \in Customers \cup {None} /\ FALSE \in BOOLEAN
      BY OrderDeskAssumption
    <3> QED BY <3>1, <3>2 DEF AtOnce
  <2>2. ASSUME NEW r \in Requests,
               (\E o \in Orders, n \in 0..MaxSerial : UpdateRead(r, o, None, None, n)) \/ UpdateTx(r)
        PROVE Asks(r) \/ Ends(r)
    BY <2>2, UpdateAsks DEF Ends, Numbered
  <2> QED BY <1>3, <2>1, <2>2 DEF TypeNext
<1>4. CASE EraseNext
  BY <1>4, DeletionsAsk DEF EraseNext, Ends, Deletes
<1>5. CASE OwnerNext
  <2>1. PICK r \in Requests :
          \/ \E o \in Orders, s \in {None, "confirmed"}, c \in Customers \cup {None} : UpdateRead(r, o, s, c, None)
          \/ \E o \in Orders, c \in Customers : CreateOpen(r, o, c, FALSE)
          \/ CreateCommit(r) \/ Resolve(r) \/ UpdateTx(r)
    BY <1>5 DEF OwnerNext
  <2>2. Asks(r) \/ Resolve(r) \/ Ends(r)
    BY <2>1, CreateAsks, UpdateAsks DEF Ends, Numbered
  <2> QED BY <2>2
<1>6. CASE CustomerNext
  BY <1>6, DeletionsAsk DEF CustomerNext, AtOnce, Ends
<1>7. CASE PieceNext
  BY <1>7 DEF PieceNext, AtOnce, Creates, Ends, Edits
<1>8. CASE PatchNext
  <2>1. PICK r \in Requests :
          \/ \E x \in Pieces, c \in Colours \cup {None}, s \in {"pending", "ready", "cancelled"} :
               \/ PatchRead(r, x, [colour |-> c]) \/ PatchRead(r, x, [status |-> s])
               \/ PatchRead(r, x, [colour |-> c, status |-> s])
               \/ ReplaceRead(r, x, c)
          \/ PatchTx(r) \/ ReplaceTx(r)
    BY <1>8 DEF PatchNext
  <2>2. ASSUME NEW c \in Colours \cup {None}, NEW s \in {"pending", "ready", "cancelled"}
        PROVE Patch([colour |-> c]) /\ Patch([status |-> s]) /\ Patch([colour |-> c, status |-> s])
    BY DEF Patch, PieceStatus
  <2>3. Asks(r) \/ Ends(r)
    BY <2>1, <2>2, PatchAsks, PieceEditsAsk DEF Ends, Edits
  <2> QED BY <2>3
<1>9. CASE FileNext
  BY <1>9, PieceEditsAsk DEF FileNext, AtOnce, Ends, Edits
<1>10. CASE DetachNext
  <2>1. PICK r \in Requests : \/ \E a \in Attachments : Detach(r, a)
                              \/ \E x \in Pieces, k \in Keys : PatchRead(r, x, [key |-> k])
                              \/ PatchTx(r)
    BY <1>10 DEF DetachNext
  <2>2. \A k \in Keys : Patch([key |-> k])
    BY DEF Patch
  <2>3. (\E a \in Attachments : Detach(r, a)) \/ Asks(r) \/ Ends(r)
    BY <2>1, <2>2, PatchAsks DEF Ends, Edits
  <2> QED BY <2>3 DEF AtOnce
<1>11. CASE RemoveNext
  BY <1>11, PieceEditsAsk DEF RemoveNext, Background, Ends, Deletes
<1>12. CASE PlateNext
  BY <1>12, DeletionsAsk DEF PlateNext, Ends, Deletes
<1>13. CASE SweepNext \/ ShopNext \/ Crash
  BY <1>13 DEF Background, AtOnce, ShopNext
<1> QED
  BY <1>1, <1>2, <1>3, <1>4, <1>5, <1>6, <1>7, <1>8, <1>9, <1>10, <1>11, <1>12, <1>13 DEF DeskNext

\* What becomes of the requests under way.
Rests(r) == req[r].op # "none" /\ Done(r)
Requested == \/ req' = req
             \/ \E r \in Requests : (\E q : Take(r, q) /\ Asked(r, q)) \/ Resolve(r) \/ Rests(r)
             \/ Crash

LEMMA CreatesAsks ==
  ASSUME NEW r \in Requests, Creates(r)
  PROVE  \E q : Take(r, q) /\ Asked(r, q) /\ q.op = "sync"
<1>1. PICK x \in Pieces, o \in Orders, k \in Keys \cup {None}, c \in Colours \cup {None} : CreatePiece(r, x, o, k, c)
  BY DEF Creates
<1> DEFINE q == [AtRest EXCEPT !.op = "sync", !.on = o]
<1>2. Take(r, q) /\ lock' = lock
  BY <1>1 DEF CreatePiece
<1>3. q.op = "sync" /\ q.on = o
  BY DEF AtRest
<1> HIDE DEF q
<1>4. Asked(r, q)
  BY <1>2, <1>3 DEF Asked, Carries
<1> QED BY <1>2, <1>3, <1>4

LEMMA EndsRests ==
  ASSUME NEW r \in Requests, Ends(r)
  PROVE  Rests(r)
<1>1. CASE Numbered(r)
  BY <1>1 DEF Numbered, CreateCommit, RestartCommit, UpdateTx, Rests
<1>2. CASE Deletes(r)
  BY <1>2 DEF Deletes, DeleteOrderTx, PurgeOrderTx, Erase, DeletePiecesTx, DeleteBedTx, DisassembleTx, Rests
<1>3. CASE Edits(r)
  BY <1>3 DEF Edits, CreatePieceSync, PatchTx, ReplaceTx, DuplicateTx, Rests
<1>4. CASE DeleteCustomerTx(r)
  BY <1>4 DEF DeleteCustomerTx, Rests
<1> QED BY <1>1, <1>2, <1>3, <1>4 DEF Ends

LEMMA AtOnceKeeps ==
  ASSUME AtOnce
  PROVE  req' = req /\ sweep' = sweep /\ lock' = lock /\ counter' = counter
BY DEF AtOnce, CreateWithNumber, CreateCustomer, RestoreCustomer, Uploads, CreatePieces, Attach, Detach, Shop, rows

LEMMA RequestsMove ==
  ASSUME Typed, DeskNext
  PROVE  Requested
<1>1. ASSUME NEW r \in Requests, Asks(r) PROVE Requested
  BY <1>1 DEF Asks, Requested
<1>2. ASSUME NEW r \in Requests, Creates(r) PROVE Requested
  BY <1>2, CreatesAsks DEF Requested
<1>3. ASSUME NEW r \in Requests, Ends(r) PROVE Requested
  BY <1>3, EndsRests DEF Requested
<1>4. CASE AtOnce
  BY <1>4, AtOnceKeeps DEF Requested
<1>5. CASE Background
  BY <1>5 DEF Background, Cleaning, SweepNext, SweepFind, SweepUnlink, Age, SweepRead, Requested
<1> QED BY <1>1, <1>2, <1>3, <1>4, <1>5, StepCases DEF Requested

LEMMA RequestsStayTyped ==
  ASSUME Typed, Requested
  PROVE  RequestsOK'
<1>1. CASE req' = req
  BY <1>1 DEF Typed, RequestsOK
<1>2. ASSUME NEW r \in Requests, NEW q, Take(r, q), Asked(r, q) PROVE RequestsOK'
  BY <1>2 DEF Typed, RequestsOK, Take, Asked
<1>3. ASSUME NEW r \in Requests, Rests(r) PROVE RequestsOK'
  <2>1. Carries(AtRest)
    BY DEF Carries, AtRest
  <2> QED BY <1>3, <2>1 DEF Typed, RequestsOK, Rests, Done
<1>4. ASSUME NEW r \in Requests, Resolve(r) PROVE RequestsOK'
  <2>1. PICK c \in Customers : req' = [req EXCEPT ![r].op = "update", ![r].to.customer = c]
    BY <1>4 DEF Resolve, LiveCustomers, There, Absent, Typed, TypeOK
  <2>2. PICK q \in UpdateRequest : q = req[r]
    BY <1>4 DEF Resolve, Typed, RequestsOK, Carries
  <2>3. PICK u : u = [q EXCEPT !.op = "update", !.to.customer = c]
    OBVIOUS
  <2>4. u \in UpdateRequest /\ u.op = "update"
    BY <2>3 DEF UpdateRequest
  <2>5. Carries(u)
    BY <2>4 DEF Carries
  <2>6. req' = [req EXCEPT ![r] = u]
    BY <2>1, <2>2, <2>3 DEF Typed, RequestsOK
  <2> QED BY <2>5, <2>6 DEF Typed, RequestsOK
<1>5. CASE Crash
  <2>1. Carries(AtRest)
    BY DEF Carries, AtRest
  <2> QED BY <1>5, <2>1 DEF RequestsOK, Crash
<1> QED BY <1>1, <1>2, <1>3, <1>4, <1>5 DEF Requested

----------------------------------------------------------------------------
(* Rows, files and the sweep stay typed.                                    *)

\* The tables of orders, pieces and plates when everything is typed.
LEMMA TypedRows ==
  ASSUME TypeOK
  PROVE  /\ \A o \in Orders : order[o] \in OrderRow
         /\ \A x \in Pieces : piece[x] \in PieceRow
         /\ \A b \in Plates : plate[b] \in PlateRow
         /\ \A a \in Attachments : attachment[a] \in AttachmentRow
         /\ \A c \in Customers : customer[c] \in CustomerRow
         /\ There(order) \subseteq Orders /\ There(piece) \subseteq Pieces /\ There(plate) \subseteq Plates
         /\ There(attachment) \subseteq Attachments /\ There(customer) \subseteq Customers
         /\ DOMAIN order = Orders /\ DOMAIN piece = Pieces /\ DOMAIN plate = Plates
         /\ DOMAIN attachment = Attachments /\ DOMAIN customer = Customers
BY DEF TypeOK, There

\* Pieces that are taken out of the book, and the others.
Without(X, pcs) == [x \in Pieces |-> IF x \in X THEN NoPiece ELSE pcs[x]]

LEMMA WithoutIsTyped ==
  ASSUME TypeOK, NEW X
  PROVE  Without(X, piece) \in [Pieces -> PieceRow]
BY NoRowsAreRows, TypedRows DEF Without

LEMMA AddedIsTyped ==
  ASSUME TypeOK, NEW X, NEW o \in Orders \cup {None}, NEW k \in Keys \cup {None}, NEW c \in Colours \cup {None}
  PROVE  Added(X, o, k, c) \in [Pieces -> PieceRow]
<1>1. [NoPiece EXCEPT !.there = TRUE, !.order = o, !.key = k, !.colour = c] \in PieceRow
  BY NoRowsAreRows DEF PieceRow
<1> QED BY <1>1, TypedRows DEF Added

\* The row of a new order.
Opened(q) == [NoOrder EXCEPT !.there = TRUE, !.number = q.n, !.customer = q.to.customer,
                             !.guest = q.to.guest, !.minted = q.to.minted]

LEMMA OpenedRow ==
  ASSUME NEW q, q.n \in 0..MaxSerial, q.to.customer \in Customers \cup {None}, q.to.guest \in BOOLEAN,
         q.to.minted \in BOOLEAN
  PROVE  /\ Opened(q) \in OrderRow /\ Opened(q).there /\ Opened(q).number = q.n
         /\ Opened(q).customer = q.to.customer /\ Opened(q).minted = q.to.minted
BY NoRowsAreRows DEF Opened, OrderRow

\* A count that goes up, or down.
More(c) == [c EXCEPT !.total = @ + 1]
Fewer(c) == [c EXCEPT !.total = @ - 1]

LEMMA CountsMove ==
  ASSUME NEW c \in CustomerRow
  PROVE  /\ More(c) \in CustomerRow /\ More(c).there = c.there /\ More(c).total = c.total + 1
         /\ c.total > 0 => /\ Fewer(c) \in CustomerRow /\ Fewer(c).there = c.there
                           /\ Fewer(c).total = c.total - 1
BY DEF More, Fewer, CustomerRow

LEMMA PlacedIsTyped ==
  ASSUME TypeOK, NEW o \in Orders, NEW q, Placed(o, q),
         q.n \in 0..MaxSerial, q.to.customer \in Customers \cup {None}, q.to.guest \in BOOLEAN, q.to.minted \in BOOLEAN
  PROVE  /\ order' = [order EXCEPT ![o] = Opened(q)]
         /\ customer' = [c \in Customers |-> IF c = q.to.customer THEN More(customer[c]) ELSE customer[c]]
         /\ order' \in [Orders -> OrderRow] /\ customer' \in [Customers -> CustomerRow]
<1>1. /\ order' = [order EXCEPT ![o] = Opened(q)]
      /\ customer' = [c \in Customers |-> IF c = q.to.customer THEN More(customer[c]) ELSE customer[c]]
  BY DEF Placed, Opened, More
<1>2. order' \in [Orders -> OrderRow]
  BY <1>1, OpenedRow, TypedRows DEF TypeOK
<1>3. customer' \in [Customers -> CustomerRow]
  BY <1>1, CountsMove, TypedRows
<1> QED BY <1>1, <1>2, <1>3

\* An update keeps an order's row one, and says where its owner and number come from.
LEMMA ChangedRow ==
  ASSUME NEW o \in OrderRow, NEW q \in UpdateRequest
  PROVE  /\ Changed(o, q) \in OrderRow /\ Changed(o, q).there = o.there
         /\ Changed(o, q).customer = IF q.to.customer # None THEN q.to.customer ELSE o.customer
         /\ \/ Changed(o, q).number = o.number /\ Changed(o, q).minted = o.minted
            \/ Changed(o, q).minted = FALSE
<1>1. PICK to : /\ to = q.to /\ to.status \in OrderStatus \cup {None}
                /\ to.customer \in Customers \cup {None} /\ to.number \in 0..MaxSerial \cup {None}
  BY DEF UpdateRequest
<1>2. PICK o1 \in OrderRow : /\ o1 = IF to.status # None THEN WithStatus(o, to.status) ELSE o
                             /\ o1.there = o.there /\ o1.number = o.number /\ o1.minted = o.minted
                             /\ o1.customer = o.customer
  BY <1>1, WithStatusKeeps
<1>3. PICK o2 \in OrderRow : /\ o2 = IF to.customer # None THEN [o1 EXCEPT !.customer = to.customer] ELSE o1
                             /\ o2.there = o.there /\ o2.number = o.number /\ o2.minted = o.minted
                             /\ o2.customer = IF to.customer # None THEN to.customer ELSE o.customer
  <2>1. PICK c \in Customers \cup {None} : c = to.customer
    BY <1>1
  <2>2. PICK owned : owned = [o1 EXCEPT !.customer = c]
    OBVIOUS
  <2>3. /\ owned \in OrderRow /\ owned.there = o1.there /\ owned.number = o1.number
        /\ owned.minted = o1.minted /\ owned.customer = c
    BY <2>2 DEF OrderRow
  <2> QED BY <1>2, <2>1, <2>2, <2>3
<1>4. Changed(o, q) = IF to.number # None /\ to.number # o.number
                      THEN [o2 EXCEPT !.number = to.number, !.minted = FALSE] ELSE o2
  BY <1>1, <1>2, <1>3 DEF Changed
<1> QED BY <1>1, <1>3, <1>4 DEF OrderRow

\* A patch keeps a piece's row one.  It writes the key and the colour it
\* carries, and nothing stays reserved that another colour was wanted for.
LEMMA PatchedRow ==
  ASSUME NEW p \in PieceRow, NEW q, Patch(q.to), q.old \in PieceRow
  PROVE  /\ Patched(p, q) \in PieceRow /\ Patched(p, q).there = p.there /\ Patched(p, q).order = p.order
         /\ Patched(p, q).key = IF "key" \in DOMAIN q.to THEN q.to.key ELSE p.key
         /\ Patched(p, q).colour = IF "colour" \in DOMAIN q.to THEN q.to.colour ELSE p.colour
         /\ Patched(p, q).spool = IF "colour" \in DOMAIN q.to /\ q.to.colour # q.old.colour THEN None ELSE p.spool
<1> DEFINE D == {"there", "order", "plate", "status", "fulfilment", "colour", "spool", "key"}
           new == Patched(p, q)
<1>1. DOMAIN p = D /\ new = [f \in D |-> IF f \in DOMAIN q.to THEN q.to[f]
                          ELSE IF f = "spool" /\ "colour" \in DOMAIN q.to /\ q.to.colour # q.old.colour THEN None
                          ELSE p[f]]
  BY DEF Patched, PieceRow
<1>2. /\ new.there = p.there /\ new.order = p.order /\ new.plate = p.plate /\ new.fulfilment = p.fulfilment
      /\ new.status = IF "status" \in DOMAIN q.to THEN q.to.status ELSE p.status
      /\ new.key = IF "key" \in DOMAIN q.to THEN q.to.key ELSE p.key
      /\ new.colour = IF "colour" \in DOMAIN q.to THEN q.to.colour ELSE p.colour
      /\ new.spool = IF "colour" \in DOMAIN q.to /\ q.to.colour # q.old.colour THEN None ELSE p.spool
  BY <1>1 DEF Patch
<1> HIDE DEF new
<1>3. /\ new.there \in BOOLEAN /\ new.order \in Orders \cup {None} /\ new.plate \in Plates \cup {None}
      /\ new.status \in PieceStatus /\ new.fulfilment \in Fulfilment /\ new.colour \in Colours \cup {None}
      /\ new.spool \in Colours \cup {None} /\ new.key \in Keys \cup {None}
  BY <1>2 DEF Patch, PieceRow
<1>4. new \in PieceRow
  <2>1. new = [f \in D |-> new[f]]
    BY <1>1
  <2>2. new = [there |-> new.there, order |-> new.order, plate |-> new.plate, status |-> new.status,
               fulfilment |-> new.fulfilment, colour |-> new.colour, spool |-> new.spool, key |-> new.key]
    BY <2>1
  <2> QED BY <1>3, <2>2 DEF PieceRow
<1> QED BY <1>2, <1>4 DEF new

\* The pieces are as they were, on a plate or not, in one status or another, with
\* something reserved or not any more; those of X are gone.
Trimmed(X) ==
  /\ piece' \in [Pieces -> PieceRow]
  /\ \A x \in Pieces :
       IF x \in X THEN ~piece'[x].there /\ piece'[x].key = None
       ELSE /\ piece'[x].there = piece[x].there /\ piece'[x].order = piece[x].order
            /\ piece'[x].key = piece[x].key /\ piece'[x].colour = piece[x].colour
            /\ piece'[x].spool \in {piece[x].spool, None}

LEMMA TrimmedByRemoval ==
  ASSUME TypeOK, NEW X, NEW bs,
         piece' \in {PiecesAfter(bs, Without(X, piece)), Without(X, piece)}
  PROVE  Trimmed(X)
<1>1. Without(X, piece) \in [Pieces -> PieceRow]
  BY WithoutIsTyped
<1>2. SamePieces(PiecesAfter(bs, Without(X, piece)), Without(X, piece))
  BY <1>1, PiecesAfterKeeps
<1>3. SamePieces(piece', Without(X, piece))
  BY <1>1, <1>2 DEF SamePieces
<1>4. /\ \A x \in Pieces : IF x \in X THEN Without(X, piece)[x] = NoPiece ELSE Without(X, piece)[x] = piece[x]
      /\ ~NoPiece.there /\ NoPiece.key = None
  BY DEF Without, NoPiece
<1> QED BY <1>3, <1>4 DEF SamePieces, Trimmed

\* The plates some pieces were on, as the request that deals with them knows them.
PlatesOf(X, old) == {old[x].plate : x \in X} \ {None}

LEMMA PlatesGoneAreOf ==
  ASSUME NEW bs, NEW pcs
  PROVE  PlatesGone(bs, pcs) \subseteq bs
BY DEF PlatesGone, Emptied, Scrapped, Broken

LEMMA KeysAreKeys ==
  ASSUME TypeOK
  PROVE  /\ \A X \in SUBSET Pieces : PieceKeys(X) \subseteq Keys \cup {None}
         /\ \A B \in SUBSET Plates : PlateKeys(B) \subseteq Keys \cup {None}
         /\ \A A \in SUBSET Attachments : {attachment[a].key : a \in A} \subseteq Keys \cup {None}
         /\ \A X \in SUBSET Pieces : PlatesOf(X, piece) \subseteq Plates
BY TypedRows DEF PieceKeys, PlateKeys, PlatesOf, PieceRow, PlateRow, AttachmentRow

\* w takes over `keys`, and `gone` are owed when files are removed at all.
LEMMA PromiseIsTyped ==
  ASSUME Typed, NEW w \in Requests, NEW keys \in SUBSET (Keys \cup {None}),
         NEW gone \in SUBSET (Keys \cup {None}), Promise(w, keys, gone)
  PROVE  CleanupOK' /\ bucket' = bucket /\ minted' = minted /\ armed' = armed
<1>1. w \in Workers
  BY OrderDeskAssumption
<1>2. /\ cleanup' = [cleanup EXCEPT ![w] = [at |-> "check", keys |-> keys \ {None}]]
      /\ owed' \subseteq owed \cup (gone \ {None}) /\ spilled' = spilled
      /\ bucket' = bucket /\ minted' = minted /\ armed' = armed
  BY DEF Promise, HandOver
<1>3. [at |-> "check", keys |-> keys \ {None}] \in [at : {"none", "check", "remove"}, keys : SUBSET Keys]
  OBVIOUS
<1> QED BY <1>1, <1>2, <1>3 DEF Typed, CleanupOK

----------------------------------------------------------------------------
(* What the transactions do to the rows.                                    *)

OrderFiles(o) == {a \in There(attachment) : attachment[a].order = o}
Unattached(A) == [a \in Attachments |-> IF a \in A THEN NoAttachment ELSE attachment[a]]
GoneWith(X, old) == PlatesGone(PlatesOf(X, old), Without(X, piece))
FilesOf(o) == PieceKeys(OfOrder(o, piece)) \cup {attachment[a].key : a \in OrderFiles(o)}
                \cup PlateKeys(GoneWith(OfOrder(o, piece), piece))

\* Everything of order o goes, and the files with it.
Erased(r, o) ==
  /\ Trimmed(OfOrder(o, piece)) /\ SamePlates(plate', GoneWith(OfOrder(o, piece), piece))
  /\ attachment' = Unattached(OrderFiles(o)) /\ attachment' \in [Attachments -> AttachmentRow]
  /\ GoneWith(OfOrder(o, piece), piece) \subseteq Plates
  /\ order' = [order EXCEPT ![o] = NoOrder] /\ order' \in [Orders -> OrderRow]
  /\ customer' = [c \in Customers |-> IF c = req[r].old.customer /\ customer[c].total > 0
                                      THEN Fewer(customer[c]) ELSE customer[c]]
  /\ customer' \in [Customers -> CustomerRow]
  /\ raced' = raced \cup IF order[o].customer = req[r].old.customer THEN {}
                        ELSE {order[o].customer, req[r].old.customer}
  /\ FilesOf(o) \subseteq Keys \cup {None}
  /\ Promise(r, FilesOf(o), FilesOf(o))
  /\ counter' = counter /\ lock' = lock /\ sweep' = sweep

LEMMA EraseRows ==
  ASSUME Typed, NEW r \in Requests, DeleteOrderTx(r) \/ PurgeOrderTx(r)
  PROVE  /\ req[r].on \in Orders /\ req[r].old \in OrderRow /\ req[r].op \in {"delete", "purge"}
         /\ Erased(r, req[r].on)
<1>1. /\ req[r].op \in {"delete", "purge"} /\ Erase(r)
      /\ req[r].on \in Orders /\ req[r].old \in OrderRow
  BY DEF DeleteOrderTx, PurgeOrderTx, Typed, RequestsOK, Carries
<1>2. PICK o \in Orders : o = req[r].on
  BY <1>1
<1> DEFINE X == OfOrder(o, piece)
<1>3. /\ piece' = PiecesAfter(PlatesOf(X, piece), Without(X, piece))
      /\ plate' = PlatesAfter(PlatesOf(X, piece), Without(X, piece))
      /\ attachment' = Unattached(OrderFiles(o))
      /\ order' = [order EXCEPT ![o] = NoOrder]
      /\ customer' = [c \in Customers |-> IF c = req[r].old.customer /\ customer[c].total > 0
                                          THEN Fewer(customer[c]) ELSE customer[c]]
      /\ raced' = raced \cup IF order[o].customer = req[r].old.customer THEN {}
                            ELSE {order[o].customer, req[r].old.customer}
      /\ Promise(r, FilesOf(o), FilesOf(o))
      /\ counter' = counter /\ lock' = lock /\ sweep' = sweep
  BY <1>1, <1>2 DEF Erase, PlatesOf, Without, Unattached, OrderFiles, Fewer, FilesOf, GoneWith
<1>4. TypeOK
  BY DEF Typed
<1>5. X \subseteq Pieces /\ OrderFiles(o) \subseteq Attachments /\ PlatesOf(X, piece) \subseteq Plates
  BY <1>4, TypedRows, KeysAreKeys DEF OrderFiles, OfOrder
<1>6. GoneWith(X, piece) \subseteq Plates
  BY <1>5, PlatesGoneAreOf DEF GoneWith
<1>7. Trimmed(X)
  BY <1>3, <1>4, TrimmedByRemoval
<1>8. SamePlates(plate', GoneWith(X, piece))
  BY <1>3, <1>4, PlatesAfterKeeps DEF GoneWith
<1>9. attachment' \in [Attachments -> AttachmentRow]
  BY <1>3, <1>4, TypedRows, NoRowsAreRows DEF Unattached
<1>10. order' \in [Orders -> OrderRow]
  BY <1>3, <1>4, TypedRows, NoRowsAreRows DEF TypeOK
<1>11. customer' \in [Customers -> CustomerRow]
  BY <1>3, <1>4, TypedRows, CountsMove
<1>12. FilesOf(o) \subseteq Keys \cup {None}
  BY <1>4, <1>5, <1>6, KeysAreKeys DEF FilesOf
<1> HIDE DEF X
<1>13. Erased(r, o)
  BY <1>3, <1>6, <1>7, <1>8, <1>9, <1>10, <1>11, <1>12 DEF Erased, X
<1> QED BY <1>1, <1>2, <1>13

\* The transactions that take pieces or a plate away and tidy the order's status.
Tidied(X, B) ==
  /\ Trimmed(X) /\ SamePlates(plate', B) /\ B \subseteq Plates /\ X \subseteq Pieces
  /\ SameOrders(order')
  /\ UNCHANGED <<customer, attachment, counter, lock, raced, sweep>>

LEMMA DeletePiecesRows ==
  ASSUME Typed, NEW r \in Requests, DeletePiecesTx(r)
  PROVE  LET X == req[r].xs
             B == GoneWith(X, req[r].old)
         IN /\ Tidied(X, B)
            /\ Promise(r, {req[r].old[x].key : x \in X} \cup PlateKeys(B), PieceKeys(X) \cup PlateKeys(B))
            /\ {req[r].old[x].key : x \in X} \subseteq Keys \cup {None}
<1>1. PICK X, old : X = req[r].xs /\ old = req[r].old
  OBVIOUS
<1>2. X \subseteq Pieces /\ old \in [X -> PieceRow] /\ TypeOK
  BY <1>1 DEF DeletePiecesTx, Typed, RequestsOK, Carries
<1>3. /\ piece' = PiecesAfter(PlatesOf(X, old), Without(X, piece))
      /\ plate' = PlatesAfter(PlatesOf(X, old), Without(X, piece))
      /\ order' = Synced({old[x].order : x \in X}, piece')
      /\ Promise(r, {old[x].key : x \in X} \cup PlateKeys(GoneWith(X, old)),
                    PieceKeys(X) \cup PlateKeys(GoneWith(X, old)))
      /\ UNCHANGED <<customer, attachment, counter, lock, raced, sweep>>
  BY <1>1 DEF DeletePiecesTx, PlatesOf, Without, GoneWith
<1>4. PlatesOf(X, old) \subseteq Plates /\ {old[x].key : x \in X} \subseteq Keys \cup {None}
  BY <1>2 DEF PlatesOf, PieceRow
<1>5. GoneWith(X, old) \subseteq Plates
  BY <1>4, PlatesGoneAreOf DEF GoneWith
<1>6. Trimmed(X) /\ SamePlates(plate', GoneWith(X, old)) /\ SameOrders(order')
  BY <1>2, <1>3, TrimmedByRemoval, PlatesAfterKeeps, SyncedKeeps DEF GoneWith
<1> QED BY <1>1, <1>2, <1>3, <1>4, <1>5, <1>6 DEF Tidied

LEMMA DeleteBedRows ==
  ASSUME Typed, NEW r \in Requests, DeleteBedTx(r)
  PROVE  LET b == req[r].on
             X == OnPlate(b, piece)
         IN /\ Tidied(X, {b}) /\ req[r].old \in PlateRow
            /\ Promise(r, PieceKeys(X) \cup {req[r].old.key}, PieceKeys(X) \cup {plate[b].key})
<1>1. PICK b \in Plates : b = req[r].on
  BY DEF DeleteBedTx, Typed, RequestsOK, Carries
<1>2. TypeOK /\ req[r].old \in PlateRow
  BY DEF DeleteBedTx, Typed, RequestsOK, Carries
<1>3. PICK X : X = OnPlate(b, piece)
  OBVIOUS
<1>4. /\ piece' = Without(X, piece)
      /\ plate' = [plate EXCEPT ![b] = NoPlate]
      /\ order' = Synced({piece[x].order : x \in X}, piece')
      /\ Promise(r, PieceKeys(X) \cup {req[r].old.key}, PieceKeys(X) \cup {plate[b].key})
      /\ UNCHANGED <<customer, attachment, counter, lock, raced, sweep>>
  BY <1>1, <1>3 DEF DeleteBedTx, Without
<1>5. X \subseteq Pieces
  BY <1>2, <1>3, TypedRows DEF OnPlate
<1>6. Trimmed(X) /\ SameOrders(order')
  BY <1>2, <1>4, TrimmedByRemoval, SyncedKeeps
<1>7. SamePlates(plate', {b})
  BY <1>2, <1>4, NoRowsAreRows, TypedRows DEF SamePlates, TypeOK
<1> QED BY <1>1, <1>2, <1>3, <1>4, <1>5, <1>6, <1>7 DEF Tidied

LEMMA DisassembleRows ==
  ASSUME Typed, NEW r \in Requests, DisassembleTx(r)
  PROVE  LET B == Scrapped({req[r].on})
         IN Tidied({}, B) /\ Promise(r, PlateKeys(B), PlateKeys(B))
<1>1. PICK b \in Plates : b = req[r].on
  BY DEF DisassembleTx, Typed, RequestsOK, Carries
<1>2. TypeOK /\ Blank
  BY DEF Typed
<1>3. PICK B : B = Scrapped({b})
  OBVIOUS
<1>4. PICK p \in PlateRow : p = plate[b]
  BY <1>2, TypedRows
<1>5. /\ piece' = Loose(piece, {b}, {})
      /\ plate' = [plate EXCEPT ![b] = IF b \in B \/ ~p.there THEN NoPlate ELSE [p EXCEPT !.status = "disassembled"]]
      /\ Promise(r, PlateKeys(B), PlateKeys(B))
      /\ UNCHANGED <<order, customer, attachment, counter, lock, raced, sweep>>
  BY <1>1, <1>2, <1>3, <1>4, TypedRows DEF DisassembleTx
<1>6. B \subseteq {b}
  BY <1>3 DEF Scrapped
<1>7. SamePieces(piece', piece)
  BY <1>2, <1>5, LooseKeeps DEF TypeOK
<1>8. Trimmed({})
  BY <1>7 DEF SamePieces, Trimmed
<1>9. [p EXCEPT !.status = "disassembled"] \in PlateRow
  BY <1>4 DEF PlateRow
<1>10. NoPlate.there = FALSE /\ NoPlate.key = None
  BY DEF NoPlate
<1>11. PICK new \in PlateRow : /\ new = IF b \in B \/ ~p.there THEN NoPlate ELSE [p EXCEPT !.status = "disassembled"]
                               /\ b \notin B => new.there = p.there /\ new.key = p.key
  BY <1>2, <1>4, <1>9, <1>10, NoRowsAreRows DEF PlateRow, Blank
<1>12. plate' = [plate EXCEPT ![b] = new]
  BY <1>5, <1>11
<1>13. SamePlates(plate', B)
  BY <1>2, <1>4, <1>6, <1>11, <1>12, TypedRows DEF SamePlates, TypeOK
<1>14. SameOrders(order')
  BY <1>2, <1>5 DEF SameOrders, TypeOK
<1> QED BY <1>1, <1>3, <1>5, <1>6, <1>8, <1>13, <1>14 DEF Tidied

\* A customer's open orders and pieces are cancelled, and the row is kept.
LEMMA DeleteCustomerRows ==
  ASSUME Typed, NEW r \in Requests, DeleteCustomerTx(r)
  PROVE  \E B \in SUBSET Plates :
           /\ Trimmed({}) /\ SamePlates(plate', B) /\ SameOrders(order') /\ Forget(PlateKeys(B))
           /\ customer' \in [Customers -> CustomerRow]
           /\ \A c \in Customers : customer'[c].there = customer[c].there /\ customer'[c].total = customer[c].total
           /\ UNCHANGED <<attachment, counter, lock, raced, sweep>>
<1> DEFINE c == req[r].on
           active == {o \in There(order) : order[o].customer = c /\ ~Locked(order[o].status)}
           cancelled == {o \in There(order) : order[o].customer = c /\ order[o].status = "cancelled"} \cup active
           open(x) == piece[x].there /\ piece[x].status \notin {"printing", "done", "cancelled", "failed"}
           listed == {x \in Pieces : open(x) /\ piece[x].order \in active}
           bs == {piece[x].plate : x \in listed} \ {None}
           pcs == [x \in Pieces |-> IF open(x) /\ piece[x].order \in cancelled
                                    THEN [piece[x] EXCEPT !.status = "cancelled",
                                                          !.spool = IF x \in listed THEN None ELSE @]
                                    ELSE piece[x]]
           B == PlatesGone(bs, pcs)
<1>1. /\ order' = [o \in Orders |-> IF o \in active THEN WithStatus(order[o], "cancelled") ELSE order[o]]
      /\ piece' = PiecesAfter(bs, pcs)
      /\ plate' = PlatesAfter(bs, pcs)
      /\ customer' = [customer EXCEPT ![c].deleted = TRUE]
      /\ Forget(PlateKeys(B))
      /\ UNCHANGED <<attachment, counter, lock, raced, sweep>>
  BY DEF DeleteCustomerTx
<1>2. TypeOK /\ c \in Customers
  BY DEF DeleteCustomerTx, Typed, RequestsOK, Carries
<1>3. bs = PlatesOf(listed, piece) /\ listed \subseteq Pieces
  BY DEF PlatesOf
<1>4. B \subseteq Plates
  BY <1>2, <1>3, KeysAreKeys, PlatesGoneAreOf
<1> HIDE DEF c, active, cancelled, listed, bs
<1>5. ASSUME NEW x \in Pieces
      PROVE  /\ pcs[x] \in PieceRow /\ pcs[x].there = piece[x].there /\ pcs[x].order = piece[x].order
             /\ pcs[x].key = piece[x].key /\ pcs[x].colour = piece[x].colour
             /\ pcs[x].spool \in {piece[x].spool, None}
  <2>1. PICK p \in PieceRow : p = piece[x]
    BY <1>2, TypedRows
  <2>2. PICK s \in Colours \cup {None} : s = IF x \in listed THEN None ELSE p.spool
    BY DEF PieceRow
  <2>3. pcs[x] \in {p, [p EXCEPT !.status = "cancelled", !.spool = s]} /\ s \in {p.spool, None}
    BY <2>1, <2>2
  <2>4. PICK q : q = [p EXCEPT !.status = "cancelled", !.spool = s]
    OBVIOUS
  <2>5. /\ q \in PieceRow /\ q.there = p.there /\ q.order = p.order /\ q.key = p.key /\ q.colour = p.colour
        /\ q.spool = s
    BY <2>1, <2>4 DEF PieceRow, PieceStatus
  <2> QED BY <2>1, <2>3, <2>4, <2>5
<1>6. pcs \in [Pieces -> PieceRow]
  BY <1>5
<1> HIDE DEF pcs
<1>7. SamePieces(piece', pcs)
  BY <1>1, <1>6, PiecesAfterKeeps
<1>8. Trimmed({})
  BY <1>5, <1>7 DEF SamePieces, Trimmed
<1>9. SamePlates(plate', B)
  BY <1>1, <1>2, PlatesAfterKeeps
<1>10. SameOrders(order')
  <2>1. "cancelled" \in OrderStatus
    BY DEF OrderStatus, Manual
  <2> QED BY <1>1, <1>2, <2>1, TypedRows, WithStatusKeeps DEF SameOrders
<1>11. /\ customer' \in [Customers -> CustomerRow]
       /\ \A d \in Customers : customer'[d].there = customer[d].there /\ customer'[d].total = customer[d].total
  <2>1. PICK old \in CustomerRow : old = customer[c]
    BY <1>2, TypedRows
  <2>2. PICK new : new = [old EXCEPT !.deleted = TRUE]
    OBVIOUS
  <2>3. new \in CustomerRow /\ new.there = old.there /\ new.total = old.total
    BY <2>2 DEF CustomerRow
  <2>4. customer' = [customer EXCEPT ![c] = new]
    BY <1>1, <1>2, <2>1, <2>2 DEF TypeOK
  <2> QED BY <1>2, <2>1, <2>3, <2>4 DEF TypeOK
<1> HIDE DEF B
<1> QED BY <1>1, <1>4, <1>8, <1>9, <1>10, <1>11

\* New pieces, all of one order and with one file.
Grown(X, o, k, c) ==
  /\ piece' = Added(X, o, k, c) /\ piece' \in [Pieces -> PieceRow] /\ X \subseteq Absent(piece)
  /\ UNCHANGED <<bucketVars, customer, attachment, plate, counter, lock, raced, sweep>>

LEMMA GrownRows ==
  ASSUME TypeOK, NEW X \in SUBSET Pieces, NEW o, NEW k, NEW c, Grown(X, o, k, c)
  PROVE  \A x \in Pieces : IF x \in X THEN piece'[x].there /\ piece'[x].key = k /\ piece'[x].spool = None
                                           /\ ~piece[x].there
                           ELSE piece'[x] = piece[x]
<1>1. \A x \in X : ~piece[x].there
  BY TypedRows DEF Grown, Absent, There
<1>2. PICK new : new = [NoPiece EXCEPT !.there = TRUE, !.order = o, !.key = k, !.colour = c]
  OBVIOUS
<1>3. new.there /\ new.key = k /\ new.spool = None
  BY <1>2 DEF NoPiece
<1>4. piece' = [x \in Pieces |-> IF x \in X THEN new ELSE piece[x]]
  BY <1>2 DEF Grown, Added
<1> QED BY <1>1, <1>3, <1>4

LEMMA CreatesRows ==
  ASSUME Typed, NEW r \in Requests, Creates(r)
  PROVE  /\ order' = order /\ Free("sync")
         /\ \E x \in Pieces, o \in Orders, k \in bucket \cup {None}, c \in Colours \cup {None} :
              Grown({x}, o, k, c)
<1>1. PICK x \in Pieces, o \in Orders, k \in Keys \cup {None}, c \in Colours \cup {None} : CreatePiece(r, x, o, k, c)
  BY DEF Creates
<1>2. Added({x}, o, k, c) \in [Pieces -> PieceRow]
  BY AddedIsTyped DEF Typed
<1>3. [AtRest EXCEPT !.op = "sync", !.on = o].op = "sync"
  BY DEF AtRest
<1> QED BY <1>1, <1>2, <1>3 DEF CreatePiece, Grown, Take

LEMMA CreatePiecesRows ==
  ASSUME Typed, NEW X \in SUBSET Pieces, NEW o \in Orders, NEW k \in Keys \cup {None}, CreatePieces(X, o, k)
  PROVE  SameOrders(order') /\ Free("createPieces") /\ k \in bucket \cup {None} /\ Grown(X, o, k, None)
BY AddedIsTyped, SyncedKeeps DEF Typed, CreatePieces, Grown

LEMMA DuplicateRows ==
  ASSUME Typed, NEW r \in Requests, NEW X \in SUBSET Pieces, DuplicateTx(r, X)
  PROVE  SameOrders(order') /\ Grown(X, req[r].old.order, req[r].old.key, req[r].old.colour)
<1>1. PICK old \in PieceRow : old = req[r].old
  BY DEF DuplicateTx, Typed, RequestsOK, Carries
<1>2. old.order \in Orders \cup {None} /\ old.key \in Keys \cup {None} /\ old.colour \in Colours \cup {None}
  BY DEF PieceRow
<1>3. Added(X, old.order, old.key, old.colour) \in [Pieces -> PieceRow] /\ SameOrders(Synced({old.order}, piece'))
  BY <1>2, AddedIsTyped, SyncedKeeps DEF Typed
<1> QED BY <1>1, <1>3 DEF DuplicateTx, Grown

\* One row of the pieces is written.
Written(x, p) ==
  /\ piece' = [piece EXCEPT ![x] = p] /\ piece' \in [Pieces -> PieceRow]
  /\ UNCHANGED <<customer, attachment, plate, counter, lock, raced, sweep>>

LEMMA PatchRows ==
  ASSUME Typed, NEW r \in Requests, PatchTx(r)
  PROVE  LET x == req[r].on
             p == IF piece[x].there THEN Patched(piece[x], req[r]) ELSE piece[x]
         IN Written(x, p) /\ SameOrders(order') /\ Forget({piece[x].key} \ {p.key})
<1>1. PICK x \in Pieces : x = req[r].on
  BY DEF PatchTx, Typed, RequestsOK, Carries
<1>2. TypeOK /\ Patch(req[r].to) /\ req[r].old \in PieceRow
  BY DEF PatchTx, Typed, RequestsOK, Carries
<1>3. PICK p \in PieceRow : p = IF piece[x].there THEN Patched(piece[x], req[r]) ELSE piece[x]
  BY <1>2, PatchedRow, TypedRows
<1>4. (IF piece[x].there THEN [piece EXCEPT ![x] = Patched(@, req[r])] ELSE piece) = [piece EXCEPT ![x] = p]
  BY <1>2, <1>3 DEF TypeOK
<1>5. PICK pcs : pcs = [piece EXCEPT ![x] = p]
  OBVIOUS
<1>6. /\ piece' = pcs /\ order' = Synced({req[r].old.order}, pcs) /\ Forget({piece[x].key} \ {pcs[x].key})
      /\ UNCHANGED <<customer, attachment, plate, counter, lock, raced, sweep>>
  BY <1>1, <1>4, <1>5 DEF PatchTx
<1>7. pcs \in [Pieces -> PieceRow] /\ pcs[x] = p
  BY <1>2, <1>3, <1>5 DEF TypeOK
<1>8. SameOrders(order')
  BY <1>2, <1>6, SyncedKeeps
<1> QED BY <1>1, <1>3, <1>5, <1>6, <1>7, <1>8 DEF Written

\* The row of a piece something is reserved for.
Reserved(p, c) == [p EXCEPT !.spool = c]

LEMMA ReservedRow ==
  ASSUME NEW p \in PieceRow, NEW c \in Colours \cup {None}
  PROVE  /\ Reserved(p, c) \in PieceRow /\ Reserved(p, c).there = p.there /\ Reserved(p, c).key = p.key
         /\ Reserved(p, c).order = p.order /\ Reserved(p, c).colour = p.colour /\ Reserved(p, c).spool = c
BY DEF Reserved, PieceRow

LEMMA ReplaceRows ==
  ASSUME Typed, NEW r \in Requests, ReplaceTx(r)
  PROVE  LET q == req[r]
             fits == q.to = None \/ q.old.colour \in {None, q.to}
         IN /\ \E p \in {piece[q.on]} \cup (IF fits THEN {Reserved(piece[q.on], q.to)} ELSE {}) : Written(q.on, p)
            /\ order' = order /\ UNCHANGED bucketVars
<1>1. PICK x \in Pieces, to \in Colours \cup {None} : x = req[r].on /\ to = req[r].to
  BY DEF ReplaceTx, Typed, RequestsOK, Carries
<1>2. TypeOK
  BY DEF Typed
<1>3. /\ \/ (to = None \/ req[r].old.colour \in {None, to}) /\ piece' = [piece EXCEPT ![x].spool = to]
         \/ piece' = piece
      /\ UNCHANGED <<bucketVars, order, customer, attachment, plate, counter, lock, raced, sweep>>
  BY <1>1 DEF ReplaceTx
<1>4. [piece EXCEPT ![x].spool = to] = [piece EXCEPT ![x] = Reserved(piece[x], to)]
  BY <1>2 DEF Reserved, TypeOK
<1>5. [piece EXCEPT ![x] = piece[x]] = piece
  BY <1>2 DEF TypeOK
<1>6. Reserved(piece[x], to) \in PieceRow
  BY <1>1, <1>2, ReservedRow, TypedRows
<1>7. [piece EXCEPT ![x] = Reserved(piece[x], to)] \in [Pieces -> PieceRow]
  BY <1>2, <1>6 DEF TypeOK
<1>8. CASE (to = None \/ req[r].old.colour \in {None, to}) /\ piece' = [piece EXCEPT ![x].spool = to]
  BY <1>1, <1>3, <1>4, <1>7, <1>8 DEF Written
<1>9. CASE piece' = piece
  <2>1. Written(x, piece[x])
    BY <1>2, <1>3, <1>5, <1>9 DEF Written, TypeOK
  <2> QED BY <1>1, <1>3, <2>1
<1> QED BY <1>3, <1>8, <1>9

\* What the shop floor reserves fits, and nothing else of a piece's row is moved
\* but its statuses.
LEMMA ShopRows ==
  ASSUME Typed, NEW x \in Pieces, Shop(x)
  PROVE  /\ SameOrders(order') /\ UNCHANGED bucketVars /\ Free("shop")
         /\ \E p \in PieceRow :
              /\ Written(x, p) /\ p.there = piece[x].there /\ p.key = piece[x].key /\ p.order = piece[x].order
              /\ p.colour = piece[x].colour /\ piece[x].there
              /\ p.spool # piece[x].spool => p.spool = None \/ p.colour \in {None, p.spool}
<1>1. PICK old \in PieceRow : old = piece[x]
  BY TypedRows DEF Typed
<1>2. PICK p \in ShopMoves(old) : piece' = [piece EXCEPT ![x] = p]
  BY <1>1 DEF Shop
<1>3. /\ p \in PieceRow /\ p.there = old.there /\ p.key = old.key /\ p.order = old.order /\ p.colour = old.colour
      /\ p.spool # old.spool => p.spool = None \/ p.colour \in {None, p.spool}
  <2>1. CASE old.status = "pending"
    <3>1. PICK c \in IF old.colour = None THEN Colours ELSE {old.colour} : p = [old EXCEPT !.status = "ready", !.spool = c]
      BY <1>2, <2>1 DEF ShopMoves
    <3>2. c \in Colours /\ old.colour \in {None, c}
      BY <3>1 DEF PieceRow
    <3> QED BY <3>1, <3>2 DEF PieceRow, PieceStatus
  <2>2. CASE old.status = "ready"
    BY <1>2, <2>2 DEF ShopMoves, PieceRow, PieceStatus
  <2>3. CASE old.status = "scheduled"
    BY <1>2, <2>3 DEF ShopMoves, PieceRow, PieceStatus
  <2>4. CASE old.status = "printing"
    <3>1. p = [old EXCEPT !.status = "done", !.spool = None]
      BY <1>2, <2>4 DEF ShopMoves
    <3> QED BY <3>1 DEF PieceRow, PieceStatus
  <2>5. CASE old.status = "done"
    <3>1. PICK f \in Fulfilment : p = [old EXCEPT !.fulfilment = f]
      BY <1>2, <2>5 DEF ShopMoves, Fulfilment
    <3> QED BY <3>1 DEF PieceRow
  <2>6. CASE old.status \notin {"pending", "ready", "scheduled", "printing", "done"}
    BY <1>2, <2>6 DEF ShopMoves
  <2> QED BY <2>1, <2>2, <2>3, <2>4, <2>5, <2>6
<1>4. piece' \in [Pieces -> PieceRow]
  BY <1>2, <1>3 DEF Typed, TypeOK
<1>5. SameOrders(order')
  BY SyncedKeeps DEF Typed, Shop
<1>6. piece[x].there
  BY DEF Shop, There
<1> QED BY <1>1, <1>2, <1>3, <1>4, <1>5, <1>6 DEF Shop, Written

LEMMA UpdateRows ==
  ASSUME Typed, NEW r \in Requests, UpdateTx(r)
  PROVE  /\ req[r] \in UpdateRequest /\ req[r].op = "update"
         /\ \/ UNCHANGED <<order, customer, raced>>
            \/ LET q == req[r]
                   o == q.on
                   from == order[o].customer IN
               /\ order' = IF order[o].there THEN [order EXCEPT ![o] = Changed(order[o], q)] ELSE order
               /\ customer' = [c \in Customers |-> IF FirstCustomer(q) /\ c = q.to.customer
                                                   THEN More(customer[c]) ELSE customer[c]]
               /\ raced' = IF ~order[o].there \/ from # q.old.customer
                                \/ (from # None /\ q.to.customer \notin {None, from})
                           THEN raced \cup {from, q.to.customer, q.old.customer} ELSE raced
         /\ order' \in [Orders -> OrderRow] /\ customer' \in [Customers -> CustomerRow]
         /\ raced' \subseteq Customers \cup {None}
         /\ UNCHANGED <<bucketVars, piece, attachment, plate, counter, lock, sweep>>
<1>1. PICK q \in UpdateRequest : q = req[r] /\ q.op = "update"
  BY DEF UpdateTx, Typed, RequestsOK, Carries
<1>2. PICK o \in Orders : o = q.on
  BY DEF UpdateRequest
<1>3. TypeOK /\ UNCHANGED <<bucketVars, piece, attachment, plate, counter, lock, sweep>>
  BY DEF UpdateTx, Typed
<1>4. CASE UNCHANGED <<order, customer, raced>>
  BY <1>1, <1>3, <1>4 DEF TypeOK
<1>5. CASE /\ order' = IF order[o].there THEN [order EXCEPT ![o] = Changed(order[o], q)] ELSE order
           /\ customer' = [c \in Customers |-> IF FirstCustomer(q) /\ c = q.to.customer
                                               THEN More(customer[c]) ELSE customer[c]]
           /\ raced' = IF ~order[o].there \/ order[o].customer # q.old.customer
                            \/ (order[o].customer # None /\ q.to.customer \notin {None, order[o].customer})
                       THEN raced \cup {order[o].customer, q.to.customer, q.old.customer} ELSE raced
  <2>1. order[o] \in OrderRow /\ order \in [Orders -> OrderRow]
    BY <1>3 DEF TypeOK
  <2>2. Changed(order[o], q) \in OrderRow
    BY <2>1, ChangedRow
  <2>3. order' \in [Orders -> OrderRow]
    BY <1>5, <2>1, <2>2
  <2>4. customer' \in [Customers -> CustomerRow]
    BY <1>3, <1>5, TypedRows, CountsMove
  <2>5. {order[o].customer, q.to.customer, q.old.customer} \subseteq Customers \cup {None}
    BY <2>1 DEF UpdateRequest, OrderRow
  <2>6. raced' \subseteq Customers \cup {None}
    BY <1>3, <1>5, <2>5 DEF TypeOK
  <2> QED BY <1>1, <1>2, <1>3, <1>5, <2>3, <2>4, <2>6
<1>6. TypeOK => [order EXCEPT ![o] = Changed(@, q)] = [order EXCEPT ![o] = Changed(order[o], q)]
  BY DEF TypeOK
<1> QED BY <1>1, <1>2, <1>3, <1>4, <1>5, <1>6 DEF UpdateTx, More

\* All that is typed but the requests.
RowsTyped == TypeOK /\ SweepOK /\ CleanupOK /\ Blank

LEMMA AskTyped ==
  ASSUME Typed, NEW r \in Requests, Asks(r)
  PROVE  RowsTyped'
<1>1. lock' \in Requests \cup {None}
  BY DEF Asks, Asked, Typed, TypeOK
<1> QED BY <1>1 DEF Asks, Typed, RowsTyped, TypeOK, SweepOK, CleanupOK, Blank, bucketVars

\* Steps that leave the files and the sweep alone.
LEMMA RowsOnlyTyped ==
  ASSUME Typed, UNCHANGED <<bucketVars, attachment, plate, sweep>>,
         order' \in [Orders -> OrderRow], customer' \in [Customers -> CustomerRow], raced' \subseteq Customers \cup {None},
         counter' \in 0..MaxSerial, lock' \in Requests \cup {None},
         piece' \in [Pieces -> PieceRow], \A x \in Pieces : ~piece'[x].there => piece'[x].key = None
  PROVE  RowsTyped'
BY DEF Typed, RowsTyped, TypeOK, SweepOK, CleanupOK, Blank, bucketVars

LEMMA NumberedTyped ==
  ASSUME Typed, NEW r \in Requests, Numbered(r)
  PROVE  RowsTyped'
<1>1. CASE CreateCommit(r)
  <2>1. PICK q : /\ q = req[r] /\ q.on \in Orders /\ q.n \in 1..MaxSerial
                 /\ q.to \in [customer : Customers \cup {None}, guest : BOOLEAN, minted : {TRUE}]
    BY <1>1 DEF CreateCommit, Typed, RequestsOK, Carries
  <2>2. q.n \in 0..MaxSerial /\ q.to.customer \in Customers \cup {None} /\ q.to.guest \in BOOLEAN
          /\ q.to.minted \in BOOLEAN
    <3>1. q.n \in 0..MaxSerial
      BY <2>1, OrderDeskAssumption
    <3>2. q.to.customer \in Customers \cup {None} /\ q.to.guest \in BOOLEAN /\ q.to.minted \in {TRUE}
      BY <2>1
    <3> QED BY <3>1, <3>2
  <2>3. CASE UNCHANGED <<order, customer, counter>>
    BY <1>1, <2>3, RowsOnlyTyped DEF CreateCommit, Typed, TypeOK, Blank
  <2>4. CASE Placed(q.on, q) /\ counter' = q.n
    <3>1. order' \in [Orders -> OrderRow] /\ customer' \in [Customers -> CustomerRow]
      BY <2>1, <2>2, <2>4, PlacedIsTyped DEF Typed
    <3> QED BY <1>1, <2>2, <2>4, <3>1, RowsOnlyTyped DEF CreateCommit, Typed, TypeOK, Blank
  <2> QED BY <1>1, <2>1, <2>3, <2>4 DEF CreateCommit
<1>2. CASE RestartCommit(r)
  <2>1. req[r].n \in 1..MaxSerial + 1
    BY <1>2 DEF RestartCommit, Typed, RequestsOK, Carries
  <2>2. counter' \in 0..MaxSerial
    BY <1>2, <2>1, OrderDeskAssumption DEF RestartCommit, Typed, TypeOK
  <2> QED BY <1>2, <2>2, RowsOnlyTyped DEF RestartCommit, Typed, TypeOK, Blank
<1>3. CASE UpdateTx(r)
  <2>1. /\ order' \in [Orders -> OrderRow] /\ customer' \in [Customers -> CustomerRow]
        /\ raced' \subseteq Customers \cup {None}
        /\ UNCHANGED <<bucketVars, piece, attachment, plate, counter, lock, sweep>>
    BY <1>3, UpdateRows
  <2> QED BY <2>1, RowsOnlyTyped DEF Typed, TypeOK, Blank
<1> QED BY <1>1, <1>2, <1>3 DEF Numbered

\* Steps that trim pieces and plates and hand their files over.
LEMMA TrimmedTyped ==
  ASSUME Typed, NEW X, NEW B, Trimmed(X), SamePlates(plate', B),
         attachment' \in [Attachments -> AttachmentRow],
         \A a \in Attachments : attachment'[a] \in {attachment[a], NoAttachment},
         order' \in [Orders -> OrderRow], customer' \in [Customers -> CustomerRow],
         raced' \subseteq Customers \cup {None}, counter' = counter, lock' = lock, sweep' = sweep,
         CleanupOK', bucket' = bucket, minted' = minted, armed' = armed
  PROVE  RowsTyped'
<1>1. NoAttachment.key = None /\ NoPlate.key = None
  BY DEF NoAttachment, NoPlate
<1>2. Blank'
  BY <1>1 DEF Typed, Blank, Trimmed, SamePlates
<1> QED BY <1>2 DEF Typed, RowsTyped, TypeOK, SweepOK, Trimmed, SamePlates

LEMMA DeletesTyped ==
  ASSUME Typed, NEW r \in Requests, Deletes(r)
  PROVE  RowsTyped'
<1>1. CASE DeleteOrderTx(r) \/ PurgeOrderTx(r)
  <2>1. PICK o \in Orders : o = req[r].on /\ Erased(r, o) /\ req[r].old \in OrderRow
    BY <1>1, EraseRows
  <2>2. CleanupOK' /\ bucket' = bucket /\ minted' = minted /\ armed' = armed
    BY <2>1, PromiseIsTyped DEF Erased
  <2>3. \A a \in Attachments : attachment'[a] \in {attachment[a], NoAttachment}
    BY <2>1 DEF Erased, Unattached
  <2>4. raced' \subseteq Customers \cup {None}
    BY <2>1, TypedRows DEF Erased, Typed, TypeOK, OrderRow
  <2> QED BY <2>1, <2>2, <2>3, <2>4, TrimmedTyped DEF Erased
<1>2. ASSUME NEW X, NEW B, Tidied(X, B), NEW keys \in SUBSET (Keys \cup {None}),
             NEW gone \in SUBSET (Keys \cup {None}), Promise(r, keys, gone)
      PROVE  RowsTyped'
  <2>1. CleanupOK' /\ bucket' = bucket /\ minted' = minted /\ armed' = armed
    BY <1>2, PromiseIsTyped
  <2>2. attachment' \in [Attachments -> AttachmentRow] /\ \A a \in Attachments : attachment'[a] \in {attachment[a], NoAttachment}
    BY <1>2 DEF Tidied, Typed, TypeOK
  <2>3. order' \in [Orders -> OrderRow] /\ customer' \in [Customers -> CustomerRow] /\ raced' \subseteq Customers \cup {None}
    BY <1>2 DEF Tidied, SameOrders, Typed, TypeOK
  <2> QED BY <1>2, <2>1, <2>2, <2>3, TrimmedTyped DEF Tidied
<1>3. CASE DeletePiecesTx(r)
  <2>1. PICK X, B, K :
          /\ Tidied(X, B) /\ K \subseteq Keys \cup {None}
          /\ Promise(r, K \cup PlateKeys(B), PieceKeys(X) \cup PlateKeys(B))
    BY <1>3, DeletePiecesRows
  <2>2. PieceKeys(X) \subseteq Keys \cup {None} /\ PlateKeys(B) \subseteq Keys \cup {None}
    BY <2>1, KeysAreKeys DEF Tidied, Typed
  <2> QED BY <1>2, <2>1, <2>2
<1>4. CASE DeleteBedTx(r)
  <2>1. PICK b, X, old : /\ Tidied(X, {b}) /\ old \in PlateRow
                         /\ Promise(r, PieceKeys(X) \cup {old.key}, PieceKeys(X) \cup {plate[b].key})
    BY <1>4, DeleteBedRows
  <2>2. PieceKeys(X) \subseteq Keys \cup {None} /\ {old.key, plate[b].key} \subseteq Keys \cup {None}
    BY <2>1, KeysAreKeys, TypedRows DEF Tidied, Typed, PlateRow
  <2> QED BY <1>2, <2>1, <2>2
<1>5. CASE DisassembleTx(r)
  <2>1. PICK B : Tidied({}, B) /\ Promise(r, PlateKeys(B), PlateKeys(B))
    BY <1>5, DisassembleRows
  <2>2. PlateKeys(B) \subseteq Keys \cup {None}
    BY <2>1, KeysAreKeys DEF Tidied, Typed
  <2> QED BY <1>2, <2>1, <2>2
<1> QED BY <1>1, <1>3, <1>4, <1>5 DEF Deletes

LEMMA ForgetIsTyped ==
  ASSUME Typed, NEW keys \in SUBSET (Keys \cup {None}), Forget(keys)
  PROVE  CleanupOK' /\ bucket' = bucket /\ minted' = minted /\ armed' = armed
BY DEF Typed, CleanupOK, Forget

LEMMA GrownTyped ==
  ASSUME Typed, NEW X \in SUBSET Pieces, NEW o, NEW k, NEW c, Grown(X, o, k, c), order' \in [Orders -> OrderRow]
  PROVE  RowsTyped'
<1>1. \A x \in Pieces : ~piece'[x].there => piece'[x].key = None
  BY GrownRows DEF Typed, Blank
<1> QED BY <1>1, RowsOnlyTyped DEF Grown, Typed, TypeOK

LEMMA WrittenTyped ==
  ASSUME Typed, NEW x \in Pieces, NEW p, Written(x, p), order' \in [Orders -> OrderRow], p.there = piece[x].there,
         ~p.there => p.key = None, CleanupOK', bucket' = bucket, minted' = minted, armed' = armed
  PROVE  RowsTyped'
BY DEF Typed, RowsTyped, TypeOK, SweepOK, Blank, Written

LEMMA EditsTyped ==
  ASSUME Typed, NEW r \in Requests, Edits(r) \/ DeleteCustomerTx(r) \/ Creates(r)
  PROVE  RowsTyped'
<1>1. CASE CreatePieceSync(r)
  <2>1. order' \in [Orders -> OrderRow]
    BY <1>1, SyncedKeeps DEF CreatePieceSync, SameOrders, Typed
  <2> QED BY <1>1, <2>1, RowsOnlyTyped DEF CreatePieceSync, Typed, TypeOK, Blank
<1>2. CASE PatchTx(r)
  <2>1. PICK x \in Pieces : x = req[r].on /\ piece[x] \in PieceRow /\ Patch(req[r].to) /\ req[r].old \in PieceRow
    BY <1>2, TypedRows DEF PatchTx, Typed, RequestsOK, Carries
  <2>2. PICK p : p = IF piece[x].there THEN Patched(piece[x], req[r]) ELSE piece[x]
    OBVIOUS
  <2>3. Written(x, p) /\ SameOrders(order') /\ Forget({piece[x].key} \ {p.key})
    BY <1>2, <2>1, <2>2, PatchRows
  <2>4. p.there = piece[x].there /\ (~p.there => p.key = None)
    BY <2>1, <2>2, PatchedRow DEF Typed, Blank
  <2>5. {piece[x].key} \ {p.key} \subseteq Keys \cup {None}
    BY <2>1 DEF PieceRow
  <2>6. CleanupOK' /\ bucket' = bucket /\ minted' = minted /\ armed' = armed
    BY <2>3, <2>5, ForgetIsTyped
  <2>7. order' \in [Orders -> OrderRow]
    BY <2>3 DEF SameOrders
  <2> QED BY <2>3, <2>4, <2>6, <2>7, WrittenTyped
<1>3. CASE ReplaceTx(r)
  <2>1. PICK x \in Pieces, c \in Colours \cup {None} : x = req[r].on /\ c = req[r].to
    BY <1>3 DEF ReplaceTx, Typed, RequestsOK, Carries
  <2>2. PICK p \in {piece[x], Reserved(piece[x], c)} : Written(x, p) /\ order' = order /\ UNCHANGED bucketVars
    BY <1>3, <2>1, ReplaceRows
  <2>3. p.there = piece[x].there /\ p.key = piece[x].key
    BY <2>1, <2>2, ReservedRow, TypedRows DEF Typed
  <2>4. CleanupOK' /\ bucket' = bucket /\ minted' = minted /\ armed' = armed
    BY <2>2 DEF bucketVars, Typed, CleanupOK
  <2> QED BY <2>2, <2>3, <2>4, WrittenTyped DEF Typed, TypeOK, Blank
<1>4. ASSUME NEW X \in SUBSET Pieces, DuplicateTx(r, X) PROVE RowsTyped'
  BY <1>4, DuplicateRows, GrownTyped DEF SameOrders
<1>5. CASE DeleteCustomerTx(r)
  <2>1. PICK B \in SUBSET Plates :
           /\ Trimmed({}) /\ SamePlates(plate', B) /\ SameOrders(order') /\ Forget(PlateKeys(B))
           /\ customer' \in [Customers -> CustomerRow]
           /\ UNCHANGED <<attachment, counter, lock, raced, sweep>>
    BY <1>5, DeleteCustomerRows
  <2>2. PlateKeys(B) \subseteq Keys \cup {None}
    BY KeysAreKeys DEF Typed
  <2>3. CleanupOK' /\ bucket' = bucket /\ minted' = minted /\ armed' = armed
    BY <2>1, <2>2, ForgetIsTyped
  <2> QED BY <2>1, <2>3, TrimmedTyped DEF SameOrders, Typed, TypeOK
<1>6. CASE Creates(r)
  <2>1. PICK x \in Pieces, o \in Orders, k \in bucket \cup {None}, c \in Colours \cup {None} : Grown({x}, o, k, c)
    BY <1>6, CreatesRows
  <2>2. order' = order
    BY <1>6, CreatesRows
  <2> QED BY <2>1, <2>2, GrownTyped DEF Typed, TypeOK
<1> QED BY <1>1, <1>2, <1>3, <1>4, <1>5, <1>6 DEF Edits

LEMMA ResolveRows ==
  ASSUME Typed, NEW r \in Requests, Resolve(r)
  PROVE  /\ customer' \in [Customers -> CustomerRow]
         /\ \A c \in Customers : \/ customer'[c] = customer[c]
                                 \/ ~customer[c].there /\ customer'[c].there /\ customer'[c].total = 0
         /\ \E c \in There(customer') : req' = [req EXCEPT ![r].op = "update", ![r].to.customer = c]
         /\ UNCHANGED <<bucketVars, order, piece, attachment, plate, counter, lock, raced, sweep>>
<1>1. UNCHANGED <<bucketVars, order, piece, attachment, plate, counter, lock, raced, sweep>> /\ TypeOK
  BY DEF Resolve, Typed
<1>2. ASSUME NEW c \in LiveCustomers,
             req' = [req EXCEPT ![r].op = "update", ![r].to.customer = c], customer' = customer
      PROVE  /\ c \in There(customer') /\ customer' \in [Customers -> CustomerRow]
             /\ \A d \in Customers : customer'[d] = customer[d]
  BY <1>1, <1>2 DEF LiveCustomers, TypeOK, There
<1>3. ASSUME NEW c \in Absent(customer),
             req' = [req EXCEPT ![r].op = "update", ![r].to.customer = c],
             customer' = [customer EXCEPT ![c] = [NoCustomer EXCEPT !.there = TRUE]]
      PROVE  /\ c \in There(customer') /\ customer' \in [Customers -> CustomerRow]
             /\ \A d \in Customers : \/ customer'[d] = customer[d]
                                     \/ ~customer[d].there /\ customer'[d].there /\ customer'[d].total = 0
  <2>1. PICK new : new = [NoCustomer EXCEPT !.there = TRUE]
    OBVIOUS
  <2>2. new \in CustomerRow /\ new.there /\ new.total = 0
    BY <2>1, NoRowsAreRows DEF NoCustomer, CustomerRow
  <2>3. c \in Customers /\ ~customer[c].there
    BY <1>1 DEF Absent, There, TypeOK
  <2> QED BY <1>1, <1>3, <2>1, <2>2, <2>3 DEF TypeOK, There
<1> QED BY <1>1, <1>2, <1>3 DEF Resolve

LEMMA ResolvedIsUpdate ==
  ASSUME Typed, NEW r \in Requests, Resolve(r)
  PROVE  req'[r].op = "update" /\ req[r].op = "resolve"
<1>1. PICK c : req' = [req EXCEPT ![r].op = "update", ![r].to.customer = c]
  BY ResolveRows
<1>2. PICK q \in UpdateRequest : q = req[r]
  BY DEF Resolve, Typed, RequestsOK, Carries
<1>3. PICK u : u = [q EXCEPT !.op = "update", !.to.customer = c]
  OBVIOUS
<1>4. u.op = "update" /\ req'[r] = u
  BY <1>1, <1>2, <1>3 DEF Typed, RequestsOK, UpdateRequest
<1> QED BY <1>4 DEF Resolve

\* Order o is opened as q says, with a number that somebody typed in.
OpenedByHand(o, c, q) ==
  /\ Placed(o, q) /\ q.to.customer = c /\ q.to.minted = FALSE
  /\ order' = [order EXCEPT ![o] = Opened(q)] /\ Opened(q) \in OrderRow
  /\ Opened(q).there /\ Opened(q).minted = FALSE /\ Opened(q).customer = c
  /\ customer' = [d \in Customers |-> IF d = q.to.customer THEN More(customer[d]) ELSE customer[d]]
  /\ order' \in [Orders -> OrderRow] /\ customer' \in [Customers -> CustomerRow]

LEMMA CreateWithNumberRows ==
  ASSUME Typed, NEW o \in Orders, NEW c \in Customers \cup {None}, NEW guest \in BOOLEAN, NEW n \in 0..MaxSerial,
         CreateWithNumber(o, c, guest, n)
  PROVE  \E q : OpenedByHand(o, c, q)
<1>1. PICK q : q = [n |-> n, to |-> [customer |-> c, guest |-> guest, minted |-> FALSE]]
  OBVIOUS
<1>2. q.n = n /\ q.to.customer = c /\ q.to.guest = guest /\ q.to.minted = FALSE
  BY <1>1
<1>3. Placed(o, q)
  BY <1>1 DEF CreateWithNumber
<1>4. q.n \in 0..MaxSerial /\ q.to.customer \in Customers \cup {None} /\ q.to.guest \in BOOLEAN /\ q.to.minted \in BOOLEAN
  BY <1>2
<1>5. OpenedByHand(o, c, q)
  BY <1>2, <1>3, <1>4, OpenedRow, PlacedIsTyped DEF OpenedByHand, Typed
<1> QED BY <1>5

LEMMA CustomerRows ==
  ASSUME Typed, NEW c \in Customers, CreateCustomer(c) \/ RestoreCustomer(c)
  PROVE  /\ customer' \in [Customers -> CustomerRow]
         /\ \A d \in Customers : \/ customer'[d].there = customer[d].there /\ customer'[d].total = customer[d].total
                                 \/ ~customer[d].there /\ customer'[d].there /\ customer'[d].total = 0
<1>1. PICK old \in CustomerRow : old = customer[c] /\ customer \in [Customers -> CustomerRow]
  BY TypedRows DEF Typed, TypeOK
<1>2. CASE CreateCustomer(c)
  <2>1. PICK new : new = [NoCustomer EXCEPT !.there = TRUE]
    OBVIOUS
  <2>2. new \in CustomerRow /\ new.there /\ new.total = 0
    BY <2>1, NoRowsAreRows DEF NoCustomer, CustomerRow
  <2>3. ~customer[c].there /\ customer' = [customer EXCEPT ![c] = new]
    BY <1>1, <1>2, <2>1 DEF CreateCustomer, Absent, There
  <2> QED BY <1>1, <2>2, <2>3
<1>3. CASE RestoreCustomer(c)
  <2>1. PICK new : new = [old EXCEPT !.deleted = FALSE]
    OBVIOUS
  <2>2. new \in CustomerRow /\ new.there = old.there /\ new.total = old.total
    BY <2>1 DEF CustomerRow
  <2>3. customer' = [customer EXCEPT ![c] = new]
    BY <1>1, <1>3, <2>1 DEF RestoreCustomer
  <2> QED BY <1>1, <2>2, <2>3
<1> QED BY <1>2, <1>3

\* A file of an order's, attached or taken off.
LEMMA AttachRows ==
  ASSUME Typed, NEW a \in Attachments, NEW o \in Orders, NEW kind \in {"stl", "other"}, NEW k \in Keys, Attach(a, o, kind, k)
  PROVE  /\ attachment' \in [Attachments -> AttachmentRow] /\ Free("attach") /\ k \in bucket
         /\ ~attachment[a].there
         /\ \A b \in Attachments : IF b = a THEN attachment'[b].there /\ attachment'[b].key = k
                                   ELSE attachment'[b] = attachment[b]
         /\ UNCHANGED <<bucketVars, order, customer, piece, plate, counter, lock, raced, req, sweep>>
<1>1. PICK new : new = [there |-> TRUE, order |-> o, kind |-> kind, key |-> k]
  OBVIOUS
<1>2. new \in AttachmentRow /\ new.there /\ new.key = k
  BY <1>1 DEF AttachmentRow
<1>3. attachment' = [attachment EXCEPT ![a] = new] /\ attachment \in [Attachments -> AttachmentRow]
  BY <1>1 DEF Attach, Typed, TypeOK
<1>4. ~attachment[a].there
  BY DEF Attach, Absent, There, Typed, TypeOK
<1> QED BY <1>2, <1>3, <1>4 DEF Attach

LEMMA DetachRows ==
  ASSUME Typed, NEW r \in Requests, NEW a \in Attachments, Detach(r, a)
  PROVE  /\ attachment' = Unattached({a}) /\ attachment' \in [Attachments -> AttachmentRow]
         /\ attachment[a].there /\ attachment[a].key \in Keys \cup {None}
         /\ Promise(r, {attachment[a].key}, {attachment[a].key})
         /\ UNCHANGED <<order, customer, piece, plate, counter, lock, raced, req, sweep>>
<1>1. attachment' = [attachment EXCEPT ![a] = NoAttachment] /\ attachment \in [Attachments -> AttachmentRow]
  BY DEF Detach, Typed, TypeOK
<1>2. attachment' = Unattached({a})
  BY <1>1 DEF Unattached
<1>3. attachment' \in [Attachments -> AttachmentRow] /\ attachment[a].key \in Keys \cup {None}
  BY <1>1, NoRowsAreRows DEF AttachmentRow
<1> QED BY <1>2, <1>3 DEF Detach, There

LEMMA AtOnceTyped ==
  ASSUME Typed, AtOnce
  PROVE  RowsTyped'
<1>1. ASSUME NEW o \in Orders, NEW c \in Customers \cup {None}, NEW guest \in BOOLEAN, NEW n \in 0..MaxSerial,
             CreateWithNumber(o, c, guest, n)
      PROVE  RowsTyped'
  <2>1. order' \in [Orders -> OrderRow] /\ customer' \in [Customers -> CustomerRow]
    BY <1>1, CreateWithNumberRows DEF OpenedByHand
  <2> QED BY <1>1, <2>1, RowsOnlyTyped DEF CreateWithNumber, Typed, TypeOK, Blank
<1>2. ASSUME NEW c \in Customers, CreateCustomer(c) \/ RestoreCustomer(c) PROVE RowsTyped'
  <2>1. customer' \in [Customers -> CustomerRow]
    BY <1>2, CustomerRows
  <2>2. UNCHANGED <<bucketVars, order, piece, attachment, plate, counter, lock, raced, req, sweep>>
    BY <1>2 DEF CreateCustomer, RestoreCustomer
  <2> QED BY <2>1, <2>2, RowsOnlyTyped DEF Typed, TypeOK, Blank
<1>3. ASSUME NEW k \in Keys, Uploads(k) PROVE RowsTyped'
  BY <1>3 DEF Uploads, Upload, rows, Typed, RowsTyped, TypeOK, SweepOK, CleanupOK, Blank
<1>4. ASSUME NEW X \in SUBSET Pieces, NEW o \in Orders, NEW k \in Keys \cup {None}, CreatePieces(X, o, k)
      PROVE  RowsTyped'
  BY <1>4, CreatePiecesRows, GrownTyped DEF SameOrders
<1>5. ASSUME NEW a \in Attachments, NEW o \in Orders, NEW kind \in {"stl", "other"}, NEW k \in Keys, Attach(a, o, kind, k)
      PROVE  RowsTyped'
  <2>1. /\ attachment' \in [Attachments -> AttachmentRow]
        /\ \A b \in Attachments : ~attachment'[b].there => attachment'[b].key = None
        /\ UNCHANGED <<bucketVars, order, customer, piece, plate, counter, lock, raced, req, sweep>>
    BY <1>5, AttachRows DEF Typed, Blank
  <2> QED BY <2>1 DEF Typed, RowsTyped, TypeOK, SweepOK, CleanupOK, Blank, bucketVars
<1>6. ASSUME NEW r \in Requests, NEW a \in Attachments, Detach(r, a) PROVE RowsTyped'
  <2>1. /\ attachment' = Unattached({a}) /\ attachment' \in [Attachments -> AttachmentRow]
        /\ attachment[a].key \in Keys \cup {None} /\ Promise(r, {attachment[a].key}, {attachment[a].key})
        /\ UNCHANGED <<order, customer, piece, plate, counter, lock, raced, req, sweep>>
    BY <1>6, DetachRows
  <2>2. CleanupOK' /\ bucket' = bucket /\ minted' = minted /\ armed' = armed
    BY <2>1, PromiseIsTyped
  <2>3. \A b \in Attachments : attachment'[b] \in {attachment[b], NoAttachment}
    BY <2>1 DEF Unattached
  <2>4. Trimmed({}) /\ SamePlates(plate', {})
    BY <2>1 DEF Trimmed, SamePlates, Typed, TypeOK
  <2> QED BY <2>1, <2>2, <2>3, <2>4, TrimmedTyped DEF Typed, TypeOK
<1>7. ASSUME NEW x \in Pieces, Shop(x) PROVE RowsTyped'
  <2>1. PICK p \in PieceRow : Written(x, p) /\ p.there = piece[x].there /\ p.key = piece[x].key
    BY <1>7, ShopRows
  <2>2. SameOrders(order') /\ UNCHANGED bucketVars
    BY <1>7, ShopRows
  <2>3. CleanupOK' /\ bucket' = bucket /\ minted' = minted /\ armed' = armed
    BY <2>2 DEF bucketVars, Typed, CleanupOK
  <2> QED BY <2>1, <2>2, <2>3, WrittenTyped DEF SameOrders, Typed, Blank
<1> QED BY <1>1, <1>2, <1>3, <1>4, <1>5, <1>6, <1>7 DEF AtOnce

\* The sweep lets go of an order's heavy files.
Unlinked(o) ==
  /\ piece' \in [Pieces -> PieceRow]
  /\ \A x \in Pieces : /\ piece'[x].there = piece[x].there /\ piece'[x].order = piece[x].order
                       /\ piece'[x].colour = piece[x].colour /\ piece'[x].spool = piece[x].spool
                       /\ piece'[x].key = IF x \in OfOrder(o, piece) THEN None ELSE piece[x].key
  /\ attachment' = Unattached(Models(o)) /\ attachment' \in [Attachments -> AttachmentRow]
  /\ UNCHANGED <<order, customer, plate, counter, lock, raced, req>>

LEMMA UnlinkRows ==
  ASSUME Typed, SweepUnlink
  PROVE  /\ sweep.on \in Orders /\ Unlinked(sweep.on)
         /\ HandOver(Sweeper, sweep.keys, Heavy(sweep.on))
         /\ sweep' \in [todo : SUBSET Orders, on : {None}, keys : {{}}]
<1>1. PICK o \in Orders : o = sweep.on
  BY DEF SweepUnlink, Typed, SweepOK
<1>2. TypeOK
  BY DEF Typed
<1>3. ASSUME NEW x \in Pieces
      PROVE /\ piece'[x] \in PieceRow
            /\ piece'[x].there = piece[x].there /\ piece'[x].order = piece[x].order
            /\ piece'[x].colour = piece[x].colour /\ piece'[x].spool = piece[x].spool
            /\ piece'[x].key = IF x \in OfOrder(o, piece) THEN None ELSE piece[x].key
  <2>1. PICK p \in PieceRow : p = piece[x]
    BY <1>2, TypedRows
  <2>2. PICK q : q = [p EXCEPT !.key = None]
    OBVIOUS
  <2>3. /\ q \in PieceRow /\ q.there = p.there /\ q.order = p.order /\ q.colour = p.colour /\ q.spool = p.spool
        /\ q.key = None
    BY <2>2 DEF PieceRow
  <2>4. piece'[x] = IF x \in OfOrder(o, piece) THEN q ELSE p
    BY <1>1, <2>1, <2>2 DEF SweepUnlink
  <2> QED BY <2>1, <2>3, <2>4
<1>4. piece' \in [Pieces -> PieceRow]
  BY <1>3 DEF SweepUnlink
<1>5. attachment' = Unattached(Models(o)) /\ attachment' \in [Attachments -> AttachmentRow]
  BY <1>1, <1>2, NoRowsAreRows, TypedRows DEF SweepUnlink, Unattached
<1>6. sweep' \in [todo : SUBSET Orders, on : {None}, keys : {{}}]
  BY DEF SweepUnlink, Typed, SweepOK
<1> QED BY <1>1, <1>3, <1>4, <1>5, <1>6 DEF SweepUnlink, Unlinked

LEMMA HeavyKeys ==
  ASSUME TypeOK, NEW o
  PROVE  Heavy(o) \subseteq Keys
BY TypedRows DEF Heavy, PieceKeys, OfOrder, Models, PieceRow, AttachmentRow

\* Ageing changes an order's age.
LEMMA AgeRows ==
  ASSUME TypeOK, NEW o \in Orders, Age(o)
  PROVE  SameOrders(order') /\ order[o].there
<1>1. PICK old \in OrderRow : old = order[o] /\ old.there
  BY TypedRows DEF Age
<1>2. PICK new : new = [old EXCEPT !.aged = TRUE]
  OBVIOUS
<1>3. /\ new \in OrderRow /\ new.there = old.there /\ new.number = old.number /\ new.minted = old.minted
      /\ new.customer = old.customer
  BY <1>2 DEF OrderRow
<1>4. order' = [order EXCEPT ![o] = new] /\ order \in [Orders -> OrderRow]
  BY <1>1, <1>2 DEF Age, TypeOK
<1> QED BY <1>1, <1>3, <1>4 DEF SameOrders

LEMMA CleaningTyped ==
  ASSUME Typed, NEW w \in Workers, Cleaning(w)
  PROVE  CleanupOK' /\ bucket' \subseteq bucket /\ minted' = minted /\ armed' = armed
<1>1. PICK c \in [at : {"none", "check", "remove"}, keys : SUBSET Keys] : c = cleanup[w]
  BY DEF Typed, CleanupOK
<1>2. Clean \in [at : {"none", "check", "remove"}, keys : SUBSET Keys]
  BY DEF Clean
<1>3. [at |-> "remove", keys |-> c.keys \ Refs] \in [at : {"none", "check", "remove"}, keys : SUBSET Keys]
  OBVIOUS
<1>4. /\ \/ cleanup' = [cleanup EXCEPT ![w] = Clean]
         \/ cleanup' = [cleanup EXCEPT ![w] = [at |-> "remove", keys |-> c.keys \ Refs]]
      /\ bucket' \subseteq bucket /\ minted' = minted /\ armed' = armed /\ owed' = owed
      /\ spilled' \subseteq spilled \cup c.keys
  BY <1>1 DEF Cleaning, BucketStep, CheckReferences, CheckFails, RemoveObjects, RemoveFails, Typed, CleanupOK
<1> QED BY <1>1, <1>2, <1>3, <1>4 DEF Typed, CleanupOK

LEMMA BackgroundTyped ==
  ASSUME Typed, Background
  PROVE  RowsTyped'
<1>1. ASSUME NEW w \in Workers, Cleaning(w) PROVE RowsTyped'
  <2>1. CleanupOK' /\ bucket' \subseteq bucket /\ minted' = minted /\ armed' = armed
    BY <1>1, CleaningTyped
  <2> QED BY <1>1, <2>1 DEF Cleaning, rows, Typed, RowsTyped, TypeOK, SweepOK, Blank
<1>2. CASE SweepFind
  <2>1. sweep' \in [todo : SUBSET Orders, on : Orders \cup {None}, keys : SUBSET Keys]
    BY <1>2, TypedRows DEF SweepFind, Asleep, Eligible, Typed
  <2> QED BY <1>2, <2>1 DEF SweepFind, rows, bucketVars, Typed, RowsTyped, TypeOK, SweepOK, CleanupOK, Blank
<1>3. ASSUME NEW o \in Orders, SweepRead(o) PROVE RowsTyped'
  <2>1. PICK on \in Orders \cup {None}, keys \in SUBSET Keys :
          sweep' = [sweep EXCEPT !.todo = @ \ {o}, !.on = on, !.keys = keys]
    <3>1. Heavy(o) \subseteq Keys
      BY HeavyKeys DEF Typed
    <3> QED BY <1>3, <3>1 DEF SweepRead
  <2>2. sweep' \in [todo : SUBSET Orders, on : Orders \cup {None}, keys : SUBSET Keys]
    BY <2>1 DEF Typed, SweepOK
  <2> QED BY <1>3, <2>2 DEF SweepRead, rows, bucketVars, Typed, RowsTyped, TypeOK, SweepOK, CleanupOK, Blank
<1>4. CASE SweepUnlink
  <2>1. PICK o : /\ o \in Orders /\ Unlinked(o) /\ HandOver(Sweeper, sweep.keys, Heavy(o))
                 /\ sweep' \in [todo : SUBSET Orders, on : {None}, keys : {{}}]
    BY <1>4, UnlinkRows
  <2>2. SweepOK'
    BY <2>1 DEF SweepOK
  <2>3. Sweeper \in Workers /\ Heavy(o) \subseteq Keys /\ sweep.keys \subseteq Keys
    BY OrderDeskAssumption, HeavyKeys DEF Typed, SweepOK
  <2>4. CleanupOK' /\ bucket' = bucket /\ minted' = minted /\ armed' = armed
    BY <2>1, <2>3 DEF HandOver, Typed, CleanupOK
  <2>5. NoAttachment.key = None
    BY DEF NoAttachment
  <2>6. Blank'
    BY <2>1, <2>5 DEF Unlinked, Unattached, Typed, Blank
  <2> QED BY <2>1, <2>2, <2>4, <2>6 DEF Unlinked, Typed, RowsTyped, TypeOK
<1>5. ASSUME NEW o \in Orders, Age(o) PROVE RowsTyped'
  <2>1. SameOrders(order')
    BY <1>5, AgeRows DEF Typed
  <2> QED BY <1>5, <2>1, RowsOnlyTyped DEF Age, SameOrders, Typed, TypeOK, Blank
<1>6. CASE Crash
  <2>1. Clean \in [at : {"none", "check", "remove"}, keys : SUBSET Keys]
    BY DEF Clean
  <2>2. CleanupOK' /\ bucket' = bucket /\ minted' = minted /\ armed' = armed
    BY <1>6, <2>1 DEF Crash, BucketCrash, Typed, CleanupOK
  <2>3. SweepOK'
    BY <1>6 DEF Crash, Asleep, SweepOK
  <2> QED BY <1>6, <2>2, <2>3 DEF Crash, Typed, RowsTyped, TypeOK, Blank
<1> QED BY <1>1, <1>2, <1>3, <1>4, <1>5, <1>6 DEF Background, SweepNext

LEMMA TypedStep ==
  ASSUME Typed, [DeskNext]_deskVars
  PROVE  Typed'
<1>1. CASE DeskNext
  <2>1. RequestsOK'
    BY <1>1, RequestsMove, RequestsStayTyped
  <2>2. ASSUME NEW r \in Requests, Resolve(r) PROVE RowsTyped'
    BY <2>2, ResolveRows, RowsOnlyTyped DEF Typed, TypeOK, Blank
  <2>3. RowsTyped'
    BY <1>1, <2>2, StepCases, AskTyped, NumberedTyped, DeletesTyped, EditsTyped, AtOnceTyped, BackgroundTyped DEF Ends
  <2> QED BY <2>1, <2>3 DEF RowsTyped, Typed
<1>2. CASE UNCHANGED deskVars
  BY <1>2 DEF deskVars, bucketVars, rows, Typed, TypeOK, RequestsOK, SweepOK, CleanupOK, Blank
<1> QED BY <1>1, <1>2

LEMMA TypedInit == DeskInit /\ Stocked => Typed
<1> SUFFICES ASSUME DeskInit, Stocked PROVE Typed
  OBVIOUS
<1>1. RequestsOK
  BY DEF DeskInit, RequestsOK, Carries, AtRest
<1>2. SweepOK
  BY DEF DeskInit, SweepOK, Asleep
<1>3. CleanupOK
  BY DEF DeskInit, BucketInit, CleanupOK, Clean
<1>4. Blank
  <2>1. NoPiece.key = None /\ NoAttachment.key = None /\ NoPlate.key = None
    BY DEF NoPiece, NoAttachment, NoPlate
  <2> QED BY <2>1, TypedRows DEF Stocked, Blank, Absent, There
<1> QED BY <1>1, <1>2, <1>3, <1>4 DEF Typed, Stocked

\* Rows, and what requests carry, are typed with every desk staffed.
THEOREM DeskIsTyped == DeskSpec => []Typed
<1>1. DeskInit /\ Stocked => Typed
  BY TypedInit
<1>2. Typed /\ [DeskNext]_deskVars => Typed'
  BY TypedStep
<1> QED BY <1>1, <1>2, PTL DEF DeskSpec

----------------------------------------------------------------------------
(* Requests that must be alone are.                                         *)

\* Nothing runs beside a request that must be alone.
Serial ==
  \A r \in Requests : req[r].op \in Alone \ {"none"} =>
    /\ sweep = Asleep /\ \A w \in Workers : cleanup[w] = Clean
    /\ \A s \in Requests : s # r => req[s] = AtRest

\* A customer is only made up for an order in a request that is as alone as the rest of it.
ResolvesAlone == "update" \in Alone => "resolve" \in Alone

\* What moves while a request that must be alone is under way: ages at most.
LEMMA Undisturbed ==
  ASSUME Typed, Serial, DeskNext, NEW r \in Requests, req[r].op \in Alone \ {"none"}, req'[r] = req[r]
  PROVE  UNCHANGED <<bucketVars, customer, piece, attachment, plate, counter, lock, raced, req, sweep>>
<1>1. ASSUME NEW s \in Requests, Asks(s) \/ Creates(s) PROVE FALSE
  BY <1>1, CreatesAsks DEF Asks, Take, Free
<1>2. ASSUME NEW s \in Requests, Ends(s) PROVE FALSE
  <2>1. Rests(s)
    BY <1>2, EndsRests
  <2>2. s = r
    BY <2>1 DEF Rests, Serial, AtRest
  <2> QED BY <2>1, <2>2 DEF Rests, Done, AtRest, Typed, RequestsOK
<1>3. ASSUME NEW s \in Requests, Resolve(s) PROVE FALSE
  <2>1. req[s].op = "resolve" /\ req'[s].op = "update"
    BY <1>3, ResolvedIsUpdate
  <2>2. s = r
    BY <2>1 DEF Serial, AtRest
  <2> QED BY <2>1, <2>2
<1>4. ASSUME AtOnce PROVE FALSE
  <2>1. \E op : Free(op)
    BY <1>4 DEF AtOnce, CreateWithNumber, CreateCustomer, RestoreCustomer, Uploads, CreatePieces, Attach, Detach, Shop
  <2> QED BY <2>1 DEF Free
<1>5. CASE Background
  <2>1. ASSUME NEW w \in Workers, Cleaning(w) PROVE FALSE
    <3>1. cleanup[w].at = "none"
      BY DEF Serial, Clean
    <3> QED BY <2>1, <3>1 DEF Cleaning, BucketStep, CheckReferences, CheckFails, RemoveObjects, RemoveFails
  <2>2. sweep.on = None /\ sweep.todo = {} /\ ~SweepFind
    BY DEF Serial, Asleep, SweepFind, Free
  <2>3. ~Crash
    BY DEF Crash, AtRest
  <2>4. \E o \in Orders : Age(o)
    BY <1>5, <2>1, <2>2, <2>3 DEF Background, SweepNext, SweepUnlink, SweepRead
  <2> QED BY <2>4 DEF Age
<1> QED BY <1>1, <1>2, <1>3, <1>4, <1>5, StepCases

LEMMA SerialStep ==
  ASSUME Typed, Serial, DeskNext, ResolvesAlone
  PROVE  Serial'
<1> SUFFICES ASSUME NEW r \in Requests, req'[r].op \in Alone \ {"none"}
             PROVE  /\ sweep' = Asleep /\ \A w \in Workers : cleanup'[w] = Clean
                    /\ \A s \in Requests : s # r => req'[s] = AtRest
  BY DEF Serial
<1>1. CASE req'[r] = req[r]
  BY <1>1, Undisturbed DEF Serial, bucketVars
<1>2. ASSUME NEW s \in Requests, Asks(s) \/ Creates(s), req'[r] # req[r]
      PROVE  /\ sweep' = Asleep /\ \A w \in Workers : cleanup'[w] = Clean
             /\ \A t \in Requests : t # r => req'[t] = AtRest
  <2>1. PICK q : Take(s, q)
    BY <1>2, CreatesAsks DEF Asks
  <2>2. sweep' = sweep /\ cleanup' = cleanup
    BY <1>2 DEF Asks, Creates, CreatePiece, bucketVars
  <2>3. r = s /\ req' = [req EXCEPT ![s] = q] /\ q = req'[r]
    BY <1>2, <2>1 DEF Take, Typed, RequestsOK
  <2>4. Idle /\ \A w \in Workers : cleanup[w] = Clean
    BY <2>1, <2>3 DEF Take, Free
  <2> QED BY <2>2, <2>3, <2>4 DEF Idle, Typed, RequestsOK
<1>3. ASSUME NEW s \in Requests, Resolve(s), req'[r] # req[r]
      PROVE  /\ sweep' = Asleep /\ \A w \in Workers : cleanup'[w] = Clean
             /\ \A t \in Requests : t # r => req'[t] = AtRest
  <2>1. PICK c : req' = [req EXCEPT ![s].op = "update", ![s].to.customer = c]
    BY <1>3, ResolveRows
  <2>2. req[s].op = "resolve" /\ UNCHANGED <<bucketVars, sweep>>
    BY <1>3 DEF Resolve
  <2>3. r = s
    BY <1>3, <2>1 DEF Typed, RequestsOK
  <2>4. PICK q \in UpdateRequest : q = req[s]
    BY <2>2 DEF Typed, RequestsOK, Carries
  <2>5. PICK u : u = [q EXCEPT !.op = "update", !.to.customer = c]
    OBVIOUS
  <2>6. u.op = "update" /\ req' = [req EXCEPT ![s] = u]
    BY <2>1, <2>4, <2>5 DEF Typed, RequestsOK, UpdateRequest
  <2>7. req[r].op \in Alone \ {"none"}
    BY <2>2, <2>3, <2>6 DEF ResolvesAlone, Typed, RequestsOK
  <2> QED BY <2>2, <2>3, <2>6, <2>7 DEF Serial, bucketVars, Typed, RequestsOK
<1>4. ASSUME NEW s \in Requests, Ends(s), req'[r] # req[r] PROVE FALSE
  <2>1. Rests(s)
    BY <1>4, EndsRests
  <2> QED BY <1>4, <2>1 DEF Rests, Done, AtRest, Typed, RequestsOK
<1>5. ASSUME AtOnce \/ Background, req'[r] # req[r] PROVE FALSE
  <2>1. Crash
    BY <1>5, AtOnceKeeps DEF Background, Cleaning, SweepNext, SweepFind, SweepUnlink, SweepRead, Age
  <2> QED BY <2>1 DEF Crash, AtRest
<1> QED BY <1>1, <1>2, <1>3, <1>4, <1>5, StepCases

LEMMA SerialInit == DeskInit => Serial
BY DEF DeskInit, Serial, AtRest

\* A request that is not what it was has just begun, ended, or found its customer.
LEMMA Moved ==
  ASSUME Typed, DeskNext, NEW r \in Requests, req'[r] # req[r]
  PROVE  \/ req'[r] = AtRest
         \/ req[r].op = "resolve" /\ Resolve(r)
         \/ /\ Take(r, req'[r]) /\ Asked(r, req'[r])
            /\ Asks(r) \/ req'[r].op = "sync"
<1>1. ASSUME NEW s \in Requests, Asks(s) PROVE s = r /\ Take(r, req'[r]) /\ Asked(r, req'[r]) /\ Asks(r)
  <2>1. PICK q : Take(s, q) /\ Asked(s, q)
    BY <1>1 DEF Asks
  <2>2. s = r /\ q = req'[r]
    BY <2>1 DEF Take, Typed, RequestsOK
  <2> QED BY <1>1, <2>1, <2>2
<1>2. ASSUME NEW s \in Requests, Creates(s) PROVE s = r /\ Take(r, req'[r]) /\ Asked(r, req'[r]) /\ req'[r].op = "sync"
  <2>1. PICK q : Take(s, q) /\ Asked(s, q) /\ q.op = "sync"
    BY <1>2, CreatesAsks
  <2>2. s = r /\ q = req'[r]
    BY <2>1 DEF Take, Typed, RequestsOK
  <2> QED BY <2>1, <2>2
<1>3. ASSUME NEW s \in Requests, Resolve(s) PROVE s = r /\ req[r].op = "resolve" /\ Resolve(r)
  <2>1. PICK c : req' = [req EXCEPT ![s].op = "update", ![s].to.customer = c]
    BY <1>3, ResolveRows
  <2>2. s = r
    BY <2>1 DEF Typed, RequestsOK
  <2> QED BY <1>3, <2>2 DEF Resolve
<1>4. ASSUME NEW s \in Requests, Ends(s) PROVE req'[r] = AtRest
  BY <1>4, EndsRests DEF Rests, Done, Typed, RequestsOK
<1>5. CASE AtOnce \/ Background
  <2>1. Crash
    BY <1>5, AtOnceKeeps DEF Background, Cleaning, SweepNext, SweepFind, SweepUnlink, SweepRead, Age
  <2> QED BY <2>1 DEF Crash
<1> QED BY <1>1, <1>2, <1>3, <1>4, <1>5, StepCases

----------------------------------------------------------------------------
(* Colours.                                                                *)

Matches(p) == p.there /\ p.spool # None /\ p.colour # None => p.spool = p.colour

\* What is reserved fits, and nobody edits a piece behind the back of a request
\* that is about to.
ColourOK ==
  /\ \A x \in Pieces : Matches(piece[x])
  /\ \A r \in Requests : req[r].op \in {"patch", "replace"} => piece[req[r].on] = req[r].old

LEMMA EditedAlone ==
  ASSUME Typed, Serial, ColourOK, DeskNext, {"patch", "replace"} \subseteq Alone,
         NEW r \in Requests, req'[r].op \in {"patch", "replace"}
  PROVE  piece'[req'[r].on] = req'[r].old
<1>1. CASE req'[r] = req[r]
  <2>1. piece' = piece
    BY <1>1, Undisturbed
  <2> QED BY <1>1, <2>1 DEF ColourOK
<1>2. CASE req'[r] # req[r]
  <2>1. req'[r] # AtRest
    BY DEF AtRest
  <2>2. ~Resolve(r)
    BY ResolvedIsUpdate
  <2>3. Asked(r, req'[r]) /\ Asks(r)
    BY <1>2, <2>1, <2>2, Moved
  <2>4. piece' = piece
    BY <2>3 DEF Asks
  <2> QED BY <2>3, <2>4 DEF Asked
<1> QED BY <1>1, <1>2

LEMMA TrimmedMatches ==
  ASSUME Typed, ColourOK, NEW X, Trimmed(X)
  PROVE  \A x \in Pieces : Matches(piece'[x])
BY DEF ColourOK, Matches, Trimmed

LEMMA GrownMatches ==
  ASSUME Typed, ColourOK, NEW X \in SUBSET Pieces, NEW o, NEW k, NEW c, Grown(X, o, k, c)
  PROVE  \A x \in Pieces : Matches(piece'[x])
<1>1. \A x \in Pieces : piece'[x] = piece[x] \/ piece'[x].spool = None
  BY GrownRows DEF Typed
<1> QED BY <1>1 DEF ColourOK, Matches

LEMMA WrittenMatches ==
  ASSUME Typed, ColourOK, NEW x \in Pieces, NEW p, Written(x, p), Matches(p)
  PROVE  \A y \in Pieces : Matches(piece'[y])
BY DEF ColourOK, Written, Typed, TypeOK

LEMMA EditsMatch ==
  ASSUME Typed, ColourOK, NEW r \in Requests, Edits(r)
  PROVE  \A x \in Pieces : Matches(piece'[x])
<1>1. CASE CreatePieceSync(r)
  BY <1>1 DEF CreatePieceSync, ColourOK
<1>2. CASE PatchTx(r)
  <2>1. PICK x \in Pieces : x = req[r].on /\ piece[x] \in PieceRow /\ Patch(req[r].to) /\ req[r].old \in PieceRow
    BY <1>2, TypedRows DEF PatchTx, Typed, RequestsOK, Carries
  <2>2. PICK p : p = IF piece[x].there THEN Patched(piece[x], req[r]) ELSE piece[x]
    OBVIOUS
  <2>3. Written(x, p)
    BY <1>2, <2>1, <2>2, PatchRows
  <2>4. piece[x] = req[r].old
    BY <1>2, <2>1 DEF ColourOK, PatchTx
  <2>5. Matches(piece[x])
    BY DEF ColourOK
  <2>6. CASE piece[x].there
    <3>1. /\ p.there = piece[x].there
          /\ p.colour = IF "colour" \in DOMAIN req[r].to THEN req[r].to.colour ELSE piece[x].colour
          /\ p.spool = IF "colour" \in DOMAIN req[r].to /\ req[r].to.colour # req[r].old.colour THEN None ELSE piece[x].spool
      BY <2>1, <2>2, <2>6, PatchedRow
    <3>2. Matches(p)
      BY <2>4, <2>5, <3>1 DEF Matches
    <3> QED BY <2>3, <3>2, WrittenMatches
  <2>7. CASE ~piece[x].there
    BY <2>2, <2>3, <2>5, <2>7, WrittenMatches
  <2> QED BY <2>6, <2>7
<1>3. CASE ReplaceTx(r)
  <2>1. PICK x \in Pieces, c \in Colours \cup {None} : x = req[r].on /\ c = req[r].to
    BY <1>3 DEF ReplaceTx, Typed, RequestsOK, Carries
  <2>2. PICK p : /\ Written(x, p)
                 /\ \/ p = piece[x]
                    \/ (c = None \/ req[r].old.colour \in {None, c}) /\ p = Reserved(piece[x], c)
    BY <1>3, <2>1, ReplaceRows
  <2>3. piece[x] = req[r].old
    BY <1>3, <2>1 DEF ColourOK, ReplaceTx
  <2>4. Matches(p)
    BY <2>1, <2>2, <2>3, ReservedRow, TypedRows DEF Matches, ColourOK, Typed
  <2> QED BY <2>2, <2>4, WrittenMatches
<1>4. ASSUME NEW X \in SUBSET Pieces, DuplicateTx(r, X) PROVE \A x \in Pieces : Matches(piece'[x])
  BY <1>4, DuplicateRows, GrownMatches
<1> QED BY <1>1, <1>2, <1>3, <1>4 DEF Edits

LEMMA ColourStep ==
  ASSUME Typed, Serial, ColourOK, DeskNext, {"patch", "replace"} \subseteq Alone
  PROVE  ColourOK'
<1> DEFINE Goal == \A x \in Pieces : Matches(piece'[x])
<1>1. piece' = piece => Goal
  BY DEF ColourOK
<1> SUFFICES Goal
  BY EditedAlone DEF ColourOK
<1> HIDE DEF Goal
<1>2. ASSUME NEW r \in Requests, Asks(r) \/ Resolve(r) \/ Numbered(r) PROVE Goal
  <2>1. piece' = piece
    BY <1>2, UpdateRows DEF Asks, Resolve, Numbered, CreateCommit, RestartCommit
  <2> QED BY <1>1, <2>1
<1>3. ASSUME NEW r \in Requests, Creates(r) PROVE Goal
  <2>1. PICK x \in Pieces, o \in Orders, k \in bucket \cup {None}, c \in Colours \cup {None} : Grown({x}, o, k, c)
    BY <1>3, CreatesRows
  <2> QED BY <2>1, GrownMatches DEF Goal
<1>4. ASSUME NEW r \in Requests, Deletes(r) \/ DeleteCustomerTx(r) PROVE Goal
  <2>1. \E X : Trimmed(X)
    BY <1>4, EraseRows, DeletePiecesRows, DeleteBedRows, DisassembleRows, DeleteCustomerRows DEF Deletes, Erased, Tidied
  <2> QED BY <2>1, TrimmedMatches DEF Goal
<1>5. ASSUME NEW r \in Requests, Edits(r) PROVE Goal
  BY <1>5, EditsMatch DEF Goal
<1>6. CASE AtOnce
  <2>1. ASSUME NEW X \in SUBSET Pieces, NEW o \in Orders, NEW k \in Keys \cup {None}, CreatePieces(X, o, k) PROVE Goal
    BY <2>1, CreatePiecesRows, GrownMatches DEF Goal
  <2>2. ASSUME NEW x \in Pieces, Shop(x) PROVE Goal
    <3>1. PICK p \in PieceRow :
             /\ Written(x, p) /\ p.there = piece[x].there /\ p.colour = piece[x].colour
             /\ p.spool # piece[x].spool => p.spool = None \/ p.colour \in {None, p.spool}
      BY <2>2, ShopRows
    <3>2. Matches(p)
      BY <3>1 DEF Matches, ColourOK
    <3> QED BY <3>1, <3>2, WrittenMatches DEF Goal
  <2>3. \/ piece' = piece
        \/ \E X \in SUBSET Pieces, o \in Orders, k \in Keys \cup {None} : CreatePieces(X, o, k)
        \/ \E x \in Pieces : Shop(x)
    BY <1>6 DEF AtOnce, CreateWithNumber, CreateCustomer, RestoreCustomer, Uploads, rows, Attach, Detach
  <2> QED BY <1>1, <2>1, <2>2, <2>3
<1>7. CASE Background
  <2>1. CASE SweepUnlink
    <3>1. \A x \in Pieces : /\ piece'[x].there = piece[x].there
                             /\ piece'[x].colour = piece[x].colour /\ piece'[x].spool = piece[x].spool
      BY <2>1, UnlinkRows DEF Unlinked
    <3> QED BY <3>1 DEF ColourOK, Matches, Goal
  <2>2. CASE piece' = piece
    BY <1>1, <2>2
  <2> QED BY <1>7, <2>1, <2>2 DEF Background, Cleaning, rows, SweepNext, SweepFind, SweepRead, Age, Crash
<1> QED
  BY <1>2, <1>3, <1>4, <1>5, <1>6, <1>7, StepCases DEF Ends

\* The requests that edit a piece, or create rows that point at a file, are alone
\* with what they read.
EditsAlone == {"patch", "replace", "sync", "createPieces", "duplicate", "attach"} \subseteq Alone /\ ResolvesAlone

\* What is reserved for a piece is of the piece's colour, if pieces are edited one
\* request at a time.
THEOREM ReservationsFit ==
  ASSUME EditsAlone
  PROVE  DeskSpec => []ReservationsMatchTheColour
<1>1. DeskInit /\ Stocked => Typed /\ Serial /\ ColourOK
  <2>1. DeskInit /\ Stocked => ColourOK
    BY DEF DeskInit, Stocked, ColourOK, Matches, AtRest
  <2> QED BY <2>1, TypedInit, SerialInit
<1>2. Typed /\ Serial /\ ColourOK /\ [DeskNext]_deskVars => (Typed /\ Serial /\ ColourOK)'
  <2>1. Typed /\ Serial /\ ColourOK /\ UNCHANGED deskVars => Serial' /\ ColourOK'
    BY DEF deskVars, bucketVars, rows, Serial, ColourOK
  <2> QED BY <2>1, TypedStep, SerialStep, ColourStep DEF EditsAlone
<1>3. Typed /\ ColourOK => ReservationsMatchTheColour
  BY TypedRows DEF Typed, ColourOK, Matches, ReservationsMatchTheColour, There
<1> QED BY <1>1, <1>2, <1>3, PTL DEF DeskSpec

----------------------------------------------------------------------------
(* The counter.                                                            *)

Under(n, o) == o.there /\ o.minted => o.number <= n

\* The counter is ahead; whoever is about to move it holds its lock, and knows
\* where it stands or what is in use.
CounterOK ==
  /\ \A o \in Orders : Under(counter, order[o])
  /\ \A r \in Requests :
       /\ req[r].op = "create" => lock = r /\ req[r].n = counter + 1
       /\ req[r].op = "restart" => lock = r /\ \A o \in Orders : Under(req[r].to, order[o])

\* No order is given a number by the counter.
NoneMinted == \A o \in Orders : \A n \in Nat : Under(n, order[o]) => Under(n, order'[o])

LEMMA SameOrdersMintNone ==
  ASSUME SameOrders(order')
  PROVE  NoneMinted
BY DEF SameOrders, NoneMinted, Under

LEMMA UpdateMintsNone ==
  ASSUME Typed, NEW r \in Requests, UpdateTx(r)
  PROVE  NoneMinted
<1>1. PICK q \in UpdateRequest : q = req[r]
  BY UpdateRows
<1>2. PICK o \in Orders : o = q.on
  BY DEF UpdateRequest
<1>3. order[o] \in OrderRow /\ order \in [Orders -> OrderRow]
  BY DEF Typed, TypeOK
<1>4. order' \in {order, [order EXCEPT ![o] = Changed(order[o], q)]}
  BY <1>1, <1>2, UpdateRows
<1>5. \A n \in Nat : Under(n, order[o]) => Under(n, Changed(order[o], q))
  BY <1>3, ChangedRow DEF Under
<1> QED BY <1>3, <1>4, <1>5 DEF NoneMinted

LEMMA NoneMintedElsewhere ==
  ASSUME Typed, DeskNext, \A r \in Requests : ~CreateCommit(r)
  PROVE  NoneMinted
<1>1. TypeOK /\ order \in [Orders -> OrderRow]
  BY DEF Typed, TypeOK
<1>2. order' = order => SameOrders(order')
  BY <1>1 DEF SameOrders
<1>3. ASSUME NEW r \in Requests, Asks(r) \/ Creates(r) \/ Resolve(r) PROVE NoneMinted
  BY <1>2, <1>3, CreatesRows, SameOrdersMintNone DEF Asks, Resolve
<1>4. ASSUME NEW r \in Requests, Numbered(r) PROVE NoneMinted
  BY <1>2, <1>4, UpdateMintsNone, SameOrdersMintNone DEF Numbered, RestartCommit
<1>5. ASSUME NEW r \in Requests, Deletes(r) PROVE NoneMinted
  <2>1. CASE DeleteOrderTx(r) \/ PurgeOrderTx(r)
    <3>1. PICK o \in Orders : order' = [order EXCEPT ![o] = NoOrder]
      BY <2>1, EraseRows DEF Erased
    <3>2. ~NoOrder.there
      BY DEF NoOrder
    <3> QED BY <1>1, <3>1, <3>2 DEF NoneMinted, Under
  <2>2. CASE DeletePiecesTx(r) \/ DeleteBedTx(r) \/ DisassembleTx(r)
    <3>1. SameOrders(order')
      BY <2>2, DeletePiecesRows, DeleteBedRows, DisassembleRows DEF Tidied
    <3> QED BY <3>1, SameOrdersMintNone
  <2> QED BY <1>5, <2>1, <2>2 DEF Deletes
<1>6. ASSUME NEW r \in Requests, Edits(r) \/ DeleteCustomerTx(r) PROVE NoneMinted
  <2>1. ASSUME NEW X \in SUBSET Pieces, DuplicateTx(r, X) PROVE SameOrders(order')
    BY <2>1, DuplicateRows
  <2>2. CASE CreatePieceSync(r)
    BY <1>1, <2>2, SyncedKeeps, SameOrdersMintNone DEF CreatePieceSync
  <2>3. CASE PatchTx(r)
    BY <2>3, PatchRows, SameOrdersMintNone
  <2>4. CASE ReplaceTx(r)
    BY <1>2, <2>4, SameOrdersMintNone DEF ReplaceTx
  <2>5. CASE DeleteCustomerTx(r)
    BY <2>5, DeleteCustomerRows, SameOrdersMintNone
  <2> QED BY <1>6, <2>1, <2>2, <2>3, <2>4, <2>5, SameOrdersMintNone DEF Edits
<1>7. CASE AtOnce
  <2>1. ASSUME NEW o \in Orders, NEW c \in Customers \cup {None}, NEW guest \in BOOLEAN, NEW n \in 0..MaxSerial,
               CreateWithNumber(o, c, guest, n)
        PROVE  NoneMinted
    <3>1. PICK q : OpenedByHand(o, c, q)
      BY <2>1, CreateWithNumberRows
    <3>2. order' = [order EXCEPT ![o] = Opened(q)] /\ Opened(q).minted = FALSE
      BY <3>1 DEF OpenedByHand
    <3> QED BY <1>1, <3>1, <3>2 DEF NoneMinted, Under
  <2>2. ASSUME NEW X \in SUBSET Pieces, NEW o \in Orders, NEW k \in Keys \cup {None}, CreatePieces(X, o, k)
        PROVE  NoneMinted
    BY <2>2, CreatePiecesRows, SameOrdersMintNone
  <2>3. ASSUME NEW x \in Pieces, Shop(x) PROVE NoneMinted
    BY <2>3, ShopRows, SameOrdersMintNone
  <2>4. \/ order' = order
        \/ \E o \in Orders, c \in Customers \cup {None}, guest \in BOOLEAN, n \in 0..MaxSerial : CreateWithNumber(o, c, guest, n)
        \/ \E X \in SUBSET Pieces, o \in Orders, k \in Keys \cup {None} : CreatePieces(X, o, k)
        \/ \E x \in Pieces : Shop(x)
    BY <1>7 DEF AtOnce, CreateCustomer, RestoreCustomer, Uploads, rows, Attach, Detach
  <2> QED BY <1>2, <2>1, <2>2, <2>3, <2>4, SameOrdersMintNone
<1>8. CASE Background
  <2>1. ASSUME NEW o \in Orders, Age(o) PROVE NoneMinted
    BY <1>1, <2>1, AgeRows, SameOrdersMintNone
  <2>2. order' = order \/ \E o \in Orders : Age(o)
    BY <1>8 DEF Background, Cleaning, rows, SweepNext, SweepFind, SweepRead, SweepUnlink, Crash
  <2> QED BY <1>2, <2>1, <2>2, SameOrdersMintNone
<1> QED BY <1>3, <1>4, <1>5, <1>6, <1>7, <1>8, StepCases DEF Ends

\* Only a request that moves the counter does; the lock passes through nobody's hands.
LEMMA CounterStays ==
  ASSUME Typed, DeskNext, \A r \in Requests : ~CreateCommit(r) /\ ~RestartCommit(r)
  PROVE  /\ counter' = counter
         /\ \/ lock' = lock
            \/ lock = None
            \/ \A r \in Requests : req'[r] = AtRest
<1>1. ASSUME NEW r \in Requests, Asks(r) PROVE counter' = counter /\ (lock' = lock \/ lock = None)
  BY <1>1 DEF Asks, Asked
<1>2. ASSUME NEW r \in Requests, Creates(r) \/ Resolve(r) PROVE counter' = counter /\ lock' = lock
  BY <1>2, CreatesRows DEF Resolve, Grown
<1>3. ASSUME NEW r \in Requests, Ends(r) PROVE counter' = counter /\ lock' = lock
  BY <1>3, UpdateRows, EraseRows
  DEF Ends, Numbered, UpdateTx, Deletes, Erased, DeletePiecesTx, DeleteBedTx, DisassembleTx,
      Edits, CreatePieceSync, PatchTx, ReplaceTx, DuplicateTx, DeleteCustomerTx
<1>4. CASE AtOnce
  BY <1>4, AtOnceKeeps
<1>5. CASE Background
  BY <1>5 DEF Background, Cleaning, rows, SweepNext, SweepFind, SweepRead, SweepUnlink, Age, Crash
<1> QED BY <1>1, <1>2, <1>3, <1>4, <1>5, StepCases

LEMMA CommitCounts ==
  ASSUME Typed, CounterOK, NEW r \in Requests, CreateCommit(r) \/ RestartCommit(r)
  PROVE  CounterOK'
<1>1. /\ lock = r /\ lock' = None /\ req' = [req EXCEPT ![r] = AtRest]
      /\ counter \in Nat /\ order \in [Orders -> OrderRow]
  BY OrderDeskAssumption DEF CounterOK, CreateCommit, RestartCommit, Done, Typed, TypeOK
<1>2. \A s \in Requests : req'[s].op \notin {"create", "restart"}
  BY <1>1 DEF CounterOK, AtRest, Typed, RequestsOK
<1>3. CASE CreateCommit(r)
  <2>1. PICK q : /\ q = req[r] /\ q.on \in Orders /\ q.n = counter + 1 /\ q.n \in 1..MaxSerial
                 /\ q.to \in [customer : Customers \cup {None}, guest : BOOLEAN, minted : {TRUE}]
    BY <1>3 DEF CreateCommit, CounterOK, Typed, RequestsOK, Carries
  <2>2. CASE UNCHANGED <<order, customer, counter>>
    BY <1>2, <2>2 DEF CounterOK
  <2>3. CASE Placed(q.on, q) /\ counter' = q.n
    <3>1. q.n \in 0..MaxSerial
      BY <2>1, OrderDeskAssumption
    <3>2. q.to.customer \in Customers \cup {None} /\ q.to.guest \in BOOLEAN /\ q.to.minted \in {TRUE}
      BY <2>1
    <3>3. order' = [order EXCEPT ![q.on] = Opened(q)] /\ Opened(q).number = q.n
      BY <2>1, <2>3, <3>1, <3>2, OpenedRow DEF Placed, Opened
    <3>4. Under(q.n, Opened(q))
      BY <3>1, <3>3, OrderDeskAssumption DEF Under
    <3>5. ASSUME NEW o \in Orders PROVE Under(q.n, order[o])
      <4>1. order[o].number \in Nat
        BY <1>1, OrderDeskAssumption DEF OrderRow
      <4>2. Under(counter, order[o])
        BY DEF CounterOK
      <4> QED BY <1>1, <2>1, <4>1, <4>2 DEF Under
    <3>6. \A o \in Orders : Under(counter', order'[o])
      BY <1>1, <2>1, <2>3, <3>3, <3>4, <3>5
    <3> QED BY <1>2, <3>6 DEF CounterOK
  <2> QED BY <1>3, <2>1, <2>2, <2>3 DEF CreateCommit
<1>4. CASE RestartCommit(r)
  <2>1. PICK n \in 1..MaxSerial + 1, to \in 0..MaxSerial : n = req[r].n /\ to = req[r].to
    BY <1>4 DEF RestartCommit, Typed, RequestsOK, Carries
  <2>2. order' = order /\ counter' = IF n <= to THEN counter ELSE n - 1
    BY <1>4, <2>1 DEF RestartCommit
  <2>3. n \in Int /\ to \in Int
    BY <2>1, OrderDeskAssumption
  <2>4. ASSUME NEW o \in Orders PROVE Under(counter', order[o])
    <3>1. order[o].number \in Nat
      BY <1>1, OrderDeskAssumption DEF OrderRow
    <3>2. Under(counter, order[o]) /\ Under(to, order[o])
      BY <1>4, <2>1 DEF CounterOK, RestartCommit
    <3> QED BY <2>2, <2>3, <3>1, <3>2 DEF Under
  <2> QED BY <1>2, <2>2, <2>4 DEF CounterOK
<1> QED BY <1>3, <1>4

LEMMA CounterStep ==
  ASSUME Typed, CounterOK, DeskNext
  PROVE  CounterOK'
<1>1. CASE \E r \in Requests : CreateCommit(r) \/ RestartCommit(r)
  BY <1>1, CommitCounts
<1>2. CASE \A r \in Requests : ~CreateCommit(r) /\ ~RestartCommit(r)
  <2>1. NoneMinted /\ counter' = counter /\ counter \in Nat
    BY <1>2, NoneMintedElsewhere, CounterStays, OrderDeskAssumption DEF Typed, TypeOK
  <2>2. \A o \in Orders : Under(counter', order'[o])
    BY <2>1 DEF NoneMinted, CounterOK
  <2>3. ASSUME NEW r \in Requests, req'[r].op \in {"create", "restart"}
        PROVE  /\ req'[r].op = "create" => lock' = r /\ req'[r].n = counter' + 1
               /\ req'[r].op = "restart" => lock' = r /\ \A o \in Orders : Under(req'[r].to, order'[o])
    <3>1. CASE req'[r] = req[r]
      <4>1. lock = r /\ lock # None
        BY <2>3, <3>1, OrderDeskAssumption DEF CounterOK
      <4>2. lock' = lock
        BY <1>2, <2>3, <4>1, CounterStays DEF AtRest
      <4>3. req[r].op = "restart" => req[r].to \in Nat
        <5>1. req[r].op = "restart" => req[r].to \in 0..MaxSerial
          BY DEF Typed, RequestsOK, Carries
        <5> QED BY <5>1, OrderDeskAssumption
      <4> QED BY <2>1, <2>3, <3>1, <4>1, <4>2, <4>3 DEF CounterOK, NoneMinted
    <3>2. CASE req'[r] # req[r]
      <4>1. req'[r] # AtRest
        BY <2>3 DEF AtRest
      <4>2. ~Resolve(r)
        BY <2>3, ResolvedIsUpdate
      <4>3. Asked(r, req'[r]) /\ Asks(r)
        BY <2>3, <3>2, <4>1, <4>2, Moved
      <4>4. order' = order /\ lock' = r
        BY <2>3, <4>3 DEF Asks, Asked
      <4>5. \A o \in Orders : Under(Highest, order[o])
        BY HighestBounds, TypedRows DEF Typed, Under, There
      <4> QED BY <2>1, <2>3, <4>3, <4>4, <4>5 DEF Asked
    <3> QED BY <3>1, <3>2
  <2> QED BY <2>2, <2>3 DEF CounterOK
<1> QED BY <1>1, <1>2

\* The counter is ahead of every order it numbered.
THEOREM CounterIsAhead == DeskSpec => []CounterIsAheadOfItsOrders
<1>1. DeskInit /\ Stocked => Typed /\ CounterOK
  <2>1. DeskInit /\ Stocked => CounterOK
    BY DEF DeskInit, Stocked, CounterOK, Under, AtRest
  <2> QED BY <2>1, TypedInit
<1>2. Typed /\ CounterOK /\ [DeskNext]_deskVars => (Typed /\ CounterOK)'
  <2>1. Typed /\ CounterOK /\ UNCHANGED deskVars => CounterOK'
    BY DEF deskVars, rows, CounterOK
  <2> QED BY <2>1, TypedStep, CounterStep
<1>3. Typed /\ CounterOK => CounterIsAheadOfItsOrders
  BY TypedRows DEF Typed, CounterOK, Under, CounterIsAheadOfItsOrders, There
<1> QED BY <1>1, <1>2, <1>3, PTL DEF DeskSpec

----------------------------------------------------------------------------
(* Customers' counts.                                                      *)

Has(row, c) == row.there /\ row.customer = c
OwnedBy(ord, c) == {o \in Orders : Has(ord[o], c)}
Known(c) == c # None => customer[c].there

RightlyCounted(ord, cust, excepted) ==
  \A c \in Customers \ excepted : cust[c].total = Cardinality(OwnedBy(ord, c))

\* Counts are right; orders, requests and the history know only customers there are;
\* and no order is there before its request has put it there.
OwnersOK ==
  /\ RightlyCounted(order, customer, raced)
  /\ \A o \in Orders : Known(order[o].customer) /\ (~order[o].there => order[o].customer = None)
  /\ \A c \in raced : Known(c)
  /\ \A r \in Requests :
       /\ req[r].op = "create" => ~order[req[r].on].there
       /\ req[r].op \in {"create", "resolve", "update"} => Known(req[r].to.customer)
       /\ req[r].op \in {"resolve", "update", "delete", "purge"} => Known(req[r].old.customer)

LEMMA OwnedIsFinite ==
  ASSUME NEW ord, NEW c
  PROVE  IsFiniteSet(OwnedBy(ord, c)) /\ Cardinality(OwnedBy(ord, c)) \in Nat
<1>1. OwnedBy(ord, c) \in SUBSET Orders
  BY DEF OwnedBy
<1> QED BY <1>1, OrderDeskAssumption, FS_Subset, FS_CardinalityType

\* new is ord, except for the row of o.
Differs(new, ord, o, row) == \A p \in Orders : new[p] = IF p = o THEN row ELSE ord[p]

\* How the orders of c change with one of them.
LEMMA OneOrderChanges ==
  ASSUME NEW ord, NEW new, NEW o \in Orders, NEW row, NEW c, Differs(new, ord, o, row)
  PROVE  /\ (Has(ord[o], c) <=> Has(row, c)) => OwnedBy(new, c) = OwnedBy(ord, c)
         /\ ~Has(ord[o], c) /\ Has(row, c) => Cardinality(OwnedBy(new, c)) = Cardinality(OwnedBy(ord, c)) + 1
         /\ Has(ord[o], c) /\ ~Has(row, c) => Cardinality(OwnedBy(new, c)) = Cardinality(OwnedBy(ord, c)) - 1
                                               /\ Cardinality(OwnedBy(ord, c)) > 0
<1>2. \A p \in Orders : new[p] = IF p = o THEN row ELSE ord[p]
  BY DEF Differs
<1>3. IsFiniteSet(OwnedBy(ord, c)) /\ Cardinality(OwnedBy(ord, c)) \in Nat
  BY OwnedIsFinite
<1>4. (Has(ord[o], c) <=> Has(row, c)) => OwnedBy(new, c) = OwnedBy(ord, c)
  BY <1>2 DEF OwnedBy
<1>5. ASSUME ~Has(ord[o], c), Has(row, c)
      PROVE  Cardinality(OwnedBy(new, c)) = Cardinality(OwnedBy(ord, c)) + 1
  <2>1. OwnedBy(new, c) = OwnedBy(ord, c) \cup {o} /\ o \notin OwnedBy(ord, c)
    BY <1>2, <1>5 DEF OwnedBy
  <2> QED BY <1>3, <2>1, FS_AddElement
<1>6. ASSUME Has(ord[o], c), ~Has(row, c)
      PROVE  /\ Cardinality(OwnedBy(new, c)) = Cardinality(OwnedBy(ord, c)) - 1
             /\ Cardinality(OwnedBy(ord, c)) > 0
  <2>1. OwnedBy(new, c) = OwnedBy(ord, c) \ {o} /\ o \in OwnedBy(ord, c)
    BY <1>2, <1>6 DEF OwnedBy
  <2>2. Cardinality(OwnedBy(ord, c)) # 0
    BY <1>3, <2>1, FS_EmptySet
  <2> QED BY <1>3, <2>1, <2>2, FS_RemoveElement
<1> QED BY <1>4, <1>5, <1>6

\* What is so of the rows after a step.
OwnersMove ==
  /\ RightlyCounted(order', customer', raced')
  /\ \A o \in Orders : /\ order'[o].customer # None => customer'[order'[o].customer].there
                       /\ ~order'[o].there => order'[o].customer = None
  /\ \A c \in raced' : c # None => customer'[c].there
  /\ \A c \in Customers : customer[c].there => customer'[c].there

\* Nobody's orders change hands, and new customers come without any.
OwnersKept ==
  /\ SameOrders(order') /\ raced' = raced
  /\ \A c \in Customers : \/ customer'[c].there = customer[c].there /\ customer'[c].total = customer[c].total
                          \/ ~customer[c].there /\ customer'[c].there /\ customer'[c].total = 0

LEMMA KeptMove ==
  ASSUME Typed, OwnersOK, OwnersKept
  PROVE  OwnersMove
<1>1. \A c \in Customers : customer[c].there => customer'[c].there
  BY DEF OwnersKept
<1>2. \A c : OwnedBy(order', c) = OwnedBy(order, c)
  BY DEF OwnersKept, SameOrders, OwnedBy, Has
<1>3. ASSUME NEW c \in Customers \ raced PROVE customer'[c].total = Cardinality(OwnedBy(order', c))
  <2>1. CASE customer'[c].total = customer[c].total
    BY <1>2, <2>1 DEF OwnersOK, RightlyCounted
  <2>2. CASE ~customer[c].there /\ customer'[c].total = 0
    <3>1. OwnedBy(order, c) = {}
      BY <2>2, OrderDeskAssumption DEF OwnersOK, Known, OwnedBy, Has
    <3> QED BY <1>2, <2>2, <3>1, FS_EmptySet
  <2> QED BY <2>1, <2>2 DEF OwnersKept
<1>4. \A o \in Orders : /\ order'[o].customer # None => customer'[order'[o].customer].there
                        /\ ~order'[o].there => order'[o].customer = None
  BY <1>1, TypedRows DEF OwnersKept, SameOrders, OwnersOK, Known, Typed, OrderRow
<1>5. \A c \in raced' : c # None => customer'[c].there
  BY <1>1 DEF OwnersKept, OwnersOK, Known, Typed, TypeOK
<1> QED BY <1>1, <1>3, <1>4, <1>5 DEF OwnersMove, RightlyCounted, OwnersKept

\* An order is opened, and its customer has one more.
LEMMA PlacedMoves ==
  ASSUME Typed, OwnersOK, NEW o \in Orders, NEW q, ~order[o].there, Opened(q).there,
         NEW c \in Customers \cup {None}, Opened(q).customer = c, q.to.customer = c, Known(c),
         order' = [order EXCEPT ![o] = Opened(q)], raced' = raced,
         customer' = [d \in Customers |-> IF d = q.to.customer THEN More(customer[d]) ELSE customer[d]]
  PROVE  OwnersMove
<1>1. /\ order \in [Orders -> OrderRow] /\ customer \in [Customers -> CustomerRow] /\ raced \subseteq Customers \cup {None}
  BY DEF Typed, TypeOK
<1>2. PICK row : row = Opened(q) /\ row.there /\ row.customer = c
  OBVIOUS
<1>3. \A d \in Customers : /\ customer'[d].there = customer[d].there
                           /\ customer'[d].total = IF d = c THEN customer[d].total + 1 ELSE customer[d].total
  BY <1>1, CountsMove
<1>9. Differs(order', order, o, row)
  BY <1>1, <1>2 DEF Differs
<1>4. ASSUME NEW d \in Customers \ raced PROVE customer'[d].total = Cardinality(OwnedBy(order', d))
  <2>1. customer[d].total = Cardinality(OwnedBy(order, d))
    BY DEF OwnersOK, RightlyCounted
  <2>2. ~Has(order[o], d) /\ (Has(row, d) <=> d = c)
    BY <1>2 DEF Has
  <2>3. /\ d # c => OwnedBy(order', d) = OwnedBy(order, d)
        /\ d = c => Cardinality(OwnedBy(order', d)) = Cardinality(OwnedBy(order, d)) + 1
    BY <1>9, <2>2, OneOrderChanges
  <2> QED BY <1>3, <2>1, <2>3
<1>5. \A p \in Orders : /\ order'[p].customer # None => customer'[order'[p].customer].there
                        /\ ~order'[p].there => order'[p].customer = None
  <2>1. \A p \in Orders : order[p].customer \in Customers \cup {None}
    BY <1>1 DEF OrderRow
  <2>2. \A p \in Orders : order'[p] = IF p = o THEN row ELSE order[p]
    BY <1>1, <1>2
  <2> QED BY <1>2, <1>3, <2>1, <2>2 DEF OwnersOK, Known
<1>6. \A d \in raced' : d # None => customer'[d].there
  BY <1>1, <1>3 DEF OwnersOK, Known
<1> QED BY <1>3, <1>4, <1>5, <1>6 DEF OwnersMove, RightlyCounted

LEMMA EraseMoves ==
  ASSUME Typed, OwnersOK, NEW r \in Requests, DeleteOrderTx(r) \/ PurgeOrderTx(r)
  PROVE  OwnersMove
<1>1. PICK o \in Orders : o = req[r].on /\ Erased(r, o) /\ req[r].op \in {"delete", "purge"} /\ req[r].old \in OrderRow
  BY EraseRows
<1>2. PICK h, from : h = req[r].old.customer /\ from = order[o].customer
  OBVIOUS
<1>3. /\ order \in [Orders -> OrderRow] /\ customer \in [Customers -> CustomerRow] /\ raced \subseteq Customers \cup {None}
      /\ {h, from} \subseteq Customers \cup {None}
  BY <1>1, <1>2 DEF Typed, TypeOK, OrderRow
<1>4. /\ order' = [order EXCEPT ![o] = NoOrder]
      /\ customer' = [c \in Customers |-> IF c = h /\ customer[c].total > 0 THEN Fewer(customer[c]) ELSE customer[c]]
      /\ raced' = raced \cup IF from = h THEN {} ELSE {from, h}
  BY <1>1, <1>2 DEF Erased
<1>5. \A d \in Customers : /\ customer'[d].there = customer[d].there
                           /\ customer'[d].total = IF d = h /\ customer[d].total > 0 THEN customer[d].total - 1
                                                   ELSE customer[d].total
  BY <1>3, <1>4, CountsMove
<1>6. ~NoOrder.there /\ NoOrder.customer = None
  BY DEF NoOrder
<1>10. Differs(order', order, o, NoOrder)
  BY <1>3, <1>4 DEF Differs
<1>7. ASSUME NEW d \in Customers \ raced' PROVE customer'[d].total = Cardinality(OwnedBy(order', d))
  <2>1. d \notin raced /\ customer[d].total = Cardinality(OwnedBy(order, d))
    BY <1>4 DEF OwnersOK, RightlyCounted
  <2>2. d # None /\ ~Has(NoOrder, d)
    BY <1>6, OrderDeskAssumption DEF Has
  <2>3. (Has(order[o], d) <=> d = from) /\ (d = h <=> d = from)
    BY <1>1, <1>2, <1>4, <2>2 DEF Has, OwnersOK
  <2>4. CASE d = h
    <3>1. /\ Cardinality(OwnedBy(order', d)) = Cardinality(OwnedBy(order, d)) - 1
          /\ Cardinality(OwnedBy(order, d)) > 0
      BY <1>10, <2>2, <2>3, <2>4, OneOrderChanges
    <3> QED BY <1>5, <2>1, <2>4, <3>1
  <2>5. CASE d # h
    <3>1. OwnedBy(order', d) = OwnedBy(order, d)
      BY <1>10, <2>2, <2>3, <2>5, OneOrderChanges
    <3> QED BY <1>5, <2>1, <2>5, <3>1
  <2> QED BY <2>4, <2>5
<1>8. \A p \in Orders : /\ order'[p].customer # None => customer'[order'[p].customer].there
                        /\ ~order'[p].there => order'[p].customer = None
  <2>1. \A p \in Orders : order[p].customer \in Customers \cup {None}
    BY <1>3 DEF OrderRow
  <2>2. \A p \in Orders : order'[p] = IF p = o THEN NoOrder ELSE order[p]
    BY <1>3, <1>4
  <2> QED BY <1>5, <1>6, <2>1, <2>2 DEF OwnersOK, Known
<1>9. \A d \in raced' : d # None => customer'[d].there
  <2>1. Known(h) /\ Known(from)
    BY <1>1, <1>2 DEF OwnersOK
  <2> QED BY <1>3, <1>4, <1>5, <2>1 DEF OwnersOK, Known
<1> QED BY <1>5, <1>7, <1>8, <1>9 DEF OwnersMove, RightlyCounted

LEMMA UpdateMoves ==
  ASSUME Typed, OwnersOK, NEW r \in Requests, UpdateTx(r)
  PROVE  OwnersMove
<1>1. PICK q \in UpdateRequest : q = req[r] /\ q.op = "update"
  BY UpdateRows
<1>2. PICK o \in Orders : o = q.on
  BY <1>1 DEF UpdateRequest
<1>3. PICK to, h, from : to = q.to.customer /\ h = q.old.customer /\ from = order[o].customer
  OBVIOUS
<1>4. /\ order \in [Orders -> OrderRow] /\ customer \in [Customers -> CustomerRow] /\ raced \subseteq Customers \cup {None}
      /\ to \in Customers \cup {None} /\ h \in Customers \cup {None} /\ from \in Customers \cup {None}
  BY <1>3 DEF Typed, TypeOK, OrderRow, UpdateRequest
<1>5. Known(to) /\ Known(h) /\ Known(from)
  BY <1>1, <1>3 DEF OwnersOK
<1>6. CASE UNCHANGED <<order, customer, raced>>
  <2>1. OwnersKept
    BY <1>4, <1>6 DEF OwnersKept, SameOrders
  <2> QED BY <2>1, KeptMove
<1>7. CASE /\ order' = IF order[o].there THEN [order EXCEPT ![o] = Changed(order[o], q)] ELSE order
           /\ customer' = [c \in Customers |-> IF FirstCustomer(q) /\ c = q.to.customer
                                               THEN More(customer[c]) ELSE customer[c]]
           /\ raced' = IF ~order[o].there \/ from # q.old.customer
                            \/ (from # None /\ q.to.customer \notin {None, from})
                       THEN raced \cup {from, q.to.customer, q.old.customer} ELSE raced
  <2>1. PICK row : row = IF order[o].there THEN Changed(order[o], q) ELSE order[o]
    OBVIOUS
  <2>2. order' = [order EXCEPT ![o] = row]
    BY <1>4, <1>7, <2>1
  <2>3. /\ row.there = order[o].there
        /\ row.customer = IF order[o].there /\ to # None THEN to ELSE from
    BY <1>3, <1>4, <2>1, ChangedRow
  <2>4. \A d \in Customers : /\ customer'[d].there = customer[d].there
                             /\ customer'[d].total = IF d = to /\ to # h /\ h = None THEN customer[d].total + 1
                                                     ELSE customer[d].total
    BY <1>3, <1>4, <1>7, CountsMove, OrderDeskAssumption DEF FirstCustomer
  <2>5. raced' = IF ~order[o].there \/ from # h \/ (from # None /\ to \notin {None, from})
                 THEN raced \cup {from, to, h} ELSE raced
    BY <1>3, <1>7
  <2>9. Differs(order', order, o, row)
    BY <1>4, <2>2 DEF Differs
  <2>6. ASSUME NEW d \in Customers \ raced' PROVE customer'[d].total = Cardinality(OwnedBy(order', d))
    <3>1. d \notin raced /\ d # None /\ customer[d].total = Cardinality(OwnedBy(order, d))
      BY <2>5, OrderDeskAssumption DEF OwnersOK, RightlyCounted
    <3>2. CASE d = to /\ to # h /\ h = None
      <4>1. order[o].there /\ from = h
        BY <2>5, <3>2
      <4>2. ~Has(order[o], d) /\ Has(row, d)
        BY <1>3, <2>3, <3>1, <3>2, <4>1 DEF Has
      <4>3. Cardinality(OwnedBy(order', d)) = Cardinality(OwnedBy(order, d)) + 1
        BY <2>9, <4>2, OneOrderChanges
      <4> QED BY <2>4, <3>1, <3>2, <4>3
    <3>3. CASE ~(d = to /\ to # h /\ h = None)
      <4>1. Has(order[o], d) <=> Has(row, d)
        BY <1>3, <2>3, <2>5, <3>1, <3>3 DEF Has
      <4>2. OwnedBy(order', d) = OwnedBy(order, d)
        BY <2>9, <4>1, OneOrderChanges
      <4> QED BY <2>4, <3>1, <3>3, <4>2
    <3> QED BY <3>2, <3>3
  <2>7. \A p \in Orders : /\ order'[p].customer # None => customer'[order'[p].customer].there
                          /\ ~order'[p].there => order'[p].customer = None
    <3>1. \A p \in Orders : order[p].customer \in Customers \cup {None}
      BY <1>4 DEF OrderRow
    <3>2. \A p \in Orders : order'[p] = IF p = o THEN row ELSE order[p]
      BY <1>4, <2>2
    <3>3. (row.customer # None => customer'[row.customer].there) /\ (~row.there => row.customer = None)
      BY <1>3, <1>4, <1>5, <2>3, <2>4 DEF OwnersOK, Known
    <3> QED BY <2>4, <3>1, <3>2, <3>3 DEF OwnersOK, Known
  <2>8. \A d \in raced' : d # None => customer'[d].there
    BY <1>4, <1>5, <2>4, <2>5 DEF OwnersOK, Known
  <2> QED BY <2>4, <2>6, <2>7, <2>8 DEF OwnersMove, RightlyCounted
<1> QED BY <1>1, <1>2, <1>3, <1>6, <1>7, UpdateRows

\* An order that comes to be there is one whose request commits, or that no request had in mind.
Arrivals ==
  \A o \in Orders : order'[o].there => \/ order[o].there
                                       \/ \E r \in Requests : CreateCommit(r)
                                       \/ \A r \in Requests : req[r].on # o

LEMMA SteadyMove ==
  ASSUME Typed, OwnersOK, SameOrders(order'), raced' = raced, customer' = customer
  PROVE  OwnersMove /\ Arrivals
<1>1. OwnersKept
  BY DEF OwnersKept
<1> QED BY <1>1, KeptMove DEF SameOrders, Arrivals

LEMMA NumberedMoves ==
  ASSUME Typed, OwnersOK, NEW r \in Requests, Numbered(r)
  PROVE  OwnersMove /\ Arrivals
<1>1. TypeOK /\ order \in [Orders -> OrderRow]
  BY DEF Typed, TypeOK
<1>2. CASE CreateCommit(r)
  <2>1. PICK q : /\ q = req[r] /\ q.op = "create" /\ q.on \in Orders /\ q.n \in 1..MaxSerial
                 /\ q.to \in [customer : Customers \cup {None}, guest : BOOLEAN, minted : {TRUE}]
    BY <1>2 DEF CreateCommit, Typed, RequestsOK, Carries
  <2>2. CASE order' = order /\ customer' = customer
    <3>1. SameOrders(order') /\ raced' = raced
      BY <1>1, <1>2, <2>2 DEF SameOrders, CreateCommit
    <3> QED BY <2>2, <3>1, SteadyMove
  <2>3. CASE Placed(q.on, q)
    <3>1. q.n \in 0..MaxSerial
      BY <2>1, OrderDeskAssumption
    <3>2. q.to.customer \in Customers \cup {None} /\ q.to.guest \in BOOLEAN /\ q.to.minted \in BOOLEAN
      BY <2>1
    <3>3. PICK o \in Orders, c \in Customers \cup {None} : o = q.on /\ c = q.to.customer
      BY <2>1, <3>2
    <3>4. /\ order' = [order EXCEPT ![o] = Opened(q)]
          /\ customer' = [d \in Customers |-> IF d = q.to.customer THEN More(customer[d]) ELSE customer[d]]
      BY <1>1, <2>3, <3>1, <3>2, <3>3, PlacedIsTyped
    <3>5. Opened(q).there /\ Opened(q).customer = c
      BY <3>1, <3>2, <3>3, OpenedRow
    <3>6. ~order[o].there /\ Known(c) /\ raced' = raced
      BY <1>2, <2>1, <3>3 DEF OwnersOK, CreateCommit
    <3>7. OwnersMove
      BY <3>3, <3>4, <3>5, <3>6, PlacedMoves
    <3> QED BY <1>2, <3>7 DEF Arrivals
  <2> QED BY <1>2, <2>1, <2>2, <2>3 DEF CreateCommit
<1>3. CASE RestartCommit(r)
  <2>1. SameOrders(order') /\ raced' = raced /\ customer' = customer
    BY <1>1, <1>3 DEF SameOrders, RestartCommit
  <2> QED BY <2>1, SteadyMove
<1>4. CASE UpdateTx(r)
  <2>1. PICK q \in UpdateRequest : q = req[r]
    BY <1>4, UpdateRows
  <2>2. PICK o \in Orders : o = q.on
    BY <2>1 DEF UpdateRequest
  <2>3. order' \in {order, [order EXCEPT ![o] = Changed(order[o], q)]}
    BY <1>4, <2>1, <2>2, UpdateRows
  <2>4. Changed(order[o], q).there = order[o].there
    BY <1>1, <2>1, ChangedRow
  <2>5. Arrivals
    BY <1>1, <2>3, <2>4 DEF Arrivals
  <2> QED BY <1>4, <2>5, UpdateMoves
<1> QED BY <1>2, <1>3, <1>4 DEF Numbered

LEMMA EndsMove ==
  ASSUME Typed, OwnersOK, NEW r \in Requests, Deletes(r) \/ Edits(r) \/ DeleteCustomerTx(r)
  PROVE  OwnersMove /\ Arrivals
<1>1. TypeOK /\ order \in [Orders -> OrderRow]
  BY DEF Typed, TypeOK
<1>2. CASE DeleteOrderTx(r) \/ PurgeOrderTx(r)
  <2>1. PICK o \in Orders : order' = [order EXCEPT ![o] = NoOrder]
    BY <1>2, EraseRows DEF Erased
  <2>2. ~NoOrder.there
    BY DEF NoOrder
  <2>3. Arrivals
    BY <1>1, <2>1, <2>2 DEF Arrivals
  <2> QED BY <1>2, <2>3, EraseMoves
<1>3. CASE DeletePiecesTx(r) \/ DeleteBedTx(r) \/ DisassembleTx(r)
  <2>1. SameOrders(order') /\ raced' = raced /\ customer' = customer
    BY <1>3, DeletePiecesRows, DeleteBedRows, DisassembleRows DEF Tidied
  <2> QED BY <2>1, SteadyMove
<1>4. ASSUME NEW X \in SUBSET Pieces, DuplicateTx(r, X) PROVE OwnersMove /\ Arrivals
  BY <1>4, DuplicateRows, SteadyMove DEF Grown
<1>5. CASE CreatePieceSync(r)
  BY <1>1, <1>5, SyncedKeeps, SteadyMove DEF CreatePieceSync
<1>6. CASE PatchTx(r)
  BY <1>6, PatchRows, SteadyMove DEF Written
<1>7. CASE ReplaceTx(r)
  BY <1>1, <1>7, SteadyMove DEF ReplaceTx, SameOrders
<1>8. CASE DeleteCustomerTx(r)
  <2>1. OwnersKept
    BY <1>8, DeleteCustomerRows DEF OwnersKept
  <2> QED BY <2>1, KeptMove DEF OwnersKept, SameOrders, Arrivals
<1> QED BY <1>2, <1>3, <1>4, <1>5, <1>6, <1>7, <1>8 DEF Deletes, Edits

LEMMA OwnersMoveAlways ==
  ASSUME Typed, OwnersOK, DeskNext
  PROVE  OwnersMove /\ Arrivals
<1>1. TypeOK /\ order \in [Orders -> OrderRow]
  BY DEF Typed, TypeOK
<1>2. order' = order => SameOrders(order')
  BY <1>1 DEF SameOrders
<1>3. ASSUME NEW r \in Requests, Asks(r) \/ Creates(r) PROVE OwnersMove /\ Arrivals
  BY <1>2, <1>3, CreatesRows, SteadyMove DEF Asks, Grown
<1>4. ASSUME NEW r \in Requests, Resolve(r) PROVE OwnersMove /\ Arrivals
  <2>1. OwnersKept
    BY <1>2, <1>4, ResolveRows DEF OwnersKept
  <2> QED BY <2>1, KeptMove DEF OwnersKept, SameOrders, Arrivals
<1>5. CASE AtOnce
  <2>1. ASSUME NEW o \in Orders, NEW c \in Customers \cup {None}, NEW guest \in BOOLEAN, NEW n \in 0..MaxSerial,
               CreateWithNumber(o, c, guest, n)
        PROVE  OwnersMove /\ Arrivals
    <3>1. PICK q : OpenedByHand(o, c, q)
      BY <2>1, CreateWithNumberRows
    <3>2. /\ order' = [order EXCEPT ![o] = Opened(q)] /\ Opened(q).there /\ Opened(q).customer = c /\ q.to.customer = c
          /\ customer' = [d \in Customers |-> IF d = q.to.customer THEN More(customer[d]) ELSE customer[d]]
      BY <3>1 DEF OpenedByHand
    <3>3. /\ ~order[o].there /\ raced' = raced /\ Known(c) /\ (\A r \in Requests : req[r].on # o)
      BY <1>1, <2>1 DEF CreateWithNumber, Absent, There, LiveCustomers, Known
    <3>4. OwnersMove
      BY <3>2, <3>3, PlacedMoves
    <3> QED BY <1>1, <3>2, <3>3, <3>4 DEF Arrivals
  <2>2. ASSUME NEW c \in Customers, CreateCustomer(c) \/ RestoreCustomer(c) PROVE OwnersMove /\ Arrivals
    <3>1. order' = order /\ raced' = raced
      BY <2>2 DEF CreateCustomer, RestoreCustomer
    <3>2. OwnersKept
      BY <1>2, <2>2, <3>1, CustomerRows DEF OwnersKept
    <3> QED BY <3>2, KeptMove DEF OwnersKept, SameOrders, Arrivals
  <2>3. ASSUME NEW X \in SUBSET Pieces, NEW o \in Orders, NEW k \in Keys \cup {None}, CreatePieces(X, o, k)
        PROVE  OwnersMove /\ Arrivals
    BY <2>3, CreatePiecesRows, SteadyMove DEF Grown
  <2>4. ASSUME NEW x \in Pieces, Shop(x) PROVE OwnersMove /\ Arrivals
    BY <2>4, ShopRows, SteadyMove DEF Written
  <2>5. \/ order' = order /\ customer' = customer /\ raced' = raced
        \/ \E o \in Orders, c \in Customers \cup {None}, guest \in BOOLEAN, n \in 0..MaxSerial : CreateWithNumber(o, c, guest, n)
        \/ \E c \in Customers : CreateCustomer(c) \/ RestoreCustomer(c)
        \/ \E X \in SUBSET Pieces, o \in Orders, k \in Keys \cup {None} : CreatePieces(X, o, k)
        \/ \E x \in Pieces : Shop(x)
    BY <1>5 DEF AtOnce, Uploads, rows, Attach, Detach
  <2> QED BY <1>2, <2>1, <2>2, <2>3, <2>4, <2>5, SteadyMove
<1>6. CASE Background
  <2>1. SameOrders(order')
    BY <1>1, <1>2, <1>6, AgeRows DEF Background, Cleaning, rows, SweepNext, SweepFind, SweepRead, SweepUnlink, Crash
  <2>2. raced' = raced /\ customer' = customer
    BY <1>6 DEF Background, Cleaning, rows, SweepNext, SweepFind, SweepRead, SweepUnlink, Age, Crash
  <2> QED BY <2>1, <2>2, SteadyMove
<1> QED BY <1>3, <1>4, <1>5, <1>6, StepCases, NumberedMoves, EndsMove DEF Ends

\* Who is known after the step.
KnownThen(c) == c # None => customer'[c].there

LEMMA OwnersStep ==
  ASSUME Typed, CounterOK, OwnersOK, DeskNext
  PROVE  OwnersOK'
<1>1. OwnersMove /\ Arrivals
  BY OwnersMoveAlways
<1>2. ASSUME NEW c \in Customers \cup {None}, Known(c) PROVE KnownThen(c)
  BY <1>1, <1>2 DEF OwnersMove, Known, KnownThen
<1>3. ASSUME NEW r \in Requests
      PROVE  /\ req'[r].op = "create" => ~order'[req'[r].on].there
             /\ req'[r].op \in {"create", "resolve", "update"} => KnownThen(req'[r].to.customer)
             /\ req'[r].op \in {"resolve", "update", "delete", "purge"} => KnownThen(req'[r].old.customer)
  <2>1. CASE req'[r] = req[r]
    <3>1. /\ req[r].op = "create" => req[r].on \in Orders
          /\ req[r].op \in {"create", "resolve", "update"} => req[r].to.customer \in Customers \cup {None}
          /\ req[r].op \in {"resolve", "update", "delete", "purge"} => req[r].old.customer \in Customers \cup {None}
      BY DEF Typed, RequestsOK, Carries, UpdateRequest, OrderRow
    <3>2. ASSUME req[r].op = "create", NEW s \in Requests, CreateCommit(s) PROVE FALSE
      <4>1. s = r
        BY <3>2 DEF CreateCommit, CounterOK
      <4> QED BY <2>1, <3>2, <4>1 DEF CreateCommit, Done, AtRest, Typed, RequestsOK
    <3>3. req[r].op = "create" => ~order'[req[r].on].there
      BY <1>1, <3>1, <3>2 DEF Arrivals, OwnersOK
    <3> QED BY <1>2, <2>1, <3>1, <3>3 DEF OwnersOK
  <2>2. CASE req'[r] = AtRest
    BY <2>2 DEF AtRest
  <2>3. CASE req[r].op = "resolve" /\ Resolve(r)
    <3>1. PICK c \in There(customer') : req' = [req EXCEPT ![r].op = "update", ![r].to.customer = c]
      BY <2>3, ResolveRows
    <3>2. PICK q \in UpdateRequest : q = req[r]
      BY <2>3 DEF Typed, RequestsOK, Carries
    <3>3. PICK u : u = [q EXCEPT !.op = "update", !.to.customer = c]
      OBVIOUS
    <3>4. u.op = "update" /\ u.to.customer = c /\ u.old = q.old /\ req'[r] = u
      BY <3>1, <3>2, <3>3 DEF Typed, RequestsOK, UpdateRequest
    <3>5. KnownThen(c)
      BY DEF KnownThen, There
    <3>6. KnownThen(q.old.customer) /\ q.old.customer \in Customers \cup {None}
      <4>1. q.old.customer \in Customers \cup {None} /\ Known(q.old.customer)
        BY <2>3, <3>2 DEF OwnersOK, UpdateRequest, OrderRow
      <4> QED BY <1>2, <4>1
    <3> QED BY <3>4, <3>5, <3>6
  <2>4. CASE Asked(r, req'[r]) /\ (Asks(r) \/ req'[r].op = "sync")
    <3>1. CASE req'[r].op = "sync"
      BY <3>1
    <3>2. CASE Asks(r)
      <4>1. order' = order /\ customer' = customer /\ TypeOK
        BY <3>2 DEF Asks, Typed
      <4>2. \A c \in LiveCustomers \cup {None} : c \in Customers \cup {None} /\ Known(c)
        BY <4>1, TypedRows DEF LiveCustomers, There, Known
      <4>3. \A o \in There(order) : order[o].customer \in Customers \cup {None} /\ Known(order[o].customer)
        BY <4>1, TypedRows DEF OwnersOK, OrderRow
      <4>4. req'[r].op = "create" => ~order[req'[r].on].there
        BY <2>4, <4>1 DEF Asked, Absent, There
      <4>5. /\ req'[r].op \in {"create", "resolve", "update"} => Known(req'[r].to.customer)
            /\ req'[r].op \in {"resolve", "update", "delete", "purge"} => Known(req'[r].old.customer)
        BY <2>4, <4>2, <4>3 DEF Asked
      <4> QED BY <4>1, <4>4, <4>5 DEF Known, KnownThen
    <3> QED BY <2>4, <3>1, <3>2
  <2> QED BY <2>1, <2>2, <2>3, <2>4, Moved
<1> QED BY <1>1, <1>3 DEF OwnersMove, OwnersOK, Known, KnownThen

\* A customer's count is the number of orders they own, but for those raced over.
THEOREM CustomersAreCounted == DeskSpec => []CustomersAreCountedRight
<1>1. DeskInit /\ Stocked => Typed /\ CounterOK /\ OwnersOK
  <2>1. DeskInit /\ Stocked => CounterOK
    BY DEF DeskInit, Stocked, CounterOK, Under, AtRest
  <2>2. ASSUME DeskInit, Stocked PROVE OwnersOK
    <3>1. \A c \in Customers : c # None /\ customer[c].total = 0
      BY <2>2, OrderDeskAssumption DEF DeskInit, NoCustomer
    <3>2. \A c \in Customers : OwnedBy(order, c) = {}
      BY <2>2, <3>1 DEF Stocked, OwnedBy, Has
    <3>3. RightlyCounted(order, customer, raced)
      BY <3>1, <3>2, FS_EmptySet DEF RightlyCounted
    <3> QED BY <2>2, <3>3 DEF DeskInit, Stocked, OwnersOK, Known, AtRest
  <2> QED BY <2>1, <2>2, TypedInit
<1>2. Typed /\ CounterOK /\ OwnersOK /\ [DeskNext]_deskVars => (Typed /\ CounterOK /\ OwnersOK)'
  <2>1. Typed /\ CounterOK /\ OwnersOK /\ UNCHANGED deskVars => CounterOK' /\ OwnersOK'
    BY DEF deskVars, rows, CounterOK, OwnersOK, Known
  <2> QED BY <2>1, TypedStep, CounterStep, OwnersStep
<1>3. Typed /\ OwnersOK => CustomersAreCountedRight
  <2>1. ASSUME Typed PROVE \A c : OwnedBy(order, c) = {o \in There(order) : order[o].customer = c}
    BY <2>1, TypedRows DEF Typed, OwnedBy, Has, There
  <2> QED BY <2>1, TypedRows DEF Typed, OwnersOK, RightlyCounted, CustomersAreCountedRight
<1> QED BY <1>1, <1>2, <1>3, PTL DEF DeskSpec

----------------------------------------------------------------------------
(* Files.                                                                  *)

\* A row points at k.
Points(k) == \/ \E x \in Pieces : piece[x].key = k
             \/ \E a \in Attachments : attachment[a].key = k
             \/ \E b \in Plates : plate[b].key = k

LEMMA PointedAt == Typed => \A k : k # None => (k \in Refs <=> Points(k))
<1> SUFFICES ASSUME Typed, NEW k, k # None PROVE k \in Refs <=> Points(k)
  OBVIOUS
<1>1. There(piece) \subseteq Pieces /\ There(attachment) \subseteq Attachments /\ There(plate) \subseteq Plates
  BY TypedRows DEF Typed
<1>2. /\ \A x \in Pieces : piece[x].key = k => x \in There(piece)
      /\ \A a \in Attachments : attachment[a].key = k => a \in There(attachment)
      /\ \A b \in Plates : plate[b].key = k => b \in There(plate)
  BY TypedRows DEF Typed, Blank, There
<1>3. k \in Refs <=> \/ \E x \in There(piece) : piece[x].key = k
                     \/ \E a \in There(attachment) : attachment[a].key = k
                     \/ \E b \in There(plate) : plate[b].key = k
  BY DEF Refs, PieceKeys
<1> QED BY <1>1, <1>2, <1>3 DEF Points

LEMMA PointedAtThen == (Typed => \A k : k # None => (k \in Refs <=> Points(k)))'
BY PointedAt, PTL

\* Every file a row points at is in the bucket.
Housed ==
  /\ \A x \in Pieces : piece[x].key \in bucket \cup {None}
  /\ \A a \in Attachments : attachment[a].key \in bucket \cup {None}
  /\ \A b \in Plates : plate[b].key \in bucket \cup {None}

Pending == UNION {cleanup[w].keys : w \in Workers}

\* What is owed was uploaded once, and is pointed at, pending or given up; nothing is
\* owed where nothing is removed.
Accounted ==
  /\ owed \subseteq minted /\ (armed.delete \/ owed = {})
  /\ \A k \in owed \cap bucket : Points(k) \/ k \in spilled \cup Pending

\* What is about to be removed is pointed at by nothing.
NothingNeeded == \A w \in Workers : cleanup[w].at = "remove" => \A k \in cleanup[w].keys : ~Points(k)

\* What a request has read of files is still so, or their rows have let go of them.
PlanOK(q) ==
  /\ q.op = "duplicate" => q.old.key \in bucket \cup {None}
  /\ q.op = "patch" => ("key" \in DOMAIN q.to => q.to.key \in bucket)
  /\ q.op = "deletePieces" => \A x \in q.xs : piece[x].key \in {q.old[x].key, None}
  /\ q.op = "deleteBed" => plate[q.on].key \in {q.old.key, None}

\* Nobody who has something left to remove begins another thing.
Unburdened == \A r \in Requests : req[r].op # "none" => cleanup[r] = Clean

\* The sweep has all the heavy files of the order it is at.
SweepAims == sweep.on # None => /\ cleanup[Sweeper] = Clean /\ armed.delete
                                /\ Heavy(sweep.on) \subseteq sweep.keys

FilesOK == /\ Housed /\ Accounted /\ NothingNeeded /\ Unburdened /\ SweepAims
           /\ \A r \in Requests : PlanOK(req[r])

\* Rows let go of the files L, and come to point at none.
Loses(L) ==
  /\ \A x \in Pieces : IF piece'[x].key = None THEN piece[x].key \in L \cup {None}
                       ELSE piece'[x].key = piece[x].key /\ piece'[x].order = piece[x].order
  /\ \A a \in Attachments : IF attachment'[a].key = None THEN attachment[a].key \in L \cup {None}
                            ELSE attachment'[a] = attachment[a]
  /\ \A b \in Plates : IF plate'[b].key = None THEN plate[b].key \in L \cup {None}
                       ELSE plate'[b].key = plate[b].key

\* Rows come to point at files there are, with nothing else under way.
Gains ==
  /\ sweep = Asleep /\ (\A w \in Workers : cleanup[w] = Clean)
  /\ \A r \in Requests : req'[r].op \in {"none", "sync"}
  /\ plate' = plate
  /\ \A x \in Pieces : /\ piece'[x].key \in bucket \cup {None}
                       /\ piece'[x].key # piece[x].key => piece[x].key \in spilled' \cup {None}
  /\ \A a \in Attachments : /\ attachment'[a].key \in bucket \cup {None}
                            /\ attachment'[a].key # attachment[a].key => attachment[a].key = None
  /\ UNCHANGED <<bucket, minted, armed, cleanup, owed>> /\ spilled \subseteq spilled'

\* Worker w takes over the files that rows let go of.
TakenOver(w, keys, L) ==
  /\ Loses(L) /\ Promise(w, keys, L) /\ cleanup[w] = Clean
  /\ L \subseteq keys \cup {None} /\ L \subseteq bucket \cup {None}
  /\ w \in Requests => req'[w].op = "none"
  /\ w = Sweeper => sweep'.on = None

SameRows == piece' = piece /\ attachment' = attachment /\ plate' = plate

\* What a step does to files.
FileStep ==
  \/ Loses({}) /\ UNCHANGED bucketVars
  \/ SameRows /\ \E w \in Workers : BucketStep(w, Refs)
  \/ SameRows /\ \E k \in Keys : Upload(k)
  \/ SameRows /\ BucketCrash
  \/ \E w \in Workers : \E keys, L : TakenOver(w, keys, L)
  \/ \E L : Loses(L) /\ Forget(L)
  \/ Gains

\* What rows that let go pointed at, and what they still do.
LEMMA LosesPoints ==
  ASSUME NEW L, Loses(L), NEW k, k # None
  PROVE  /\ Points(k)' => Points(k)
         /\ Points(k) => Points(k)' \/ k \in L
<1>1. ASSUME NEW x \in Pieces
      PROVE  /\ piece'[x].key = k => piece[x].key = k
             /\ piece[x].key = k => piece'[x].key = k \/ k \in L
  BY DEF Loses
<1>2. ASSUME NEW a \in Attachments
      PROVE  /\ attachment'[a].key = k => attachment[a].key = k
             /\ attachment[a].key = k => attachment'[a].key = k \/ k \in L
  BY DEF Loses
<1>3. ASSUME NEW b \in Plates
      PROVE  /\ plate'[b].key = k => plate[b].key = k
             /\ plate[b].key = k => plate'[b].key = k \/ k \in L
  BY DEF Loses
<1> QED BY <1>1, <1>2, <1>3 DEF Points

LEMMA LosesHouse ==
  ASSUME Housed, NEW L, Loses(L), bucket' = bucket
  PROVE  Housed'
BY DEF Housed, Loses

LEMMA SameRowsPoint ==
  ASSUME SameRows
  PROVE  (\A k : Points(k)' <=> Points(k)) /\ (bucket \subseteq bucket' /\ Housed => Housed')
BY DEF SameRows, Points, Housed

LEMMA GainsPoint ==
  ASSUME Gains, NEW k, k # None, Points(k)
  PROVE  Points(k)' \/ k \in spilled'
<1>1. ASSUME NEW x \in Pieces, piece[x].key = k PROVE piece'[x].key = k \/ k \in spilled'
  BY <1>1 DEF Gains
<1>2. ASSUME NEW a \in Attachments, attachment[a].key = k PROVE attachment'[a].key = k
  BY <1>2 DEF Gains
<1>3. plate' = plate
  BY DEF Gains
<1> QED BY <1>1, <1>2, <1>3 DEF Points

LEMMA KeyIsSomething ==
  ASSUME Typed, NEW k \in minted
  PROVE  k # None
BY OrderDeskAssumption DEF Typed, TypeOK

\* What becomes of what w has to clean up.
Cleared(w) == cleanup' = [cleanup EXCEPT ![w] = Clean]
Checked(w) == /\ cleanup[w].at = "check" /\ bucket' = bucket /\ spilled' = spilled
              /\ cleanup' = [cleanup EXCEPT ![w] = [at |-> "remove", keys |-> cleanup[w].keys \ Refs]]
Removed(w) == cleanup[w].at = "remove" /\ Cleared(w) /\ spilled' = spilled
                /\ bucket' = IF armed.delete THEN bucket \ cleanup[w].keys ELSE bucket
GivenUp(w) == Cleared(w) /\ bucket' = bucket /\ spilled' = spilled \cup cleanup[w].keys

LEMMA BucketSteps ==
  ASSUME Typed, NEW w \in Workers, BucketStep(w, Refs)
  PROVE  /\ Checked(w) \/ Removed(w) \/ GivenUp(w)
         /\ cleanup[w] # Clean
         /\ UNCHANGED <<minted, armed, owed>>
<1>1. [cleanup EXCEPT ![w] = [at |-> "remove", keys |-> @.keys \ Refs]]
        = [cleanup EXCEPT ![w] = [at |-> "remove", keys |-> cleanup[w].keys \ Refs]]
  BY DEF Typed, CleanupOK
<1>2. Checked(w) \/ Removed(w) \/ GivenUp(w)
  BY <1>1 DEF BucketStep, CheckReferences, CheckFails, RemoveObjects, RemoveFails, Checked, Removed, GivenUp, Cleared
<1>3. cleanup[w].at \in {"check", "remove"} /\ UNCHANGED <<minted, armed, owed>>
  BY DEF BucketStep, CheckReferences, CheckFails, RemoveObjects, RemoveFails
<1> QED BY <1>2, <1>3 DEF Clean

\* Where k is pending, before and after w's turn.
LEMMA PendingMoves ==
  ASSUME Typed, NEW w \in Workers, NEW k, k \in Pending, NEW c, cleanup' = [cleanup EXCEPT ![w] = c]
  PROVE  k \in Pending' \/ k \in cleanup[w].keys
<1>1. PICK v \in Workers : k \in cleanup[v].keys
  BY DEF Pending
<1>2. v # w => cleanup'[v] = cleanup[v]
  BY DEF Typed, CleanupOK
<1> QED BY <1>1, <1>2 DEF Pending

LEMMA HousedStep ==
  ASSUME Typed, FilesOK, FileStep
  PROVE  Housed'
<1> USE DEF FilesOK
<1>1. ASSUME NEW L, Loses(L), bucket' = bucket PROVE Housed'
  BY <1>1, LosesHouse
<1>2. CASE Loses({}) /\ UNCHANGED bucketVars
  BY <1>1, <1>2 DEF bucketVars
<1>3. ASSUME SameRows, NEW w \in Workers, BucketStep(w, Refs) PROVE Housed'
  <2>1. CASE bucket' = bucket
    BY <1>3, <2>1, SameRowsPoint
  <2>2. CASE Removed(w)
    <3>1. ASSUME NEW k \in bucket, Points(k) PROVE k \in bucket'
      BY <2>2, <3>1 DEF Removed, NothingNeeded
    <3>2. /\ \A x \in Pieces : piece[x].key \in bucket \cup {None} /\ (piece[x].key # None => Points(piece[x].key))
          /\ \A a \in Attachments : attachment[a].key \in bucket \cup {None} /\ (attachment[a].key # None => Points(attachment[a].key))
          /\ \A b \in Plates : plate[b].key \in bucket \cup {None} /\ (plate[b].key # None => Points(plate[b].key))
      BY DEF Housed, Points
    <3> QED BY <1>3, <3>1, <3>2 DEF Housed, SameRows
  <2> QED BY <1>3, <2>1, <2>2, BucketSteps DEF Checked, GivenUp
<1>4. ASSUME SameRows, NEW k \in Keys, Upload(k) PROVE Housed'
  BY <1>4, SameRowsPoint DEF Upload
<1>5. CASE SameRows /\ BucketCrash
  BY <1>5, SameRowsPoint DEF BucketCrash
<1>6. ASSUME NEW w, NEW keys, NEW L, TakenOver(w, keys, L) PROVE Housed'
  BY <1>1, <1>6 DEF TakenOver, Promise, HandOver
<1>7. ASSUME NEW L, Loses(L), Forget(L) PROVE Housed'
  BY <1>1, <1>7 DEF Forget
<1>8. CASE Gains
  BY <1>8 DEF Gains, Housed
<1> QED BY <1>2, <1>3, <1>4, <1>5, <1>6, <1>7, <1>8 DEF FileStep

LEMMA NeededStep ==
  ASSUME Typed, FilesOK, FileStep
  PROVE  NothingNeeded'
<1> USE DEF FilesOK
<1>1. \A w \in Workers : cleanup[w].keys \subseteq Keys
  BY DEF Typed, CleanupOK
<1>2. \A k \in Keys : k # None
  BY OrderDeskAssumption
<1>3. ASSUME NEW L, Loses(L), cleanup' = cleanup PROVE NothingNeeded'
  BY <1>1, <1>2, <1>3, LosesPoints DEF NothingNeeded
<1>4. CASE Loses({}) /\ UNCHANGED bucketVars
  BY <1>3, <1>4 DEF bucketVars
<1>5. ASSUME SameRows, NEW w \in Workers, BucketStep(w, Refs) PROVE NothingNeeded'
  <2>1. ASSUME NEW v \in Workers, cleanup'[v].at = "remove", NEW k \in cleanup'[v].keys PROVE ~Points(k)
    <3>1. CASE v # w
      <4>1. cleanup'[v] = cleanup[v]
        BY <1>5, <3>1, BucketSteps DEF Checked, Removed, GivenUp, Cleared, Typed, CleanupOK
      <4> QED BY <2>1, <4>1 DEF NothingNeeded
    <3>2. CASE v = w
      <4>1. Checked(w)
        BY <1>5, <2>1, <3>2, BucketSteps DEF Removed, GivenUp, Cleared, Clean, Typed, CleanupOK
      <4>2. k \in cleanup[w].keys \ Refs
        BY <2>1, <3>2, <4>1 DEF Checked, Typed, CleanupOK
      <4> QED BY <1>1, <1>2, <1>5, <4>2, PointedAt
    <3> QED BY <3>1, <3>2
  <2> QED BY <1>5, <2>1, SameRowsPoint DEF NothingNeeded
<1>6. ASSUME SameRows, NEW k \in Keys, Upload(k) PROVE NothingNeeded'
  BY <1>6, SameRowsPoint DEF Upload, NothingNeeded
<1>7. CASE SameRows /\ BucketCrash
  BY <1>7 DEF BucketCrash, NothingNeeded, Clean
<1>8. ASSUME NEW w \in Workers, NEW keys, NEW L, TakenOver(w, keys, L) PROVE NothingNeeded'
  <2>1. PICK c : c = [at |-> "check", keys |-> keys \ {None}]
    OBVIOUS
  <2>2. c.at = "check" /\ cleanup' = [cleanup EXCEPT ![w] = c] /\ Loses(L)
    BY <1>8, <2>1 DEF TakenOver, Promise, HandOver
  <2>3. ASSUME NEW v \in Workers, cleanup'[v].at = "remove" PROVE cleanup'[v] = cleanup[v]
    BY <2>2, <2>3 DEF Typed, CleanupOK
  <2>4. ASSUME NEW v \in Workers, cleanup'[v].at = "remove", NEW k \in cleanup'[v].keys PROVE ~Points(k)'
    BY <1>1, <1>2, <2>2, <2>3, <2>4, LosesPoints DEF NothingNeeded
  <2> QED BY <2>4 DEF NothingNeeded
<1>9. ASSUME NEW L, Loses(L), Forget(L) PROVE NothingNeeded'
  BY <1>3, <1>9 DEF Forget
<1>10. CASE Gains
  BY <1>10 DEF Gains, NothingNeeded, Clean
<1> QED BY <1>4, <1>5, <1>6, <1>7, <1>8, <1>9, <1>10 DEF FileStep

LEMMA AccountedStep ==
  ASSUME Typed, FilesOK, FileStep
  PROVE  Accounted'
<1> USE DEF FilesOK
<1>1. \A k \in minted : k # None
  BY KeyIsSomething
<1>2. bucket \subseteq minted /\ owed \subseteq minted /\ (armed.delete \/ owed = {})
  BY DEF Typed, TypeOK, Accounted
<1>3. ASSUME NEW k \in owed \cap bucket PROVE Points(k) \/ k \in spilled \/ k \in Pending
  BY DEF Accounted
<1>4. CASE Loses({}) /\ UNCHANGED bucketVars
  <2>1. \A k \in owed \cap bucket : Points(k)' \/ k \in spilled \/ k \in Pending
    BY <1>1, <1>2, <1>3, <1>4, LosesPoints
  <2> QED BY <1>2, <1>4, <2>1 DEF Accounted, bucketVars, Pending
<1>5. ASSUME SameRows, NEW w \in Workers, BucketStep(w, Refs) PROVE Accounted'
  <2>1. /\ Checked(w) \/ Removed(w) \/ GivenUp(w)
        /\ UNCHANGED <<minted, armed, owed>>
        /\ \A k : Points(k)' <=> Points(k)
    BY <1>5, BucketSteps, SameRowsPoint
  <2>2. PICK c : cleanup' = [cleanup EXCEPT ![w] = c]
    BY <2>1 DEF Checked, Removed, GivenUp, Cleared
  <2>3. ASSUME NEW k \in owed \cap bucket' PROVE Points(k) \/ k \in spilled' \/ k \in Pending'
    <3>1. k \in bucket /\ spilled \subseteq spilled'
      BY <2>1, <2>3 DEF Checked, Removed, GivenUp
    <3>2. CASE k \in Pending /\ k \notin Pending'
      <4>1. k \in cleanup[w].keys
        BY <2>2, <3>2, PendingMoves
      <4>2. CASE Checked(w)
        <5>1. CASE k \in Refs
          BY <1>1, <1>2, <2>3, <5>1, PointedAt
        <5>2. CASE k \notin Refs
          <6>1. k \in cleanup'[w].keys
            BY <4>1, <4>2, <5>2 DEF Checked, Typed, CleanupOK
          <6> QED BY <3>2, <6>1 DEF Pending
        <5> QED BY <5>1, <5>2
      <4>3. CASE Removed(w)
        BY <1>2, <2>3, <4>1, <4>3 DEF Removed
      <4>4. CASE GivenUp(w)
        BY <4>1, <4>4 DEF GivenUp
      <4> QED BY <2>1, <4>2, <4>3, <4>4
    <3> QED BY <1>3, <2>3, <3>1, <3>2
  <2> QED BY <1>2, <2>1, <2>3 DEF Accounted
<1>6. ASSUME SameRows, NEW k \in Keys, Upload(k) PROVE Accounted'
  <2>1. /\ k \notin owed /\ bucket' = bucket \cup {k} /\ minted \subseteq minted'
        /\ UNCHANGED <<armed, cleanup, owed, spilled>>
    BY <1>2, <1>6 DEF Upload
  <2>2. \A l \in owed \cap bucket' : Points(l)' \/ l \in spilled \/ l \in Pending
    BY <1>3, <1>6, <2>1, SameRowsPoint
  <2> QED BY <1>2, <2>1, <2>2 DEF Accounted, Pending
<1>7. CASE SameRows /\ BucketCrash
  <2>1. spilled' = spilled \cup Pending /\ UNCHANGED <<bucket, minted, armed, owed>>
    BY <1>7 DEF BucketCrash, Pending
  <2>2. \A l \in owed \cap bucket : Points(l)' \/ l \in spilled'
    BY <1>3, <1>7, <2>1, SameRowsPoint
  <2> QED BY <1>2, <2>1, <2>2 DEF Accounted
<1>8. ASSUME NEW w \in Workers, NEW keys, NEW L, TakenOver(w, keys, L) PROVE Accounted'
  <2>1. PICK c : c = [at |-> "check", keys |-> keys \ {None}]
    OBVIOUS
  <2>2. /\ c.keys = keys \ {None} /\ cleanup' = [cleanup EXCEPT ![w] = c] /\ Loses(L)
        /\ cleanup[w].keys = {} /\ L \subseteq keys \cup {None} /\ L \subseteq bucket \cup {None}
        /\ owed' = owed \cup ((IF armed.delete THEN L ELSE {}) \ {None})
        /\ UNCHANGED <<bucket, minted, armed, spilled>>
    BY <1>8, <2>1 DEF TakenOver, Promise, HandOver, Clean
  <2>3. ASSUME NEW k \in L, k # None PROVE k \in Pending'
    <3>1. k \in cleanup'[w].keys
      BY <2>2, <2>3 DEF Typed, CleanupOK
    <3> QED BY <3>1 DEF Pending
  <2>4. ASSUME NEW k \in owed \cap bucket PROVE Points(k)' \/ k \in spilled \/ k \in Pending'
    <3>1. k # None
      BY <1>1, <1>2
    <3>2. k \in Pending => k \in Pending'
      BY <2>2, PendingMoves
    <3>3. Points(k) => Points(k)' \/ k \in L
      BY <2>2, <3>1, LosesPoints
    <3> QED BY <1>3, <2>3, <3>1, <3>2, <3>3
  <2>5. owed' \subseteq minted' /\ (armed'.delete \/ owed' = {})
    BY <1>2, <2>2
  <2>6. \A k \in owed' \cap bucket' : Points(k)' \/ k \in spilled' \/ k \in Pending'
    BY <2>2, <2>3, <2>4
  <2> QED BY <2>5, <2>6 DEF Accounted
<1>9. ASSUME NEW L, Loses(L), Forget(L) PROVE Accounted'
  <2>1. spilled' = spilled \cup (L \ {None}) /\ UNCHANGED <<bucket, minted, armed, cleanup, owed>>
    BY <1>9 DEF Forget
  <2>2. \A k \in owed \cap bucket : Points(k)' \/ k \in spilled' \/ k \in Pending
    BY <1>1, <1>2, <1>3, <1>9, <2>1, LosesPoints
  <2> QED BY <1>2, <2>1, <2>2 DEF Accounted, Pending
<1>10. CASE Gains
  <2>1. spilled \subseteq spilled' /\ UNCHANGED <<bucket, minted, armed, cleanup, owed>>
    BY <1>10 DEF Gains
  <2>2. \A k \in owed \cap bucket : Points(k)' \/ k \in spilled' \/ k \in Pending
    BY <1>1, <1>2, <1>3, <1>10, <2>1, GainsPoint
  <2> QED BY <1>2, <2>1, <2>2 DEF Accounted, Pending
<1> QED BY <1>4, <1>5, <1>6, <1>7, <1>8, <1>9, <1>10 DEF FileStep

\* The sweep moves on, or reads the next order.
LEMMA SweepMoves ==
  ASSUME Typed, DeskNext
  PROVE  \/ sweep' = sweep
         \/ sweep'.on = None
         \/ \E o \in Orders : SweepRead(o)
<1>1. ASSUME NEW r \in Requests, Asks(r) \/ Creates(r) \/ Resolve(r) PROVE sweep' = sweep
  BY <1>1, CreatesRows DEF Asks, Resolve, Grown
<1>2. ASSUME NEW r \in Requests, Ends(r) PROVE sweep' = sweep
  BY <1>2 DEF Ends, Numbered, CreateCommit, RestartCommit, UpdateTx, Deletes, DeleteOrderTx, PurgeOrderTx, Erase,
              DeletePiecesTx, DeleteBedTx, DisassembleTx, Edits, CreatePieceSync, PatchTx, ReplaceTx,
              DuplicateTx, DeleteCustomerTx
<1>3. CASE AtOnce
  BY <1>3, AtOnceKeeps
<1>4. CASE Background
  <2>1. CASE SweepFind
    BY <2>1 DEF SweepFind, Asleep
  <2>2. CASE SweepUnlink
    BY <2>2, UnlinkRows
  <2> QED BY <1>4, <2>1, <2>2 DEF Background, Cleaning, SweepNext, Age, Crash, Asleep
<1> QED BY <1>1, <1>2, <1>3, <1>4, StepCases

\* A worker with nothing to clean up has nothing to clean up after the step, unless it took over.
LEMMA CleanStays ==
  ASSUME Typed, FileStep, NEW w \in Workers, cleanup[w] = Clean, \A keys, L : ~TakenOver(w, keys, L)
  PROVE  cleanup'[w] = Clean
<1>1. ASSUME NEW v \in Workers, BucketStep(v, Refs) PROVE cleanup'[w] = Clean
  BY <1>1, BucketSteps DEF Checked, Removed, GivenUp, Cleared, Typed, CleanupOK
<1>2. ASSUME NEW v \in Workers, NEW keys, NEW L, TakenOver(v, keys, L) PROVE cleanup'[w] = Clean
  BY <1>2 DEF TakenOver, Promise, HandOver, Typed, CleanupOK
<1> QED BY <1>1, <1>2 DEF FileStep, bucketVars, Upload, BucketCrash, Forget, Gains

LEMMA UnburdenedStep ==
  ASSUME Typed, FilesOK, DeskNext, FileStep
  PROVE  Unburdened'
<1> SUFFICES ASSUME NEW r \in Requests, req'[r].op # "none" PROVE cleanup'[r] = Clean
  BY DEF Unburdened
<1>1. r \in Workers
  BY OrderDeskAssumption
<1>2. cleanup[r] = Clean
  <2>1. CASE req[r].op # "none"
    BY <2>1 DEF FilesOK, Unburdened
  <2>2. CASE req[r].op = "none"
    BY <2>2, Moved DEF AtRest, Take
  <2> QED BY <2>1, <2>2
<1>3. \A keys, L : ~TakenOver(r, keys, L)
  BY DEF TakenOver
<1> QED BY <1>1, <1>2, <1>3, CleanStays

\* An order's heavy files dwindle.
LEMMA HeavyDwindles ==
  ASSUME Typed, Blank', piece' \in [Pieces -> PieceRow], attachment' \in [Attachments -> AttachmentRow],
         NEW L, Loses(L), NEW o \in Orders
  PROVE  Heavy(o)' \subseteq Heavy(o)
<1>1. There(piece') \subseteq Pieces /\ There(attachment') \subseteq Attachments
  BY DEF There
<1>2. There(piece) = {x \in Pieces : piece[x].there} /\ There(attachment) = {a \in Attachments : attachment[a].there}
  BY TypedRows DEF Typed, There
<1>3. ASSUME NEW k \in Heavy(o)' PROVE k \in Heavy(o)
  <2>1. k # None /\ \/ \E x \in OfOrder(o, piece') : piece'[x].key = k
                    \/ \E a \in Models(o)' : attachment'[a].key = k
    BY DEF Heavy, PieceKeys
  <2>2. ASSUME NEW x \in OfOrder(o, piece'), piece'[x].key = k PROVE x \in OfOrder(o, piece) /\ piece[x].key = k
    <3>1. x \in Pieces /\ piece'[x].order = o
      BY <1>1 DEF OfOrder
    <3>2. piece[x].key = k /\ piece[x].order = o
      BY <2>1, <2>2, <3>1 DEF Loses
    <3>3. piece[x].there
      BY <2>1, <3>1, <3>2 DEF Typed, Blank
    <3> QED BY <1>2, <3>1, <3>2, <3>3 DEF OfOrder
  <2>3. ASSUME NEW a \in Models(o)', attachment'[a].key = k PROVE a \in Models(o) /\ attachment[a].key = k
    <3>1. a \in Attachments /\ attachment'[a].there /\ attachment'[a].order = o /\ attachment'[a].kind = "stl"
      BY <1>1 DEF Models, There
    <3>2. attachment[a] = attachment'[a]
      BY <2>1, <2>3, <3>1 DEF Loses
    <3> QED BY <1>2, <2>3, <3>1, <3>2 DEF Models
  <2> QED BY <2>1, <2>2, <2>3 DEF Heavy, PieceKeys
<1> QED BY <1>3

LEMMA AimsStep ==
  ASSUME Typed, Typed', FilesOK, DeskNext, FileStep
  PROVE  SweepAims'
<1> SUFFICES ASSUME sweep'.on # None
             PROVE  cleanup'[Sweeper] = Clean /\ armed'.delete /\ Heavy(sweep.on)' \subseteq sweep'.keys
  BY DEF SweepAims
<1>1. Sweeper \in Workers /\ None \notin Orders
  BY OrderDeskAssumption
<1>2. CASE sweep' = sweep
  <2>1. /\ cleanup[Sweeper] = Clean /\ armed.delete /\ Heavy(sweep.on) \subseteq sweep.keys
        /\ sweep.on \in Orders
    BY <1>2 DEF FilesOK, SweepAims, Typed, SweepOK
  <2>2. cleanup'[Sweeper] = Clean
    BY <1>1, <2>1, CleanStays DEF TakenOver
  <2>3. armed' = armed
    <3>1. ASSUME NEW w \in Workers, BucketStep(w, Refs) PROVE armed' = armed
      BY <3>1, BucketSteps
    <3> QED BY <3>1 DEF FileStep, bucketVars, Upload, BucketCrash, TakenOver, Promise, HandOver, Forget, Gains
  <2>4. \E L : Loses(L)
    <3>1. SameRows => Loses({})
      BY DEF SameRows, Loses
    <3>2. ~Gains
      BY <1>2 DEF Gains, Asleep
    <3> QED BY <3>1, <3>2 DEF FileStep, TakenOver
  <2>5. Heavy(sweep.on)' \subseteq Heavy(sweep.on)
    <3>1. PICK o \in Orders : o = sweep.on
      BY <2>1
    <3>2. Heavy(o)' \subseteq Heavy(o)
      BY <2>4, HeavyDwindles DEF Typed, TypeOK
    <3>3. Heavy(sweep.on)' = Heavy(o)'
      BY <1>2, <3>1 DEF Heavy, Models
    <3> QED BY <3>1, <3>2, <3>3
  <2> QED BY <1>2, <2>1, <2>2, <2>3, <2>5
<1>3. ASSUME NEW o \in Orders, SweepRead(o)
      PROVE  cleanup'[Sweeper] = Clean /\ armed'.delete /\ Heavy(sweep.on)' \subseteq sweep'.keys
  <2>1. PICK goes \in BOOLEAN : goes = (Heavy(o) # {} /\ armed.sweep /\ armed.delete)
    OBVIOUS
  <2>2. /\ sweep' = [sweep EXCEPT !.todo = @ \ {o}, !.on = IF goes THEN o ELSE None,
                                  !.keys = IF goes THEN Heavy(o) ELSE {}]
        /\ cleanup[Sweeper] = Clean /\ UNCHANGED <<bucketVars, rows, req>>
    BY <1>3, <2>1 DEF SweepRead
  <2>3. sweep'.on = o /\ sweep'.keys = Heavy(o) /\ armed.delete
    BY <2>1, <2>2 DEF Typed, SweepOK
  <2>4. Heavy(sweep.on)' = Heavy(o)
    BY <2>2, <2>3 DEF rows, Heavy, PieceKeys, OfOrder, Models, There
  <2> QED BY <2>2, <2>3, <2>4 DEF bucketVars
<1> QED BY <1>2, <1>3, SweepMoves

LEMMA SameLoses ==
  ASSUME SameRows
  PROVE  Loses({})
BY DEF SameRows, Loses

\* What pieces, plates and attachments that go let go of.
LEMMA TrimmedLoses ==
  ASSUME Typed, NEW X, NEW A, NEW B, NEW L, Trimmed(X), SamePlates(plate', B), attachment' = Unattached(A),
         \A x \in X : piece[x].key \in L, \A a \in A : attachment[a].key \in L, \A b \in B : plate[b].key \in L
  PROVE  Loses(L)
<1>1. NoAttachment.key = None /\ NoPlate.key = None
  BY DEF NoAttachment, NoPlate
<1>2. \A x \in Pieces : IF piece'[x].key = None THEN piece[x].key \in L \cup {None}
                        ELSE piece'[x].key = piece[x].key /\ piece'[x].order = piece[x].order
  BY DEF Trimmed
<1>3. \A a \in Attachments : IF attachment'[a].key = None THEN attachment[a].key \in L \cup {None}
                             ELSE attachment'[a] = attachment[a]
  BY <1>1 DEF Unattached
<1>4. \A b \in Plates : IF plate'[b].key = None THEN plate[b].key \in L \cup {None}
                        ELSE plate'[b].key = plate[b].key
  BY <1>1 DEF SamePlates
<1> QED BY <1>2, <1>3, <1>4 DEF Loses

LEMMA KeysAreHoused ==
  ASSUME Housed
  PROVE  /\ \A X \in SUBSET Pieces : PieceKeys(X) \subseteq bucket \cup {None}
         /\ \A B \in SUBSET Plates : PlateKeys(B) \subseteq bucket \cup {None}
         /\ \A A \in SUBSET Attachments : {attachment[a].key : a \in A} \subseteq bucket \cup {None}
BY DEF Housed, PieceKeys, PlateKeys

LEMMA AttachmentsStay ==
  ASSUME TypeOK, attachment' = attachment
  PROVE  attachment' = Unattached({})
BY DEF Unattached, TypeOK

\* The transactions that remove rows hand their files over.
LEMMA DeletesTakeOver ==
  ASSUME Typed, FilesOK, NEW r \in Requests, Deletes(r)
  PROVE  \E keys, L : TakenOver(r, keys, L)
<1>1. Rests(r) /\ r # Sweeper
  BY EndsRests, OrderDeskAssumption DEF Ends
<1>2. req'[r].op = "none" /\ cleanup[r] = Clean /\ Housed /\ PlanOK(req[r]) /\ TypeOK
  BY <1>1 DEF Rests, Done, AtRest, FilesOK, Unburdened, Typed, RequestsOK
<1>3. ASSUME NEW keys, NEW L, Loses(L), Promise(r, keys, L), L \subseteq keys \cup {None}, L \subseteq bucket \cup {None}
      PROVE  \E ks, M : TakenOver(r, ks, M)
  <2>1. TakenOver(r, keys, L)
    BY <1>1, <1>2, <1>3 DEF TakenOver
  <2> QED BY <2>1
<1>4. CASE DeleteOrderTx(r) \/ PurgeOrderTx(r)
  <2>1. PICK o \in Orders : Erased(r, o)
    BY <1>4, EraseRows
  <2>2. PICK X, A, B : X = OfOrder(o, piece) /\ A = OrderFiles(o) /\ B = GoneWith(OfOrder(o, piece), piece)
    OBVIOUS
  <2>3. X \subseteq Pieces /\ A \subseteq Attachments /\ B \subseteq Plates
    BY <1>2, <2>1, <2>2, TypedRows DEF OfOrder, OrderFiles, Erased
  <2>4. FilesOf(o) = PieceKeys(X) \cup {attachment[a].key : a \in A} \cup PlateKeys(B)
    BY <2>2 DEF FilesOf
  <2>5. FilesOf(o) \subseteq bucket \cup {None}
    BY <1>2, <2>3, <2>4, KeysAreHoused
  <2>6. /\ \A x \in X : piece[x].key \in FilesOf(o)
        /\ \A a \in A : attachment[a].key \in FilesOf(o)
        /\ \A b \in B : plate[b].key \in FilesOf(o)
    BY <2>4 DEF PieceKeys, PlateKeys
  <2>7. Trimmed(X) /\ SamePlates(plate', B) /\ attachment' = Unattached(A) /\ Promise(r, FilesOf(o), FilesOf(o))
    BY <2>1, <2>2 DEF Erased
  <2>8. Loses(FilesOf(o))
    BY <2>6, <2>7, TrimmedLoses
  <2> QED BY <1>3, <2>5, <2>7, <2>8
<1>5. CASE DeletePiecesTx(r)
  <2>1. PICK X, old, B : X = req[r].xs /\ old = req[r].old /\ B = GoneWith(X, old)
    OBVIOUS
  <2>2. /\ Tidied(X, B)
        /\ Promise(r, {old[x].key : x \in X} \cup PlateKeys(B), PieceKeys(X) \cup PlateKeys(B))
    BY <1>5, <2>1, DeletePiecesRows
  <2>3. PICK keys, L : keys = {old[x].key : x \in X} \cup PlateKeys(B) /\ L = PieceKeys(X) \cup PlateKeys(B)
    OBVIOUS
  <2>4. \A x \in X : piece[x].key \in {old[x].key, None}
    BY <1>2, <1>5, <2>1 DEF PlanOK, DeletePiecesTx
  <2>5. L \subseteq keys \cup {None}
    BY <2>3, <2>4 DEF PieceKeys
  <2>6. L \subseteq bucket \cup {None}
    BY <1>2, <2>2, <2>3, KeysAreHoused DEF Tidied
  <2>7. (\A x \in X : piece[x].key \in L) /\ (\A b \in B : plate[b].key \in L)
    BY <2>3 DEF PieceKeys, PlateKeys
  <2>8. Loses(L)
    BY <1>2, <2>2, <2>7, AttachmentsStay, TrimmedLoses DEF Tidied
  <2> QED BY <1>3, <2>2, <2>3, <2>5, <2>6, <2>8
<1>6. CASE DeleteBedTx(r)
  <2>1. PICK b, X : b = req[r].on /\ X = OnPlate(b, piece)
    OBVIOUS
  <2>2. Tidied(X, {b}) /\ Promise(r, PieceKeys(X) \cup {req[r].old.key}, PieceKeys(X) \cup {plate[b].key})
    BY <1>6, <2>1, DeleteBedRows
  <2>3. PICK keys, L : keys = PieceKeys(X) \cup {req[r].old.key} /\ L = PieceKeys(X) \cup {plate[b].key}
    OBVIOUS
  <2>4. plate[b].key \in {req[r].old.key, None}
    BY <1>2, <1>6, <2>1 DEF PlanOK, DeleteBedTx
  <2>5. L \subseteq keys \cup {None}
    BY <2>3, <2>4
  <2>6. L \subseteq bucket \cup {None}
    <3>1. plate[b].key \in bucket \cup {None} /\ PieceKeys(X) \subseteq bucket \cup {None}
      BY <1>2, <2>2, KeysAreHoused DEF Tidied, Housed
    <3> QED BY <2>3, <3>1
  <2>7. (\A x \in X : piece[x].key \in L) /\ (\A c \in {b} : plate[c].key \in L)
    BY <2>3 DEF PieceKeys
  <2>8. Loses(L)
    BY <1>2, <2>2, <2>7, AttachmentsStay, TrimmedLoses DEF Tidied
  <2> QED BY <1>3, <2>2, <2>3, <2>5, <2>6, <2>8
<1>7. CASE DisassembleTx(r)
  <2>1. PICK B : B = Scrapped({req[r].on})
    OBVIOUS
  <2>2. Tidied({}, B) /\ Promise(r, PlateKeys(B), PlateKeys(B))
    BY <1>7, <2>1, DisassembleRows
  <2>3. PlateKeys(B) \subseteq bucket \cup {None}
    BY <1>2, <2>2, KeysAreHoused DEF Tidied
  <2>4. \A b \in B : plate[b].key \in PlateKeys(B)
    BY DEF PlateKeys
  <2>5. Loses(PlateKeys(B))
    BY <1>2, <2>2, <2>4, AttachmentsStay, TrimmedLoses DEF Tidied
  <2> QED BY <1>3, <2>2, <2>3, <2>5
<1> QED BY <1>4, <1>5, <1>6, <1>7 DEF Deletes

\* New rows come when nothing is under way, with files that are there.
LEMMA GrownGains ==
  ASSUME Typed, Housed, NEW X \in SUBSET Pieces, NEW o, NEW k \in bucket \cup {None}, NEW c, Grown(X, o, k, c),
         sweep = Asleep, \A w \in Workers : cleanup[w] = Clean, \A r \in Requests : req'[r].op \in {"none", "sync"}
  PROVE  Gains
<1>1. \A x \in Pieces : \/ piece'[x] = piece[x]
                        \/ piece'[x].key = k /\ piece[x].key = None
  BY GrownRows DEF Typed, Blank
<1>2. UNCHANGED bucketVars /\ attachment' = attachment /\ plate' = plate
  BY DEF Grown
<1> QED BY <1>1, <1>2 DEF Gains, Housed, bucketVars

LEMMA EditsTouchFiles ==
  ASSUME Typed, FilesOK, Serial, EditsAlone, NEW r \in Requests, Edits(r)
  PROVE  FileStep
<1>1. Rests(r)
  BY EndsRests DEF Ends
<1>2. ASSUME req[r].op \in Alone
      PROVE  /\ sweep = Asleep /\ \A w \in Workers : cleanup[w] = Clean
             /\ \A s \in Requests : req'[s].op \in {"none", "sync"}
  BY <1>1, <1>2 DEF Serial, Rests, Done, AtRest, Typed, RequestsOK
<1>3. CASE CreatePieceSync(r)
  BY <1>3, SameLoses DEF CreatePieceSync, SameRows, FileStep
<1>4. CASE PatchTx(r)
  <2>1. PICK x \in Pieces : x = req[r].on /\ Patch(req[r].to) /\ req[r].old \in PieceRow /\ piece[x] \in PieceRow
    BY <1>4, TypedRows DEF PatchTx, Typed, RequestsOK, Carries
  <2>2. PICK p : p = IF piece[x].there THEN Patched(piece[x], req[r]) ELSE piece[x]
    OBVIOUS
  <2>3. Written(x, p) /\ Forget({piece[x].key} \ {p.key})
    BY <1>4, <2>1, <2>2, PatchRows
  <2>4. p.key \in bucket \cup {None}
    <3>1. p.key = piece[x].key \/ ("key" \in DOMAIN req[r].to /\ p.key = req[r].to.key)
      BY <2>1, <2>2, PatchedRow
    <3>2. "key" \in DOMAIN req[r].to => req[r].to.key \in bucket
      BY <1>4 DEF FilesOK, PlanOK, PatchTx
    <3> QED BY <3>1, <3>2 DEF FilesOK, Housed
  <2>5. req[r].op \in Alone
    BY <1>4 DEF PatchTx, EditsAlone
  <2>6. \A y \in Pieces : piece'[y] = IF y = x THEN p ELSE piece[y]
    BY <2>3 DEF Written, Typed, TypeOK
  <2>7. /\ attachment' = attachment /\ plate' = plate
        /\ UNCHANGED <<bucket, minted, armed, cleanup, owed>> /\ spilled \subseteq spilled'
        /\ \A y \in Pieces : /\ piece'[y].key \in bucket \cup {None}
                             /\ piece'[y].key # piece[y].key => piece[y].key \in spilled' \cup {None}
    BY <2>3, <2>4, <2>6 DEF Written, Forget, FilesOK, Housed
  <2>8. Gains
    BY <1>2, <2>5, <2>7 DEF Gains, FilesOK, Housed
  <2> QED BY <2>8 DEF FileStep
<1>5. CASE ReplaceTx(r)
  <2>1. PICK x \in Pieces, c \in Colours \cup {None} : x = req[r].on /\ c = req[r].to
    BY <1>5 DEF ReplaceTx, Typed, RequestsOK, Carries
  <2>2. PICK p \in {piece[x], Reserved(piece[x], c)} : Written(x, p) /\ UNCHANGED bucketVars
    BY <1>5, <2>1, ReplaceRows
  <2>3. p.key = piece[x].key /\ p.order = piece[x].order
    BY <2>2, ReservedRow, TypedRows DEF Typed
  <2>4. \A y \in Pieces : piece'[y].key = piece[y].key /\ piece'[y].order = piece[y].order
    BY <2>2, <2>3 DEF Written, Typed, TypeOK
  <2>5. Loses({})
    BY <2>2, <2>4 DEF Written, Loses
  <2> QED BY <2>2, <2>5 DEF FileStep
<1>6. ASSUME NEW X \in SUBSET Pieces, DuplicateTx(r, X) PROVE FileStep
  <2>1. req[r].op \in Alone /\ req[r].old.key \in bucket \cup {None}
    BY <1>6 DEF DuplicateTx, EditsAlone, FilesOK, PlanOK
  <2>2. Grown(X, req[r].old.order, req[r].old.key, req[r].old.colour)
    BY <1>6, DuplicateRows
  <2>3. Gains
    BY <1>2, <2>1, <2>2, GrownGains DEF FilesOK
  <2> QED BY <2>3 DEF FileStep
<1> QED BY <1>3, <1>4, <1>5, <1>6 DEF Edits

LEMMA AtOnceTouchesFiles ==
  ASSUME Typed, FilesOK, EditsAlone, AtOnce
  PROVE  FileStep
<1>1. SameRows /\ UNCHANGED bucketVars => FileStep
  BY SameLoses DEF FileStep
<1>2. req' = req
  BY AtOnceKeeps
<1>3. ASSUME NEW op \in Alone, Free(op)
      PROVE  /\ sweep = Asleep /\ \A w \in Workers : cleanup[w] = Clean
             /\ \A r \in Requests : req'[r].op \in {"none", "sync"}
  BY <1>2, <1>3 DEF Free, Idle, AtRest
<1>4. ASSUME NEW X \in SUBSET Pieces, NEW o \in Orders, NEW k \in Keys \cup {None}, CreatePieces(X, o, k) PROVE FileStep
  <2>1. Free("createPieces") /\ k \in bucket \cup {None} /\ Grown(X, o, k, None)
    BY <1>4, CreatePiecesRows
  <2>2. Gains
    BY <1>3, <2>1, GrownGains DEF EditsAlone, FilesOK
  <2> QED BY <2>2 DEF FileStep
<1>5. ASSUME NEW a \in Attachments, NEW o \in Orders, NEW kind \in {"stl", "other"}, NEW k \in Keys, Attach(a, o, kind, k)
      PROVE  FileStep
  <2>1. /\ Free("attach") /\ k \in bucket /\ ~attachment[a].there
        /\ \A b \in Attachments : IF b = a THEN attachment'[b].there /\ attachment'[b].key = k
                                  ELSE attachment'[b] = attachment[b]
        /\ UNCHANGED <<bucketVars, order, customer, piece, plate, counter, lock, raced, req, sweep>>
    BY <1>5, AttachRows
  <2>2. \A b \in Attachments : /\ attachment'[b].key \in bucket \cup {None}
                               /\ attachment'[b].key # attachment[b].key => attachment[b].key = None
    BY <2>1 DEF Typed, Blank, FilesOK, Housed
  <2>3. Gains
    BY <1>3, <2>1, <2>2 DEF EditsAlone, Gains, FilesOK, Housed, bucketVars
  <2> QED BY <2>3 DEF FileStep
<1>6. ASSUME NEW r \in Requests, NEW a \in Attachments, Detach(r, a) PROVE FileStep
  <2>1. PICK L : L = {attachment[a].key}
    OBVIOUS
  <2>2. /\ attachment' = Unattached({a}) /\ Promise(r, L, L) /\ piece' = piece /\ plate' = plate
    BY <1>6, <2>1, DetachRows
  <2>3. Trimmed({}) /\ SamePlates(plate', {})
    BY <2>2 DEF Trimmed, SamePlates, Typed, TypeOK
  <2>4. Loses(L)
    BY <2>1, <2>2, <2>3, TrimmedLoses
  <2>5. L \subseteq bucket \cup {None}
    BY <2>1 DEF FilesOK, Housed
  <2>6. cleanup[r] = Clean /\ req[r] = AtRest /\ r # Sweeper /\ r \in Workers
    BY <1>6, OrderDeskAssumption DEF Detach
  <2>7. TakenOver(r, L, L)
    BY <1>2, <2>2, <2>4, <2>5, <2>6 DEF TakenOver, AtRest
  <2> QED BY <2>6, <2>7 DEF FileStep
<1>7. ASSUME NEW x \in Pieces, Shop(x) PROVE FileStep
  <2>1. PICK p \in PieceRow : Written(x, p) /\ p.key = piece[x].key /\ p.order = piece[x].order /\ UNCHANGED bucketVars
    BY <1>7, ShopRows
  <2>2. \A y \in Pieces : piece'[y].key = piece[y].key /\ piece'[y].order = piece[y].order
    BY <2>1 DEF Written, Typed, TypeOK
  <2>3. Loses({})
    BY <2>1, <2>2 DEF Written, Loses
  <2> QED BY <2>1, <2>3 DEF FileStep
<1>8. \/ SameRows /\ UNCHANGED bucketVars
      \/ SameRows /\ \E k \in Keys : Upload(k)
      \/ \E X \in SUBSET Pieces, o \in Orders, k \in Keys \cup {None} : CreatePieces(X, o, k)
      \/ \E a \in Attachments, o \in Orders, kind \in {"stl", "other"}, k \in Keys : Attach(a, o, kind, k)
      \/ \E r \in Requests, a \in Attachments : Detach(r, a)
      \/ \E x \in Pieces : Shop(x)
  BY DEF AtOnce, CreateWithNumber, CreateCustomer, RestoreCustomer, Uploads, rows, SameRows
<1> QED BY <1>1, <1>4, <1>5, <1>6, <1>7, <1>8 DEF FileStep

LEMMA BackgroundTouchesFiles ==
  ASSUME Typed, FilesOK, Background
  PROVE  FileStep
<1>1. SameRows /\ UNCHANGED bucketVars => FileStep
  BY SameLoses DEF FileStep
<1>2. CASE SweepUnlink
  <2>1. PICK o, L : /\ o = sweep.on /\ o \in Orders /\ L = Heavy(o) /\ Unlinked(o) /\ HandOver(Sweeper, sweep.keys, L)
                    /\ sweep'.on = None
    BY <1>2, UnlinkRows
  <2>2. cleanup[Sweeper] = Clean /\ armed.delete /\ L \subseteq sweep.keys
    BY <2>1, OrderDeskAssumption DEF FilesOK, SweepAims
  <2>3. Promise(Sweeper, sweep.keys, L)
    BY <2>1, <2>2 DEF Promise
  <2>4. L \subseteq bucket
    <3>1. OfOrder(o, piece) \subseteq Pieces /\ Models(o) \subseteq Attachments
      BY TypedRows DEF Typed, OfOrder, Models
    <3> QED BY <2>1, <3>1 DEF Heavy, PieceKeys, FilesOK, Housed
  <2>5. Loses(L)
    <3>1. \A x \in Pieces : x \in OfOrder(o, piece) => piece[x].key \in L \cup {None}
      BY <2>1 DEF Heavy, PieceKeys
    <3>2. \A a \in Attachments : a \in Models(o) => attachment[a].key \in L \cup {None}
      BY <2>1 DEF Heavy
    <3>3. NoAttachment.key = None
      BY DEF NoAttachment
    <3>4. \A x \in Pieces : IF piece'[x].key = None THEN piece[x].key \in L \cup {None}
                            ELSE piece'[x].key = piece[x].key /\ piece'[x].order = piece[x].order
      BY <2>1, <3>1 DEF Unlinked
    <3>5. \A a \in Attachments : IF attachment'[a].key = None THEN attachment[a].key \in L \cup {None}
                                 ELSE attachment'[a] = attachment[a]
      BY <2>1, <3>2, <3>3 DEF Unlinked, Unattached
    <3>6. plate' = plate
      BY <2>1 DEF Unlinked
    <3> QED BY <3>4, <3>5, <3>6 DEF Loses
  <2>6. Sweeper \in Workers /\ Sweeper \notin Requests
    BY OrderDeskAssumption
  <2>7. TakenOver(Sweeper, sweep.keys, L)
    BY <2>1, <2>2, <2>3, <2>4, <2>5, <2>6 DEF TakenOver
  <2> QED BY <2>6, <2>7 DEF FileStep
<1>3. ASSUME NEW w \in Workers, Cleaning(w) PROVE FileStep
  BY <1>3 DEF Cleaning, rows, SameRows, FileStep
<1>4. CASE Crash
  BY <1>4 DEF Crash, SameRows, FileStep
<1>5. CASE SweepFind \/ \E o \in Orders : Age(o) \/ SweepRead(o)
  <2>1. SameRows /\ UNCHANGED bucketVars
    BY <1>5 DEF SweepFind, Age, SweepRead, rows, SameRows
  <2> QED BY <1>1, <2>1
<1> QED BY <1>2, <1>3, <1>4, <1>5 DEF Background, SweepNext

LEMMA StepsTouchFiles ==
  ASSUME Typed, FilesOK, Serial, EditsAlone, DeskNext
  PROVE  FileStep
<1>1. SameRows /\ UNCHANGED bucketVars => FileStep
  BY SameLoses DEF FileStep
<1>2. ASSUME NEW r \in Requests, Asks(r) \/ Resolve(r) \/ Numbered(r) PROVE FileStep
  <2>1. SameRows /\ UNCHANGED bucketVars
    BY <1>2, UpdateRows DEF Asks, Resolve, Numbered, CreateCommit, RestartCommit, SameRows
  <2> QED BY <1>1, <2>1
<1>3. ASSUME NEW r \in Requests, Creates(r) PROVE FileStep
  <2>1. PICK x \in Pieces, o \in Orders, k \in bucket \cup {None}, c \in Colours \cup {None} : Grown({x}, o, k, c)
    BY <1>3, CreatesRows
  <2>2. PICK q : Take(r, q) /\ q.op = "sync"
    BY <1>3, CreatesAsks
  <2>3. /\ sweep = Asleep /\ (\A w \in Workers : cleanup[w] = Clean)
        /\ \A s \in Requests : req'[s].op \in {"none", "sync"}
    BY <2>2 DEF Take, Free, Idle, EditsAlone, AtRest, Typed, RequestsOK
  <2>4. {x} \in SUBSET Pieces
    OBVIOUS
  <2>5. Gains
    BY <2>1, <2>3, <2>4, GrownGains DEF FilesOK
  <2> QED BY <2>5 DEF FileStep
<1>4. ASSUME NEW r \in Requests, Deletes(r) PROVE FileStep
  <2>1. r \in Workers
    BY OrderDeskAssumption
  <2> QED BY <1>4, <2>1, DeletesTakeOver DEF FileStep
<1>5. ASSUME NEW r \in Requests, DeleteCustomerTx(r) PROVE FileStep
  <2>1. PICK B \in SUBSET Plates : Trimmed({}) /\ SamePlates(plate', B) /\ Forget(PlateKeys(B)) /\ attachment' = attachment
    BY <1>5, DeleteCustomerRows
  <2>2. Loses(PlateKeys(B))
    BY <2>1, AttachmentsStay, TrimmedLoses DEF Typed, PlateKeys
  <2> QED BY <2>1, <2>2 DEF FileStep
<1> QED
  BY <1>2, <1>3, <1>4, <1>5, EditsTouchFiles, AtOnceTouchesFiles, BackgroundTouchesFiles, StepCases DEF Ends

LEMMA PlansStep ==
  ASSUME Typed, FilesOK, Serial, EditsAlone, DeskNext, FileStep
  PROVE  \A r \in Requests : PlanOK(req[r])'
<1> SUFFICES ASSUME NEW r \in Requests PROVE PlanOK(req[r])'
  OBVIOUS
<1>1. CASE req'[r] = req[r]
  <2>1. PICK q : q = req[r] /\ PlanOK(q)
    BY DEF FilesOK
  <2>2. q.op \in {"duplicate", "patch"} => bucket' = bucket
    BY <1>1, <2>1, Undisturbed DEF EditsAlone, bucketVars
  <2>3. ASSUME q.op \in {"deletePieces", "deleteBed"}
        PROVE  /\ \A x \in Pieces : piece'[x].key \in {piece[x].key, None}
               /\ \A b \in Plates : plate'[b].key \in {plate[b].key, None}
    <3>1. ~Gains
      BY <1>1, <2>1, <2>3 DEF Gains
    <3>2. SameRows \/ \E L : Loses(L)
      BY <3>1 DEF FileStep, TakenOver
    <3> QED BY <3>2 DEF SameRows, Loses
  <2>4. /\ q.op = "deletePieces" => q.xs \subseteq Pieces
        /\ q.op = "deleteBed" => q.on \in Plates
    BY <2>1 DEF Typed, RequestsOK, Carries
  <2> QED BY <1>1, <2>1, <2>2, <2>3, <2>4 DEF PlanOK
<1>2. CASE req'[r] # req[r]
  <2>1. CASE req'[r] = AtRest \/ Resolve(r) \/ req'[r].op = "sync"
    <3>1. req'[r].op \in {"none", "update", "sync"}
      BY <2>1, ResolvedIsUpdate DEF AtRest
    <3> QED BY <3>1 DEF PlanOK
  <2>2. CASE Asked(r, req'[r]) /\ Asks(r)
    <3>1. PICK q : q = req'[r] /\ Asked(r, q)
      BY <2>2
    <3>2. UNCHANGED <<bucketVars, piece, plate>>
      BY <2>2 DEF Asks
    <3>3. Housed /\ There(piece) \subseteq Pieces
      BY TypedRows DEF FilesOK, Typed
    <3> QED BY <3>1, <3>2, <3>3 DEF PlanOK, Asked, bucketVars, Housed
  <2> QED BY <1>2, <2>1, <2>2, Moved
<1> QED BY <1>1, <1>2

LEMMA FilesStep ==
  ASSUME Typed, FilesOK, Serial, EditsAlone, [DeskNext]_deskVars
  PROVE  FilesOK'
<1>1. CASE DeskNext
  <2>1. FileStep
    BY <1>1, StepsTouchFiles
  <2>2. Typed'
    BY TypedStep
  <2> QED BY <1>1, <2>1, <2>2, HousedStep, AccountedStep, NeededStep, UnburdenedStep, AimsStep, PlansStep DEF FilesOK
<1>2. CASE UNCHANGED deskVars
  BY <1>2 DEF deskVars, bucketVars, rows, FilesOK, Housed, Accounted, NothingNeeded, Unburdened, SweepAims, PlanOK,
              Points, Pending, Heavy, PieceKeys, OfOrder, Models, There
<1> QED BY <1>1, <1>2

LEMMA FilesInit ==
  ASSUME DeskInit, Stocked
  PROVE  FilesOK
<1>1. Typed
  BY TypedInit
<1>2. Housed
  <2>1. \A k : k # None /\ Points(k) => k \in bucket
    BY <1>1, PointedAt DEF Stocked, AllStored
  <2> QED BY <2>1 DEF Housed, Points
<1>3. Accounted /\ NothingNeeded
  BY DEF DeskInit, BucketInit, Accounted, NothingNeeded, Clean
<1>4. Unburdened /\ SweepAims /\ \A r \in Requests : PlanOK(req[r])
  BY DEF DeskInit, AtRest, Asleep, Unburdened, SweepAims, PlanOK
<1> QED BY <1>2, <1>3, <1>4 DEF FilesOK

\* Rows, and the files they point at, stay in step, if rows come to point at files
\* one request at a time.
THEOREM FilesInvariance ==
  ASSUME EditsAlone
  PROVE  DeskSpec => [](Typed /\ FilesOK)
<1>1. DeskInit /\ Stocked => Typed /\ Serial /\ FilesOK
  BY TypedInit, SerialInit, FilesInit
<1>2. Typed /\ Serial /\ FilesOK /\ [DeskNext]_deskVars => (Typed /\ Serial /\ FilesOK)'
  <2>1. Typed /\ Serial /\ UNCHANGED deskVars => Serial'
    BY DEF deskVars, bucketVars, Serial
  <2> QED BY <2>1, TypedStep, SerialStep, FilesStep DEF EditsAlone
<1> QED BY <1>1, <1>2, PTL DEF DeskSpec

\* No row ever points at a file that is gone.
THEOREM RowsPointAtFiles ==
  ASSUME EditsAlone
  PROVE  DeskSpec => []RowsNeverPointAtNothing
<1>1. Typed /\ FilesOK => RowsNeverPointAtNothing
  <2> SUFFICES ASSUME Typed, FilesOK, NEW k \in Refs, k # None PROVE k \in bucket
    BY DEF RowsNeverPointAtNothing, AllStored
  <2>1. Points(k)
    BY PointedAt
  <2> QED BY <2>1 DEF Points, FilesOK, Housed
<1> QED BY <1>1, FilesInvariance, PTL

\* What was deleted leaves no bytes behind that nothing points at or knows of.
THEOREM BytesAreAccountedFor ==
  ASSUME EditsAlone
  PROVE  DeskSpec => []DeletedWorkLeavesNoBytes
<1>1. Typed /\ FilesOK => DeletedWorkLeavesNoBytes
  <2> SUFFICES ASSUME Typed, FilesOK, NEW k \in owed \cap bucket PROVE k \in Refs \cup spilled \cup Pending
    BY DEF DeletedWorkLeavesNoBytes, NothingForgotten, Pending
  <2>1. k # None
    BY KeyIsSomething DEF Typed, TypeOK
  <2> QED BY <2>1, PointedAt DEF FilesOK, Accounted
<1> QED BY <1>1, FilesInvariance, PTL
=============================================================================
