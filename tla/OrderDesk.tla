------------------------------- MODULE OrderDesk -------------------------------
(***************************************************************************)
(* The order book of a company: its customers and the count of their       *)
(* orders, the numbers orders are given, the pieces of an order as the     *)
(* office edits them, and the files all of these point at.                 *)
(*                                                                         *)
(* A request reads, outside any transaction, what it will decide on, writes *)
(* in one transaction, and then removes files: one step each.  Minting a    *)
(* number takes the row lock of the counter for the rest of its            *)
(* transaction.  What the shop floor does to a piece (PieceLifecycle,      *)
(* PlateLifecycle, Fulfilment) is here the single action Shop, and the     *)
(* invoices of an order are in Books.  The three file columns of a piece    *)
(* are one, and pieces are of one colour.                                   *)
(***************************************************************************)
EXTENDS OrderRollup, Bucket

CONSTANTS
  Orders, Customers, Pieces, Attachments, Plates,
  Colours,
  Requests,   \* concurrent requests
  Sweeper,    \* the retention sweep
  MaxSerial,  \* bound on the counter
  Alone       \* requests nothing runs beside

ASSUME OrderDeskAssumption ==
  /\ Workers = Requests \cup {Sweeper} /\ Sweeper \notin Requests
  /\ IsFiniteSet(Orders) /\ MaxSerial \in Nat
  /\ None \notin Orders \cup Customers \cup Plates \cup Colours \cup Keys \cup Requests

VARIABLES
  order, customer, piece, attachment, plate,   \* the rows
  counter,   \* order_number_sequences.last_value, as committed
  lock,      \* the request that holds the row lock of the counter
  req,       \* req[r]: the request r is in the middle of
  sweep,     \* the tick of the retention sweep, when one runs
  raced      \* history: owners of an order that changed hands, or whose owner two
             \* requests dealt with at once

rows == <<order, customer, piece, attachment, plate, counter, lock, raced>>
deskVars == <<bucketVars, rows, req, sweep>>

NoOrder == [there |-> FALSE, status |-> "draft", aged |-> FALSE, number |-> 0, minted |-> FALSE,
            customer |-> None, guest |-> FALSE]
NoPiece == [there |-> FALSE, order |-> None, plate |-> None, status |-> "pending",
            fulfilment |-> "none", colour |-> None, spool |-> None, key |-> None]
NoAttachment == [there |-> FALSE, order |-> None, kind |-> "other", key |-> None]
NoPlate == [there |-> FALSE, ran |-> FALSE, status |-> "pending", key |-> None]
NoCustomer == [there |-> FALSE, deleted |-> FALSE, total |-> 0]
AtRest == [op |-> "none", on |-> None, xs |-> {}, old |-> None, to |-> None, keys |-> {}, n |-> 0]
Asleep == [todo |-> {}, on |-> None, keys |-> {}]

OrderRow == [there : BOOLEAN, status : OrderStatus, aged : BOOLEAN, number : 0..MaxSerial,
             minted : BOOLEAN, customer : Customers \cup {None}, guest : BOOLEAN]
PieceRow == [there : BOOLEAN, order : Orders \cup {None}, plate : Plates \cup {None},
             status : PieceStatus, fulfilment : Fulfilment, colour : Colours \cup {None},
             spool : Colours \cup {None}, key : Keys \cup {None}]
AttachmentRow == [there : BOOLEAN, order : Orders \cup {None}, kind : {"stl", "other"}, key : Keys \cup {None}]
PlateRow == [there : BOOLEAN, ran : BOOLEAN, status : {"pending", "cancelled", "disassembled"},
             key : Keys \cup {None}]
CustomerRow == [there : BOOLEAN, deleted : BOOLEAN, total : Nat]

\* Rows hold what their columns may.
TypeOK ==
  /\ order \in [Orders -> OrderRow] /\ customer \in [Customers -> CustomerRow]
  /\ piece \in [Pieces -> PieceRow] /\ attachment \in [Attachments -> AttachmentRow]
  /\ plate \in [Plates -> PlateRow]
  /\ counter \in 0..MaxSerial /\ lock \in Requests \cup {None} /\ raced \subseteq Customers \cup {None}
  /\ minted \subseteq Keys /\ bucket \subseteq minted /\ armed \in [sweep : BOOLEAN, delete : BOOLEAN]

There(f) == {x \in DOMAIN f : f[x].there}
Absent(f) == DOMAIN f \ There(f)
LiveCustomers == {c \in There(customer) : ~customer[c].deleted}
OnPlate(b, pcs) == {x \in There(pcs) : pcs[x].plate = b}
OfOrder(o, pcs) == {x \in There(pcs) : pcs[x].order = o}
PieceKeys(X) == {piece[x].key : x \in X}
Refs == PieceKeys(There(piece)) \cup {attachment[a].key : a \in There(attachment)}
          \cup {plate[b].key : b \in There(plate)}

\* PIECE_CHANGE_LOCKED_ORDER_STATUSES.
Locked(status) == status \in Shipping \cup Manual \cup {"completed"}

\* An order's fulfilled_at goes when it leaves 'fulfilled'.
WithStatus(o, s) == [o EXCEPT !.status = s, !.aged = @ /\ s = "fulfilled"]

\* recomputeOrderStatusTx for each of the orders `os`.
Synced(os, pcs) ==
  [o \in Orders |->
     IF o \in os /\ order[o].there
     THEN WithStatus(order[o], Recomputed(order[o].status, [x \in OfOrder(o, pcs) |-> pcs[x]], TRUE))
     ELSE order[o]]

\* Nothing that must be alone is under way; and op finds nothing under way
\* when it must be alone.
Idle == sweep = Asleep /\ \A r \in Requests : req[r] = AtRest
Free(op) ==
  /\ \A r \in Requests : req[r].op \notin Alone
  /\ op \in Alone => Idle /\ \A w \in Workers : cleanup[w] = Clean

Take(r, q) ==
  /\ req[r] = AtRest /\ cleanup[r] = Clean /\ Free(q.op)
  /\ req' = [req EXCEPT ![r] = q]

Done(r) == req' = [req EXCEPT ![r] = AtRest]

----------------------------------------------------------------------------
(* Numbers.                                                                *)

Numbers == {order[o].number : o \in There(order)} \ {0}
Highest == IF Numbers = {} THEN 0 ELSE CHOOSE n \in Numbers : \A m \in Numbers : m <= n

Placed(o, q) ==
  /\ order' = [order EXCEPT ![o] = [NoOrder EXCEPT !.there = TRUE, !.number = q.n, !.customer = q.to.customer,
                                                   !.guest = q.to.guest, !.minted = q.to.minted]]
  /\ customer' = [c \in Customers |-> IF c = q.to.customer THEN [customer[c] EXCEPT !.total = @ + 1]
                                                           ELSE customer[c]]

\* createOrder up to the bump of the counter, which locks its row.
CreateOpen(r, o, c, guest) ==
  /\ o \in Absent(order) /\ \A s \in Requests : req[s].on # o
  /\ c \in LiveCustomers \cup {None} /\ (c # None => ~guest)
  /\ lock = None /\ counter < MaxSerial
  /\ lock' = r
  /\ Take(r, [AtRest EXCEPT !.op = "create", !.on = o, !.n = counter + 1,
                            !.to = [customer |-> c, guest |-> guest, minted |-> TRUE]])
  /\ UNCHANGED <<bucketVars, order, customer, piece, attachment, plate, counter, raced, sweep>>

\* Its insert and commit; a number somebody else typed in undoes all of it.
CreateCommit(r) ==
  /\ req[r].op = "create"
  /\ IF req[r].n \in Numbers
     THEN UNCHANGED <<order, customer, counter>>
     ELSE Placed(req[r].on, req[r]) /\ counter' = req[r].n
  /\ lock' = None
  /\ Done(r)
  /\ UNCHANGED <<bucketVars, piece, attachment, plate, raced, sweep>>

\* createOrder with a number of the caller's: 0 stands for another form.
CreateWithNumber(o, c, guest, n) ==
  /\ o \in Absent(order) /\ (\A s \in Requests : req[s].on # o) /\ Free("manual")
  /\ c \in LiveCustomers \cup {None} /\ (c # None => ~guest)
  /\ n \notin Numbers
  /\ Placed(o, [n |-> n, to |-> [customer |-> c, guest |-> guest, minted |-> FALSE]])
  /\ UNCHANGED <<bucketVars, piece, attachment, plate, counter, lock, raced, req, sweep>>

\* Mutant: what is in use is looked up before the row is locked.
RestartUnlocked(r, n) ==
  /\ Take(r, [AtRest EXCEPT !.op = "restart", !.n = n, !.to = Highest])
  /\ UNCHANGED <<bucketVars, rows, sweep>>

\* setNextValue: lock the counter, then look at what is in use.
RestartLock(r, n) ==
  /\ lock = None /\ lock' = r
  /\ Take(r, [AtRest EXCEPT !.op = "restart", !.n = n, !.to = Highest])
  /\ UNCHANGED <<bucketVars, order, customer, piece, attachment, plate, counter, raced, sweep>>

RestartCommit(r) ==
  /\ req[r].op = "restart"
  /\ counter' = IF req[r].n <= req[r].to THEN counter ELSE req[r].n - 1
  /\ lock' = IF lock = r THEN None ELSE lock
  /\ Done(r)
  /\ UNCHANGED <<bucketVars, order, customer, piece, attachment, plate, raced, sweep>>

----------------------------------------------------------------------------
(* Orders and customers.                                                   *)

\* updateOrder up to its transaction: the order as read, and what it becomes.
UpdateRead(r, o, status, c, n) ==
  LET old == order[o]
      to == [status |-> status, customer |-> c, number |-> n]
      resolves == status = "confirmed" /\ old.status # "confirmed"
                    /\ c = None /\ old.customer = None /\ old.guest IN
  /\ o \in There(order)
  /\ c \in LiveCustomers \cup {None, old.customer}
  /\ n \in Numbers => n = old.number
  /\ Take(r, [AtRest EXCEPT !.op = IF resolves THEN "resolve" ELSE "update",
                            !.on = o, !.old = old, !.to = to])
  /\ UNCHANGED <<bucketVars, rows, sweep>>

\* resolveOrCreateFromGuest, in a transaction of its own: a customer with
\* that contact, or a new one.
Resolve(r) ==
  /\ req[r].op = "resolve"
  /\ \/ \E c \in LiveCustomers :
          /\ req' = [req EXCEPT ![r].op = "update", ![r].to.customer = c]
          /\ UNCHANGED customer
     \/ \E c \in Absent(customer) :
          /\ req' = [req EXCEPT ![r].op = "update", ![r].to.customer = c]
          /\ customer' = [customer EXCEPT ![c] = [NoCustomer EXCEPT !.there = TRUE]]
  /\ UNCHANGED <<bucketVars, order, piece, attachment, plate, counter, lock, raced, sweep>>

MayConfirm(o) == OfOrder(o, piece) # {}
                   /\ \A x \in OfOrder(o, piece) : piece[x].status \notin {"printing", "done", "failed"}

\* Mutant: an order is counted again when it is given the customer it has.
FirstCustomerLoose(q) == q.to.customer # None

\* isFirstCustomerAssignment.
FirstCustomer(q) == q.to.customer # None /\ q.to.customer # q.old.customer /\ q.old.customer = None

Changed(o, q) ==
  LET o1 == IF q.to.status # None THEN WithStatus(o, q.to.status) ELSE o
      o2 == IF q.to.customer # None THEN [o1 EXCEPT !.customer = q.to.customer] ELSE o1
  IN IF q.to.number # None /\ q.to.number # o.number
     THEN [o2 EXCEPT !.number = q.to.number, !.minted = FALSE] ELSE o2

UpdateTx(r) ==
  LET q == req[r]
      o == q.on
      allowed == /\ q.to.status \in {None, q.old.status} \/ MayConfirm(o)
                 /\ q.to.number # None => \A p \in There(order) \ {o} : order[p].number # q.to.number \/ q.to.number = 0
      from == order[o].customer IN
  /\ q.op = "update"
  /\ IF allowed
     THEN /\ order' = IF order[o].there THEN [order EXCEPT ![o] = Changed(@, q)] ELSE order
          /\ customer' = [c \in Customers |-> IF FirstCustomer(q) /\ c = q.to.customer
                                              THEN [customer[c] EXCEPT !.total = @ + 1] ELSE customer[c]]
          /\ raced' = IF ~order[o].there \/ from # q.old.customer \/ (from # None /\ q.to.customer \notin {None, from})
                      THEN raced \cup {from, q.to.customer, q.old.customer} ELSE raced
     ELSE UNCHANGED <<order, customer, raced>>
  /\ Done(r)
  /\ UNCHANGED <<bucketVars, piece, attachment, plate, counter, lock, sweep>>

\* Plates some of whose pieces were taken away: emptied, or left with nothing
\* but cancelled pieces, or no arrangement any more.
Emptied(bs, pcs) == {b \in bs : OnPlate(b, pcs) = {}}
Dead(bs, pcs) == {b \in bs \ Emptied(bs, pcs) : \A x \in OnPlate(b, pcs) : pcs[x].status = "cancelled"}
Broken(bs, pcs) == bs \ (Emptied(bs, pcs) \cup Dead(bs, pcs))

Loose(pcs, bs, standing) ==
  [x \in Pieces |-> IF pcs[x].plate \in bs
                    THEN [pcs[x] EXCEPT !.plate = None,
                                        !.status = IF @ \in standing THEN @ ELSE "pending"]
                    ELSE pcs[x]]

\* deleteEmptyBedTx with keepIfItRan, after a dismantling.
Scrapped(bs) == {b \in bs : ~plate[b].ran}

\* reevaluateBedAfterPieceRemoval: the pieces, the plates, and the plates gone.
PiecesAfter(bs, pcs) == Loose(pcs, Broken(bs, pcs), {"cancelled", "done", "failed", "printing"})
PlatesGone(bs, pcs) == Emptied(bs, pcs) \cup Scrapped(Broken(bs, pcs))
PlatesAfter(bs, pcs) ==
  [b \in Plates |-> IF b \in PlatesGone(bs, pcs) THEN NoPlate
                    ELSE IF b \in Dead(bs, pcs) THEN [plate[b] EXCEPT !.status = "cancelled"]
                    ELSE IF b \in Broken(bs, pcs) THEN [plate[b] EXCEPT !.status = "disassembled"]
                    ELSE plate[b]]
PlateKeys(bs) == {plate[b].key : b \in bs}

\* A delete path hands over the keys it read, for rows that pointed at `gone`.
Promise(r, keys, gone) == HandOver(r, keys, IF armed.delete THEN gone ELSE {})

\* deleteOrder and cancelAndDeleteOrder read the order.
DeleteOrderRead(r, o, op) ==
  /\ o \in There(order)
  /\ Take(r, [AtRest EXCEPT !.op = op, !.on = o, !.old = order[o]])
  /\ UNCHANGED <<bucketVars, rows, sweep>>

\* Mutant: the plates an order empties keep their files.
EraseLeavingPlateFiles(r) ==
  LET o == req[r].on
      X == OfOrder(o, piece)
      A == {a \in There(attachment) : attachment[a].order = o}
      bs == {piece[x].plate : x \in X} \ {None}
      pcs == [x \in Pieces |-> IF x \in X THEN NoPiece ELSE piece[x]]
      keys == PieceKeys(X) \cup {attachment[a].key : a \in A} IN
  /\ piece' = PiecesAfter(bs, pcs)
  /\ plate' = PlatesAfter(bs, pcs)
  /\ attachment' = [a \in Attachments |-> IF a \in A THEN NoAttachment ELSE attachment[a]]
  /\ order' = [order EXCEPT ![o] = NoOrder]
  /\ customer' = [c \in Customers |-> IF c = req[r].old.customer /\ customer[c].total > 0
                                      THEN [customer[c] EXCEPT !.total = @ - 1] ELSE customer[c]]
  /\ raced' = raced \cup IF order[o].customer = req[r].old.customer THEN {}
                        ELSE {order[o].customer, req[r].old.customer}
  /\ Promise(r, keys, keys \cup PlateKeys(PlatesGone(bs, pcs)))
  /\ Done(r)
  /\ UNCHANGED <<counter, lock, sweep>>

\* All that hangs off an order goes with it, in one transaction, and the
\* customer it was read with has one order less.
Erase(r) ==
  LET o == req[r].on
      X == OfOrder(o, piece)
      A == {a \in There(attachment) : attachment[a].order = o}
      bs == {piece[x].plate : x \in X} \ {None}
      pcs == [x \in Pieces |-> IF x \in X THEN NoPiece ELSE piece[x]]
      keys == PieceKeys(X) \cup {attachment[a].key : a \in A} \cup PlateKeys(PlatesGone(bs, pcs)) IN
  /\ piece' = PiecesAfter(bs, pcs)
  /\ plate' = PlatesAfter(bs, pcs)
  /\ attachment' = [a \in Attachments |-> IF a \in A THEN NoAttachment ELSE attachment[a]]
  /\ order' = [order EXCEPT ![o] = NoOrder]
  /\ customer' = [c \in Customers |-> IF c = req[r].old.customer /\ customer[c].total > 0
                                      THEN [customer[c] EXCEPT !.total = @ - 1] ELSE customer[c]]
  /\ raced' = raced \cup IF order[o].customer = req[r].old.customer THEN {}
                        ELSE {order[o].customer, req[r].old.customer}
  /\ Promise(r, keys, keys)
  /\ Done(r)
  /\ UNCHANGED <<counter, lock, sweep>>

DeleteOrderTx(r) == req[r].op = "delete" /\ Erase(r)
PurgeOrderTx(r) == req[r].op = "purge" /\ Erase(r)

CreateCustomer(c) ==
  /\ c \in Absent(customer) /\ Free("customer")
  /\ customer' = [customer EXCEPT ![c] = [NoCustomer EXCEPT !.there = TRUE]]
  /\ UNCHANGED <<bucketVars, order, piece, attachment, plate, counter, lock, raced, req, sweep>>

DeleteCustomerRead(r, c) ==
  /\ c \in LiveCustomers
  /\ Take(r, [AtRest EXCEPT !.op = "forget", !.on = c])
  /\ UNCHANGED <<bucketVars, rows, sweep>>

\* The customer's open orders are cancelled with all that is not being
\* printed, and the row is kept.  The files of plates this breaks up stay.
DeleteCustomerTx(r) ==
  LET c == req[r].on
      active == {o \in There(order) : order[o].customer = c /\ ~Locked(order[o].status)}
      cancelled == {o \in There(order) : order[o].customer = c /\ order[o].status = "cancelled"} \cup active
      open(x) == piece[x].there /\ piece[x].status \notin {"printing", "done", "cancelled", "failed"}
      listed == {x \in Pieces : open(x) /\ piece[x].order \in active}
      bs == {piece[x].plate : x \in listed} \ {None}
      pcs == [x \in Pieces |-> IF open(x) /\ piece[x].order \in cancelled
                               THEN [piece[x] EXCEPT !.status = "cancelled",
                                                     !.spool = IF x \in listed THEN None ELSE @]
                               ELSE piece[x]] IN
  /\ req[r].op = "forget"
  /\ order' = [o \in Orders |-> IF o \in active THEN WithStatus(order[o], "cancelled") ELSE order[o]]
  /\ piece' = PiecesAfter(bs, pcs)
  /\ plate' = PlatesAfter(bs, pcs)
  /\ customer' = [customer EXCEPT ![c].deleted = TRUE]
  /\ Forget(PlateKeys(PlatesGone(bs, pcs)))
  /\ Done(r)
  /\ UNCHANGED <<attachment, counter, lock, raced, sweep>>

RestoreCustomer(c) ==
  /\ c \in There(customer) \ LiveCustomers /\ Free("customer")
  /\ customer' = [customer EXCEPT ![c].deleted = FALSE]
  /\ UNCHANGED <<bucketVars, order, piece, attachment, plate, counter, lock, raced, req, sweep>>

----------------------------------------------------------------------------
(* Pieces and attachments.                                                 *)

Added(X, o, key, colour) ==
  [x \in Pieces |-> IF x \in X
                    THEN [NoPiece EXCEPT !.there = TRUE, !.order = o, !.key = key, !.colour = colour]
                    ELSE piece[x]]

\* createPiece: the row first, the order's status in a second transaction.
CreatePiece(r, x, o, key, colour) ==
  /\ x \in Absent(piece) /\ o \in There(order) /\ ~Locked(order[o].status)
  /\ key \in bucket \cup {None}
  /\ piece' = Added({x}, o, key, colour)
  /\ Take(r, [AtRest EXCEPT !.op = "sync", !.on = o])
  /\ UNCHANGED <<bucketVars, order, customer, attachment, plate, counter, lock, raced, sweep>>

CreatePieceSync(r) ==
  /\ req[r].op = "sync"
  /\ order' = Synced({req[r].on}, piece)
  /\ Done(r)
  /\ UNCHANGED <<bucketVars, customer, piece, attachment, plate, counter, lock, raced, sweep>>

\* createPieces: those that can be inserted, in one transaction.
CreatePieces(X, o, key) ==
  /\ X # {} /\ X \subseteq Absent(piece) /\ o \in There(order) /\ ~Locked(order[o].status)
  /\ key \in bucket \cup {None} /\ Free("createPieces")
  /\ piece' = Added(X, o, key, None)
  /\ order' = Synced({o}, piece')
  /\ UNCHANGED <<bucketVars, customer, attachment, plate, counter, lock, raced, req, sweep>>

\* duplicatePiece reads the piece; its copies point at the same file.
DuplicateRead(r, x) ==
  /\ x \in There(piece) /\ ~Locked(order[piece[x].order].status) /\ Absent(piece) # {}
  /\ Take(r, [AtRest EXCEPT !.op = "duplicate", !.old = piece[x]])
  /\ UNCHANGED <<bucketVars, rows, sweep>>

DuplicateTx(r, X) ==
  LET old == req[r].old IN
  /\ req[r].op = "duplicate" /\ X # {} /\ X \subseteq Absent(piece)
  /\ piece' = Added(X, old.order, old.key, old.colour)
  /\ order' = Synced({old.order}, piece')
  /\ Done(r)
  /\ UNCHANGED <<bucketVars, customer, attachment, plate, counter, lock, raced, sweep>>

Frozen == {"scheduled", "printing", "done", "failed", "cancelled"}

\* pieceSpecEditRefusal for the colour and the sliced file.
Refused(old, fields) ==
  \/ order[old.order].status \in Shipping \cup {"returned"} /\ fields \cap {"colour", "key"} # {}
  \/ "colour" \in fields /\ (old.status \in Frozen \/ (old.plate # None /\ old.status = "ready"))
  \/ "key" \in fields /\ old.status \in Frozen

\* assertDirectPiecePatchAllowed, for the status.
PatchMayBe(old, status) ==
  status \in {"pending", "ready", "cancelled"} /\ (old.status = "printing" => status # "cancelled")

\* updatePiece up to its transaction.  `to` has the fields that are patched;
\* a status it does not have is derived, and may turn out to be 'ready'.
PatchRead(r, x, to) ==
  LET old == piece[x] IN
  /\ x \in There(piece)
  /\ ~Refused(old, DOMAIN to)
  /\ "status" \in DOMAIN to => PatchMayBe(old, to.status)
  /\ "key" \in DOMAIN to => to.key \in bucket
  /\ \E s \in {old.status} \cup (IF old.status \in {"pending", "assigned"} THEN {"ready"} ELSE {}) :
       Take(r, [AtRest EXCEPT !.op = "patch", !.on = x, !.old = old,
                              !.to = IF "status" \in DOMAIN to \/ s = old.status THEN to
                                     ELSE [f \in DOMAIN to \cup {"status"} |-> IF f = "status" THEN s ELSE to[f]]])
  /\ UNCHANGED <<bucketVars, rows, sweep>>

\* Mutant: what is reserved stays when the colour changes.
PatchedKeepingSpool(p, q) ==
  [f \in DOMAIN p |-> IF f \in DOMAIN q.to THEN q.to[f] ELSE p[f]]

\* materialSpecMoved takes back what is reserved.
Patched(p, q) ==
  [f \in DOMAIN p |->
     IF f \in DOMAIN q.to THEN q.to[f]
     ELSE IF f = "spool" /\ "colour" \in DOMAIN q.to /\ q.to.colour # q.old.colour THEN None
     ELSE p[f]]

\* Its transaction; the file it replaces is nobody's business.
PatchTx(r) ==
  LET x == req[r].on
      pcs == IF piece[x].there THEN [piece EXCEPT ![x] = Patched(@, req[r])] ELSE piece IN
  /\ req[r].op = "patch"
  /\ piece' = pcs
  /\ order' = Synced({req[r].old.order}, pcs)
  /\ Forget({piece[x].key} \ {pcs[x].key})
  /\ Done(r)
  /\ UNCHANGED <<customer, attachment, plate, counter, lock, raced, sweep>>

ReplaceRead(r, x, spool) ==
  /\ x \in There(piece)
  /\ Take(r, [AtRest EXCEPT !.op = "replace", !.on = x, !.old = piece[x], !.to = spool])
  /\ UNCHANGED <<bucketVars, rows, sweep>>

\* replaceSpoolAllocations: a spool of the piece's colour, if it has one.
ReplaceTx(r) ==
  LET q == req[r] IN
  /\ q.op = "replace"
  /\ IF /\ q.old.status \notin {"printing", "done", "failed", "cancelled"}
        /\ piece[q.on].there
        /\ q.to = None \/ q.old.colour \in {None, q.to}
     THEN piece' = [piece EXCEPT ![q.on].spool = q.to]
     ELSE UNCHANGED piece
  /\ Done(r)
  /\ UNCHANGED <<bucketVars, order, customer, attachment, plate, counter, lock, raced, sweep>>

\* The shop floor: loading a piece reserves a spool that fits it, printing
\* consumes it, and what is produced is shipped.
ShopMoves(p) ==
  CASE p.status = "pending"   -> {[p EXCEPT !.status = "ready", !.spool = c] :
                                    c \in IF p.colour = None THEN Colours ELSE {p.colour}}
    [] p.status = "ready"     -> {[p EXCEPT !.status = "scheduled"]}
    [] p.status = "scheduled" -> {[p EXCEPT !.status = "printing"], [p EXCEPT !.status = "ready"]}
    [] p.status = "printing"  -> {[p EXCEPT !.status = "done", !.spool = None]}
    [] p.status = "done"      -> {[p EXCEPT !.fulfilment = IF @ = "none" THEN "fulfilled" ELSE "none"]}
    [] OTHER                  -> {}

Shop(x) ==
  /\ x \in There(piece) /\ piece[x].plate = None /\ Free("shop")
  /\ \E p \in ShopMoves(piece[x]) : piece' = [piece EXCEPT ![x] = p]
  /\ order' = Synced({piece[x].order}, piece')
  /\ UNCHANGED <<bucketVars, customer, attachment, plate, counter, lock, raced, req, sweep>>

\* deletePiece and deletePieces, which read the pieces first.
DeletePiecesRead(r, X, force) ==
  /\ X # {} /\ X \subseteq There(piece)
  /\ ~force => \A x \in X : /\ ~Locked(order[piece[x].order].status)
                            /\ piece[x].status \notin {"printing", "done", "failed"}
  /\ Take(r, [AtRest EXCEPT !.op = "deletePieces", !.xs = X, !.old = [x \in X |-> piece[x]]])
  /\ UNCHANGED <<bucketVars, rows, sweep>>

DeletePiecesTx(r) ==
  LET X == req[r].xs
      old == req[r].old
      bs == {old[x].plate : x \in X} \ {None}
      pcs == [x \in Pieces |-> IF x \in X THEN NoPiece ELSE piece[x]]
      plates == PlateKeys(PlatesGone(bs, pcs)) IN
  /\ req[r].op = "deletePieces"
  /\ piece' = PiecesAfter(bs, pcs)
  /\ plate' = PlatesAfter(bs, pcs)
  /\ order' = Synced({old[x].order : x \in X}, piece')
  /\ Promise(r, {old[x].key : x \in X} \cup plates, PieceKeys(X) \cup plates)
  /\ Done(r)
  /\ UNCHANGED <<customer, attachment, counter, lock, raced, sweep>>

\* deleteBed: the plate with all that is on it.
DeleteBedRead(r, b) ==
  /\ b \in There(plate)
  /\ Take(r, [AtRest EXCEPT !.op = "deleteBed", !.on = b, !.old = plate[b]])
  /\ UNCHANGED <<bucketVars, rows, sweep>>

DeleteBedTx(r) ==
  LET b == req[r].on
      X == OnPlate(b, piece)
      keys == PieceKeys(X) IN
  /\ req[r].op = "deleteBed"
  /\ piece' = [x \in Pieces |-> IF x \in X THEN NoPiece ELSE piece[x]]
  /\ plate' = [plate EXCEPT ![b] = NoPlate]
  /\ order' = Synced({piece[x].order : x \in X}, piece')
  /\ Promise(r, keys \cup {req[r].old.key}, keys \cup {plate[b].key})
  /\ Done(r)
  /\ UNCHANGED <<customer, attachment, counter, lock, raced, sweep>>

\* disassemble: everything on it is pending again; a plate that never ran goes.
DisassembleRead(r, b) ==
  /\ b \in There(plate) /\ plate[b].status \notin {"scheduled", "printing", "disassembled"}
  /\ Take(r, [AtRest EXCEPT !.op = "disassemble", !.on = b])
  /\ UNCHANGED <<bucketVars, rows, sweep>>

DisassembleTx(r) ==
  LET b == req[r].on
      gone == Scrapped({b}) IN
  /\ req[r].op = "disassemble"
  /\ piece' = Loose(piece, {b}, {})
  /\ plate' = [plate EXCEPT ![b] = IF b \in gone \/ ~@.there THEN NoPlate
                                   ELSE [@ EXCEPT !.status = "disassembled"]]
  /\ Promise(r, PlateKeys(gone), PlateKeys(gone))
  /\ Done(r)
  /\ UNCHANGED <<order, customer, attachment, counter, lock, raced, sweep>>

Attach(a, o, kind, key) ==
  /\ a \in Absent(attachment) /\ o \in There(order) /\ key \in bucket /\ Free("attach")
  /\ attachment' = [attachment EXCEPT ![a] = [there |-> TRUE, order |-> o, kind |-> kind, key |-> key]]
  /\ UNCHANGED <<bucketVars, order, customer, piece, plate, counter, lock, raced, req, sweep>>

\* remove: the DELETE returns what its row pointed at.
Detach(r, a) ==
  /\ a \in There(attachment) /\ req[r] = AtRest /\ cleanup[r] = Clean /\ Free("detach")
  /\ attachment' = [attachment EXCEPT ![a] = NoAttachment]
  /\ Promise(r, {attachment[a].key}, {attachment[a].key})
  /\ UNCHANGED <<order, customer, piece, plate, counter, lock, raced, req, sweep>>

----------------------------------------------------------------------------
(* The retention sweep, and time.                                          *)

\* The retention window passes over a fulfilled order.
Age(o) ==
  /\ order[o].there /\ order[o].status = "fulfilled" /\ ~order[o].aged
  /\ order' = [order EXCEPT ![o].aged = TRUE]
  /\ UNCHANGED <<bucketVars, customer, piece, attachment, plate, counter, lock, raced, req, sweep>>

Models(o) == {a \in There(attachment) : attachment[a].order = o /\ attachment[a].kind = "stl"}
Heavy(o) == (PieceKeys(OfOrder(o, piece)) \cup {attachment[a].key : a \in Models(o)}) \ {None}

\* findEligibleOrders.
Eligible == {o \in There(order) : order[o].aged /\ Heavy(o) # {}}

SweepFind ==
  /\ sweep = Asleep /\ cleanup[Sweeper] = Clean /\ Eligible # {} /\ Free("sweep")
  /\ sweep' = [Asleep EXCEPT !.todo = Eligible]
  /\ UNCHANGED <<bucketVars, rows, req>>

\* purgeOrder up to its transaction: a dry run stops here.
SweepRead(o) ==
  LET goes == Heavy(o) # {} /\ armed.sweep /\ armed.delete IN
  /\ sweep.on = None /\ o \in sweep.todo /\ cleanup[Sweeper] = Clean
  /\ sweep' = [sweep EXCEPT !.todo = @ \ {o}, !.on = IF goes THEN o ELSE None,
                            !.keys = IF goes THEN Heavy(o) ELSE {}]
  /\ UNCHANGED <<bucketVars, rows, req>>

\* The rows let go of their files before the bytes are asked for.
SweepUnlink ==
  LET o == sweep.on IN
  /\ o # None
  /\ piece' = [x \in Pieces |-> IF x \in OfOrder(o, piece) THEN [piece[x] EXCEPT !.key = None] ELSE piece[x]]
  /\ attachment' = [a \in Attachments |-> IF a \in Models(o) THEN NoAttachment ELSE attachment[a]]
  /\ HandOver(Sweeper, sweep.keys, Heavy(o))
  /\ sweep' = [sweep EXCEPT !.on = None, !.keys = {}]
  /\ UNCHANGED <<order, customer, plate, counter, lock, raced, req>>

Cleaning(w) == BucketStep(w, Refs) /\ UNCHANGED <<rows, req, sweep>>

Uploads(k) == Free("upload") /\ Upload(k) /\ UNCHANGED <<rows, req, sweep>>

\* Open transactions roll back; what the bucket was still to lose it keeps.
Crash ==
  /\ "crash" \in Faults
  /\ ~Idle \/ \E w \in Workers : cleanup[w] # Clean
  /\ req' = [r \in Requests |-> AtRest] /\ sweep' = Asleep /\ lock' = None
  /\ BucketCrash
  /\ UNCHANGED <<order, customer, piece, attachment, plate, counter, raced>>

----------------------------------------------------------------------------
\* No request has been made; what there is at first is left open.
DeskInit ==
  /\ BucketInit
  /\ customer = [c \in Customers |-> NoCustomer]
  /\ counter = 0 /\ lock = None /\ raced = {}
  /\ req = [r \in Requests |-> AtRest] /\ sweep = Asleep

NoOrders == [o \in Orders |-> NoOrder]
NoPieces == [x \in Pieces |-> NoPiece]
NoAttachments == [a \in Attachments |-> NoAttachment]
NoPlates == [b \in Plates |-> NoPlate]

PlaceNext == \E o \in Orders, c \in Customers \cup {None}, guest \in BOOLEAN : CreateWithNumber(o, c, guest, 0)

MintNext == \E r \in Requests :
  \/ \E o \in Orders : CreateOpen(r, o, None, FALSE)
  \/ CreateCommit(r) \/ RestartCommit(r)
  \/ \E n \in 1..MaxSerial + 1 : RestartLock(r, n)

\* Numbers that are typed in.
TypeNext ==
  \/ \E o \in Orders, n \in 1..MaxSerial : CreateWithNumber(o, None, FALSE, n)
  \/ \E r \in Requests : \/ \E o \in Orders, n \in 0..MaxSerial : UpdateRead(r, o, None, None, n)
                          \/ UpdateTx(r)

EraseNext == \E r \in Requests :
  \/ \E o \in Orders, op \in {"delete", "purge"} : DeleteOrderRead(r, o, op)
  \/ DeleteOrderTx(r) \/ PurgeOrderTx(r)

OwnerNext == \E r \in Requests :
  \/ \E o \in Orders, s \in {None, "confirmed"}, c \in Customers \cup {None} : UpdateRead(r, o, s, c, None)
  \/ \E o \in Orders, c \in Customers : CreateOpen(r, o, c, FALSE)
  \/ CreateCommit(r) \/ Resolve(r) \/ UpdateTx(r)

CustomerNext ==
  \/ \E c \in Customers : CreateCustomer(c) \/ RestoreCustomer(c)
  \/ \E r \in Requests : DeleteCustomerTx(r) \/ \E c \in Customers : DeleteCustomerRead(r, c)

PieceNext == (\E k \in Keys : Uploads(k)) \/ \E r \in Requests :
  \/ \E x \in Pieces, o \in Orders, k \in Keys \cup {None}, c \in Colours \cup {None} : CreatePiece(r, x, o, k, c)
  \/ CreatePieceSync(r)

PatchNext == \E r \in Requests :
  \/ \E x \in Pieces, c \in Colours \cup {None}, s \in {"pending", "ready", "cancelled"} :
       \/ PatchRead(r, x, [colour |-> c]) \/ PatchRead(r, x, [status |-> s])
       \/ PatchRead(r, x, [colour |-> c, status |-> s])
       \/ ReplaceRead(r, x, c)
  \/ PatchTx(r) \/ ReplaceTx(r)

\* Files that further rows come to point at.
FileNext ==
  \/ \E X \in SUBSET Pieces, o \in Orders, k \in Keys \cup {None} : CreatePieces(X, o, k)
  \/ \E a \in Attachments, o \in Orders, kind \in {"stl", "other"}, k \in Keys : Attach(a, o, kind, k)
  \/ \E r \in Requests : \/ \E x \in Pieces : DuplicateRead(r, x)
                         \/ \E X \in SUBSET Pieces : DuplicateTx(r, X)

DetachNext == \E r \in Requests :
  \/ \E a \in Attachments : Detach(r, a)
  \/ \E x \in Pieces, k \in Keys : PatchRead(r, x, [key |-> k])
  \/ PatchTx(r)

RemoveNext ==
  \/ \E w \in Workers : Cleaning(w)
  \/ \E r \in Requests :
       \/ \E X \in SUBSET Pieces, force \in BOOLEAN : DeletePiecesRead(r, X, force)
       \/ DeletePiecesTx(r)

PlateNext == \E r \in Requests :
  \/ \E b \in Plates : DeleteBedRead(r, b) \/ DisassembleRead(r, b)
  \/ DeleteBedTx(r) \/ DisassembleTx(r)

SweepNext == SweepFind \/ SweepUnlink \/ \E o \in Orders : Age(o) \/ SweepRead(o)

ShopNext == \E x \in Pieces : Shop(x)

\* Everything at once, from any stock of rows that is in order: nobody's
\* orders without a number, nothing reserved, and every file in its place.
Stocked ==
  /\ TypeOK /\ AllStored(Refs)
  /\ \A x \in Absent(piece) : piece[x] = NoPiece
  /\ \A a \in Absent(attachment) : attachment[a] = NoAttachment
  /\ \A b \in Absent(plate) : plate[b] = NoPlate
  /\ \A o \in Orders : order[o].number = 0 /\ ~order[o].minted /\ order[o].customer = None
  /\ \A x \in Pieces : piece[x].spool = None

DeskNext ==
  \/ PlaceNext \/ MintNext \/ TypeNext \/ EraseNext \/ OwnerNext \/ CustomerNext \/ PieceNext
  \/ PatchNext \/ FileNext \/ DetachNext \/ RemoveNext \/ PlateNext \/ SweepNext \/ ShopNext \/ Crash

DeskSpec == DeskInit /\ Stocked /\ [][DeskNext]_deskVars

----------------------------------------------------------------------------
\* No order the counter numbered is ahead of the counter, whatever restarts
\* of it, creations and deletions ran beside each other: the next number it
\* mints is nobody's, unless somebody typed it in.
CounterIsAheadOfItsOrders == \A o \in There(order) : order[o].minted => order[o].number <= counter

\* A customer's count of orders is the number of orders they own, however the
\* orders got their owner (created with one, given one, confirmed for a guest)
\* and however they went; except a customer an order was taken from or
\* given to after another, and one two requests dealt with at once: those the
\* code counts wrong.
CustomersAreCountedRight ==
  \A c \in There(customer) \ raced :
    customer[c].total = Cardinality({o \in There(order) : order[o].customer = c})

\* What is reserved for a piece is of the piece's colour until it is printed,
\* whatever edits, reservations and cancellations it went through.
ReservationsMatchTheColour ==
  \A x \in There(piece) :
    piece[x].spool # None /\ piece[x].colour # None => piece[x].spool = piece[x].colour

\* No row points at a file that is gone: not after any delete path, beside
\* another one or beside the sweep, nor after a crash or a failure of the
\* storage service in the middle of one.
RowsNeverPointAtNothing == AllStored(Refs)

\* A delete path leaves no bytes behind that nothing points at, even where
\* several rows shared them and went in different requests; what it could not
\* remove is in the log.  The sweep never unlinks what it will not remove.
DeletedWorkLeavesNoBytes == NothingForgotten(Refs)
=============================================================================
