------------------------ MODULE PlateLifecycleProofs ------------------------
(***************************************************************************)
(* For every set of plates, pieces, printers, stocks and workers, with     *)
(* requests and sweeps interleaved and failing at every statement:         *)
(*                                                                         *)
(*   - two plates share a machine only where a request was overtaken       *)
(*     between its conflict queries and its UPDATE;                        *)
(*   - the pieces of a plate that was not worked on by two at a time, nor  *)
(*     left half-way, say what the plate says, and it can be taken apart;  *)
(*   - a triage charges a plate once.                                      *)
(*                                                                         *)
(* ShopInv, first, is what all three rest on.                              *)
(***************************************************************************)
EXTENDS PlateHistory, TLAPS

USE PlateAssumption

----------------------------------------------------------------------------
(* The shape of the rows, and the requests that write them.                *)

IsPlate(x) == x = [status |-> x.status, printer |-> x.printer, spec |-> x.spec, tank |-> x.tank,
                   from |-> x.from, to |-> x.to, ran |-> x.ran]
IsPiece(x) == x = [status |-> x.status, plate |-> x.plate, printer |-> x.printer, source |-> x.source,
                   stamped |-> x.stamped, post |-> x.post]
IsRequest(x) == x = [pc |-> x.pc, op |-> x.op, b |-> x.b, p |-> x.p, printer |-> x.printer,
                     source |-> x.source, at |-> x.at, to |-> x.to, ids |-> x.ids]

PlateRows   == plate = [b \in Plates |-> plate[b]] /\ \A b \in Plates : IsPlate(plate[b])
PieceRows   == piece = [p \in Pieces |-> piece[p]] /\ \A p \in Pieces : IsPiece(piece[p])
RequestRows == req = [w \in Workers |-> req[w]] /\ \A w \in Workers : IsRequest(req[w])
Rows == PlateRows /\ PieceRows /\ RequestRows /\ drawn \in [Plates -> Nat]

\* The plate is, or can be, booked.
Current(st) == st \in Planning \cup Busy

Triages(r, b)  == r.op = "triage" /\ r.b = b
\* A request that may put the plate back among the current ones, without a new run.
Rebooks(r, b) == r.b = b /\ (r.op \in {"assign", "schedule", "unschedule"} \/ (r.op = "files" /\ r.to # "none"))

\* Where a request sends its plate.
Aims(r) == /\ r.op = "complete" => r.to \in {"done", "failed"}
           /\ r.op = "files" => r.to \in {"none", "assigned", "ready"}
           /\ r.op \in {"unschedule", "restore", "reprint"} => r.to \in Planning
           /\ r.op = "remove" => r.to \in {"cancel", "delete"}
           /\ r.pc \in Telling => r.op \in Tells

MayGo(op, pc) == /\ pc = "idle" \/ op \notin {"create", "triage"}
                 /\ pc \in Telling => op \in Tells

\* What a request relies on.
Sound(r) ==
  /\ r.op = "create" => plate[r.b].status = "absent"
  /\ r.op = "triage" => plate[r.b].status # "absent" /\ On(r.b, piece) \subseteq r.ids
  /\ Aims(r)
  /\ r.op \in {"create", "triage"} => r.b \in Plates /\ r.pc = "tx"

ShopInv ==
  /\ Rows
  /\ \A p \in Pieces : piece[p].status = "deleted" => piece[p].plate = None
  /\ \A w \in Workers : Sound(req[w])
  /\ \A v, w \in Workers : req[v].op = "create" /\ req[w].op = "create" /\ req[v].b = req[w].b => v = w

\* r goes on as q, to its next statement, or is over.
GoesOn(r, q) == \/ q = Idle
                \/ q.op = r.op /\ q.b = r.b /\ q.to = r.to /\ MayGo(r.op, q.pc) /\ r.op \notin {"create", "triage"}

\* The kinds of steps.
OnlyReq(w) == \A u \in Workers \ {w} : req'[u] = req[u]
PiecesStay == \A p \in Pieces : /\ piece'[p].plate \in {piece[p].plate, None}
                                /\ piece'[p].status = "deleted" => piece'[p].plate = None
NoneAppears == \A b \in Plates : plate[b].status = "absent" <=> plate'[b].status = "absent"

\* Nothing becomes current, but the plate the request rebooks or runs anew.
Works(w) ==
  /\ OnlyReq(w) /\ GoesOn(req[w], req'[w]) /\ PiecesStay /\ NoneAppears
  /\ \A b \in Plates : /\ drawn'[b] \in {drawn[b], 0}
                       /\ drawn'[b] # 0 /\ Current(plate'[b].status) =>
                            Current(plate[b].status) \/ Rebooks(req[w], b)
Begins(w) ==
  /\ OnlyReq(w) /\ req[w] = Idle /\ PiecesStay /\ NoneAppears
  /\ \A b \in Plates : drawn'[b] = drawn[b] /\ (Current(plate'[b].status) => Current(plate[b].status))
  /\ LET r == req'[w]
     IN  /\ r.op = "create" => /\ r.b \in Plates /\ plate[r.b].status = "absent"
                               /\ \A v \in Workers : req[v].op = "create" => req[v].b # r.b
         /\ r.op = "triage" => /\ r.b \in Plates /\ plate[r.b].status # "absent"
                               /\ On(r.b, piece) # {} /\ r.ids = On(r.b, piece)
         /\ Aims(r)
         /\ r.op \in {"create", "triage"} => r.pc = "tx"
         /\ \A b \in Plates : Rebooks(r, b) => Current(plate[b].status)
ClockWorks ==
  /\ req' = req /\ PiecesStay /\ NoneAppears
  /\ \A b \in Plates : drawn'[b] = drawn[b] /\ (Current(plate'[b].status) => Current(plate[b].status))
Creates(w) ==
  /\ req[w].op = "create" /\ OnlyReq(w) /\ req'[w] = Idle
  /\ \A b \in Plates : drawn'[b] = drawn[b] /\ (b # req[w].b => plate'[b] = plate[b])
  /\ plate'[req[w].b].status # "absent"
  /\ \A p \in Pieces : /\ piece'[p].plate \in {piece[p].plate, req[w].b}
                       /\ piece'[p].status = "deleted" => piece'[p].plate = None
Draws(w) ==
  LET b == req[w].b
  IN  /\ req[w].op = "triage" /\ OnlyReq(w) /\ req'[w] = Idle /\ PiecesStay /\ NoneAppears
      /\ Current(plate[b].status) /\ ~Current(plate'[b].status)
      /\ \A c \in Plates \ {b} : plate'[c] = plate[c] /\ drawn'[c] = drawn[c]
      /\ drawn'[b] \in {drawn[b], drawn[b] + 1}
      /\ \A p \in req[w].ids : p \in Pieces => piece'[p].plate = None

Kinds == ClockWorks \/ \E w \in Workers : Works(w) \/ Begins(w) \/ Creates(w) \/ Draws(w)

LEMMA OnIs ==
  ASSUME Rows
  PROVE  \A b : On(b, piece) = {p \in Pieces : piece[p].plate = b}
BY DEF Rows, PieceRows, On

LEMMA OnThen ==
  ASSUME Rows'
  PROVE  \A b : On(b, piece') = {p \in Pieces : piece'[p].plate = b}
BY DEF Rows, PieceRows, On

LEMMA Shrinks ==
  ASSUME Rows, Rows', PiecesStay, NEW b \in Plates
  PROVE  On(b, piece') \subseteq On(b, piece)
<1>1. b # None
  OBVIOUS
<1>2. \A p \in Pieces : piece'[p].plate = b => piece[p].plate = b
  BY <1>1 DEF PiecesStay
<1>3. On(b, piece) = {p \in Pieces : piece[p].plate = b} /\ On(b, piece') = {p \in Pieces : piece'[p].plate = b}
  BY OnIs, OnThen
<1> QED BY <1>2, <1>3

\* ShopInv of the next state, in parts.
LEMMA InvThen ==
  ASSUME Rows',
         \A p \in Pieces : piece'[p].status = "deleted" => piece'[p].plate = None,
         \A w \in Workers :
           LET r == req'[w]
           IN  /\ r.op = "create" => plate'[r.b].status = "absent"
               /\ r.op = "triage" => plate'[r.b].status # "absent" /\ On(r.b, piece') \subseteq r.ids
               /\ Aims(r)
               /\ r.op \in {"create", "triage"} => r.b \in Plates /\ r.pc = "tx",
         \A v, w \in Workers : req'[v].op = "create" /\ req'[w].op = "create" /\ req'[v].b = req'[w].b => v = w
  PROVE  ShopInv'
BY DEF ShopInv, Sound, Aims, Rows, PlateRows, PieceRows, RequestRows

LEMMA IdleDoesNothing ==
  /\ Idle.op = "none" /\ Idle.pc = "idle" /\ Idle.b = None /\ Aims(Idle)
  /\ \A b : ~Triages(Idle, b) /\ ~Rebooks(Idle, b)
BY DEF Idle, Aims, Triages, Rebooks, Telling

LEMMA GoingOn ==
  ASSUME NEW r, NEW q, GoesOn(r, q)
  PROVE  /\ q.op \notin {"create", "triage"} /\ \A b : ~Triages(q, b) /\ (Rebooks(q, b) => Rebooks(r, b))
         /\ Aims(r) => Aims(q)
BY IdleDoesNothing DEF GoesOn, MayGo, Aims, Triages, Rebooks

LEMMA WorksKeep ==
  ASSUME ShopInv, Rows', NEW w \in Workers, Works(w)
  PROVE  ShopInv'
<1>1. \A u \in Workers : u # w => req'[u] = req[u]
  BY DEF Works, OnlyReq
<1>2. req'[w].op \notin {"create", "triage"} /\ Aims(req'[w])
  BY GoingOn DEF Works, ShopInv, Sound
<1>3. \A b \in Plates : On(b, piece') \subseteq On(b, piece)
  BY Shrinks DEF ShopInv, Works
<1>4. \A u \in Workers :
        LET r == req'[u]
        IN  /\ r.op = "create" => plate'[r.b].status = "absent"
            /\ r.op = "triage" => plate'[r.b].status # "absent" /\ On(r.b, piece') \subseteq r.ids
            /\ Aims(r)
            /\ r.op \in {"create", "triage"} => r.b \in Plates /\ r.pc = "tx"
  <2> SUFFICES ASSUME NEW u \in Workers, u # w
               PROVE  LET r == req[u]
                      IN  /\ r.op = "create" => plate'[r.b].status = "absent"
                          /\ r.op = "triage" => plate'[r.b].status # "absent" /\ On(r.b, piece') \subseteq r.ids
                          /\ Aims(r)
                          /\ r.op \in {"create", "triage"} => r.b \in Plates /\ r.pc = "tx"
    BY <1>1, <1>2
  <2> QED BY <1>3 DEF ShopInv, Sound, Works, NoneAppears
<1>5. \A u, v \in Workers : req'[u].op = "create" /\ req'[v].op = "create" /\ req'[u].b = req'[v].b => u = v
  BY <1>1, <1>2 DEF ShopInv
<1>6. \A p \in Pieces : piece'[p].status = "deleted" => piece'[p].plate = None
  BY DEF Works, PiecesStay
<1> QED BY <1>4, <1>5, <1>6, InvThen

LEMMA BeginsKeep ==
  ASSUME ShopInv, Rows', NEW w \in Workers, Begins(w)
  PROVE  ShopInv'
<1>1. \A u \in Workers : u # w => req'[u] = req[u]
  BY DEF Begins, OnlyReq
<1>2. PICK r : r = req'[w]
  OBVIOUS
<1>3. /\ r.op = "create" => /\ r.b \in Plates /\ plate[r.b].status = "absent"
                            /\ \A v \in Workers : req[v].op = "create" => req[v].b # r.b
      /\ r.op = "triage" => /\ r.b \in Plates /\ plate[r.b].status # "absent"
                            /\ On(r.b, piece) # {} /\ r.ids = On(r.b, piece)
      /\ Aims(r)
      /\ r.op \in {"create", "triage"} => r.pc = "tx"
  BY <1>2 DEF Begins
<1>4. \A b \in Plates : On(b, piece') \subseteq On(b, piece)
  BY Shrinks DEF ShopInv, Begins
<1>5. ASSUME NEW u \in Workers
      PROVE  LET q == req'[u]
             IN  /\ q.op = "create" => plate'[q.b].status = "absent"
                 /\ q.op = "triage" => plate'[q.b].status # "absent" /\ On(q.b, piece') \subseteq q.ids
                 /\ Aims(q)
                 /\ q.op \in {"create", "triage"} => q.b \in Plates /\ q.pc = "tx"
  <2>1. CASE u = w
    BY <1>2, <1>3, <1>4, <2>1 DEF Begins, NoneAppears
  <2>2. CASE u # w
    BY <1>1, <1>4, <2>2 DEF ShopInv, Sound, Begins, NoneAppears
  <2> QED BY <2>1, <2>2
<1>6. \A u, v \in Workers : req'[u].op = "create" /\ req'[v].op = "create" /\ req'[u].b = req'[v].b => u = v
  BY <1>1, <1>2, <1>3 DEF ShopInv
<1>7. \A p \in Pieces : piece'[p].status = "deleted" => piece'[p].plate = None
  BY DEF Begins, PiecesStay
<1> QED BY <1>5, <1>6, <1>7, InvThen

LEMMA ClockKeeps ==
  ASSUME ShopInv, Rows', ClockWorks
  PROVE  ShopInv'
<1>1. \A b \in Plates : On(b, piece') \subseteq On(b, piece)
  BY Shrinks DEF ShopInv, ClockWorks
<1>2. \A u \in Workers :
        LET q == req'[u]
        IN  /\ q.op = "create" => plate'[q.b].status = "absent"
            /\ q.op = "triage" => plate'[q.b].status # "absent" /\ On(q.b, piece') \subseteq q.ids
            /\ Aims(q)
            /\ q.op \in {"create", "triage"} => q.b \in Plates /\ q.pc = "tx"
  BY <1>1 DEF ShopInv, Sound, ClockWorks, NoneAppears
<1>3. \A u, v \in Workers : req'[u].op = "create" /\ req'[v].op = "create" /\ req'[u].b = req'[v].b => u = v
  BY DEF ShopInv, ClockWorks
<1>4. \A p \in Pieces : piece'[p].status = "deleted" => piece'[p].plate = None
  BY DEF ClockWorks, PiecesStay
<1> QED BY <1>2, <1>3, <1>4, InvThen

LEMMA Elsewhere ==
  ASSUME ShopInv, Rows', NEW w \in Workers, Creates(w)
  PROVE  \A b \in Plates : b # req[w].b => On(b, piece') \subseteq On(b, piece)
<1> DEFINE n == req[w].b
<1>1. \A b, p : p \in Pieces /\ b # n /\ piece'[p].plate = b => piece[p].plate = b
  BY DEF Creates
<1>2. Rows
  BY DEF ShopInv
<1>3. \A b : On(b, piece) = {p \in Pieces : piece[p].plate = b} /\ On(b, piece') = {p \in Pieces : piece'[p].plate = b}
  BY <1>2, OnIs, OnThen
<1> HIDE DEF n
<1> QED BY <1>1, <1>3 DEF n

LEMMA CreatesKeep ==
  ASSUME ShopInv, Rows', NEW w \in Workers, Creates(w)
  PROVE  ShopInv'
<1> DEFINE n == req[w].b
<1>1. /\ n \in Plates /\ plate[n].status = "absent" /\ plate'[n].status # "absent"
      /\ req'[w] = Idle /\ \A u \in Workers : u # w => req'[u] = req[u]
  BY DEF Creates, OnlyReq, ShopInv, Sound
<1>2. \A b \in Plates : b # n => On(b, piece') \subseteq On(b, piece)
  BY Elsewhere
<1>3. ASSUME NEW u \in Workers
      PROVE  LET q == req'[u]
             IN  /\ q.op = "create" => plate'[q.b].status = "absent"
                 /\ q.op = "triage" => plate'[q.b].status # "absent" /\ On(q.b, piece') \subseteq q.ids
                 /\ Aims(q)
                 /\ q.op \in {"create", "triage"} => q.b \in Plates /\ q.pc = "tx"
  <2>1. CASE u = w
    BY <1>1, <2>1, IdleDoesNothing
  <2>2. CASE u # w
    <3>1. req[u].op \in {"create", "triage"} => req[u].b # n /\ req[u].b \in Plates
      BY <1>1, <2>2 DEF ShopInv, Sound, Creates
    <3> QED BY <1>1, <1>2, <2>2, <3>1 DEF ShopInv, Sound, Creates
  <2> QED BY <2>1, <2>2
<1>4. \A u, v \in Workers : req'[u].op = "create" /\ req'[v].op = "create" /\ req'[u].b = req'[v].b => u = v
  BY <1>1, IdleDoesNothing DEF ShopInv
<1>5. \A p \in Pieces : piece'[p].status = "deleted" => piece'[p].plate = None
  BY DEF Creates
<1> QED BY <1>3, <1>4, <1>5, InvThen

LEMMA DrawsKeep ==
  ASSUME ShopInv, Rows', NEW w \in Workers, Draws(w)
  PROVE  ShopInv'
<1>1. req'[w] = Idle /\ \A u \in Workers : u # w => req'[u] = req[u]
  BY DEF Draws, OnlyReq
<1>2. \A b \in Plates : On(b, piece') \subseteq On(b, piece)
  BY Shrinks DEF ShopInv, Draws
<1>3. ASSUME NEW u \in Workers
      PROVE  LET q == req'[u]
             IN  /\ q.op = "create" => plate'[q.b].status = "absent"
                 /\ q.op = "triage" => plate'[q.b].status # "absent" /\ On(q.b, piece') \subseteq q.ids
                 /\ Aims(q)
                 /\ q.op \in {"create", "triage"} => q.b \in Plates /\ q.pc = "tx"
  <2>1. CASE u = w
    BY <1>1, <2>1, IdleDoesNothing
  <2>2. CASE u # w
    BY <1>1, <1>2, <2>2 DEF ShopInv, Sound, Draws, NoneAppears
  <2> QED BY <2>1, <2>2
<1>4. \A u, v \in Workers : req'[u].op = "create" /\ req'[v].op = "create" /\ req'[u].b = req'[v].b => u = v
  BY <1>1, IdleDoesNothing DEF ShopInv
<1>5. \A p \in Pieces : piece'[p].status = "deleted" => piece'[p].plate = None
  BY DEF Draws, PiecesStay
<1> QED BY <1>3, <1>4, <1>5, InvThen

LEMMA KindsKeep ==
  ASSUME ShopInv, Rows', Kinds
  PROVE  ShopInv'
BY WorksKeep, BeginsKeep, ClockKeeps, CreatesKeep, DrawsKeep DEF Kinds

(* What the actions are. *)

LEMMA GotoGoes ==
  ASSUME Rows, NEW w \in Workers, NEW pc, Goto(w, pc), MayGo(req[w].op, pc)
  PROVE  RequestRows' /\ OnlyReq(w) /\ GoesOn(req[w], req'[w]) /\ (pc = "idle" => req'[w] = Idle)
<1>1. IsRequest(Idle)
  BY DEF Idle, IsRequest
<1>2. CASE pc = "idle"
  <2>1. req' = [req EXCEPT ![w] = Idle]
    BY <1>2 DEF Goto
  <2>2. req' = [u \in Workers |-> req'[u]] /\ req'[w] = Idle /\ \A u \in Workers \ {w} : req'[u] = req[u]
    BY <2>1 DEF Rows, RequestRows
  <2>3. \A u \in Workers : IsRequest(req'[u])
    BY <1>1, <2>2 DEF Rows, RequestRows
  <2> QED BY <1>2, <2>2, <2>3 DEF RequestRows, OnlyReq, GoesOn, MayGo, IsRequest, Telling, Tells
<1>3. CASE pc # "idle"
  <2>1. req' = [req EXCEPT ![w] = [req[w] EXCEPT !.pc = pc]]
    BY <1>3 DEF Goto
  <2>2. /\ req' = [u \in Workers |-> req'[u]] /\ req'[w] = [req[w] EXCEPT !.pc = pc]
        /\ \A u \in Workers \ {w} : req'[u] = req[u]
    BY <2>1 DEF Rows, RequestRows
  <2>3. IsRequest(req'[w]) /\ req'[w].pc = pc /\ req'[w].op = req[w].op /\ req'[w].b = req[w].b /\ req'[w].to = req[w].to
    BY <2>2 DEF Rows, RequestRows, IsRequest
  <2>4. \A u \in Workers : IsRequest(req'[u])
    BY <2>2, <2>3 DEF Rows, RequestRows
  <2> QED BY <1>3, <2>2, <2>3, <2>4 DEF RequestRows, OnlyReq, GoesOn, MayGo, IsRequest, Telling, Tells
<1> QED BY <1>2, <1>3

LEMMA PlateSet ==
  ASSUME Rows, NEW b, NEW row, IsPlate(row), SetPlate(b, row), row.status # "absent" \/ row.status = plate[b].status
  PROVE  /\ PlateRows' /\ NoneAppears
         /\ \A c \in Plates : \/ plate'[c] = plate[c]
                              \/ c = b /\ plate'[c] = row /\ Exists(b)
<1>1. CASE Exists(b) /\ b \in Plates
  <2>1. plate' = [plate EXCEPT ![b] = row]
    BY <1>1 DEF SetPlate
  <2>2. plate' = [c \in Plates |-> plate'[c]] /\ plate'[b] = row /\ \A c \in Plates \ {b} : plate'[c] = plate[c]
    BY <1>1, <2>1 DEF Rows, PlateRows
  <2>3. \A c \in Plates : IsPlate(plate'[c])
    BY <2>2 DEF Rows, PlateRows
  <2> QED BY <1>1, <2>2, <2>3 DEF PlateRows, NoneAppears, Exists, IsPlate
<1>2. CASE ~(Exists(b) /\ b \in Plates)
  <2>1. plate' = plate
    BY <1>2 DEF SetPlate, Rows, PlateRows
  <2> QED BY <2>1 DEF Rows, PlateRows, NoneAppears, IsPlate
<1> QED BY <1>1, <1>2

LEMMA RowsThen ==
  ASSUME PlateRows', PieceRows', RequestRows', drawn' \in [Plates -> Nat]
  PROVE  Rows'
BY DEF Rows, PlateRows, PieceRows, RequestRows

LEMMA PiecesUnread ==
  ASSUME ShopInv, piece' = piece
  PROVE  PieceRows' /\ PiecesStay
BY DEF ShopInv, Rows, PieceRows, IsPiece, PiecesStay

LEMMA PlatesUnread ==
  ASSUME ShopInv, plate' = plate
  PROVE  PlateRows' /\ NoneAppears
BY DEF ShopInv, Rows, PlateRows, IsPlate, NoneAppears

\* The pieces are written one by one, and stay where they are or leave.
LEMMA PiecesWritten ==
  ASSUME ShopInv, NEW g, piece' = g, g = [p \in Pieces |-> g[p]],
         \A p \in Pieces : \/ g[p] = piece[p]
                           \/ /\ IsPiece(g[p])
                              /\ \/ g[p].plate = None
                                 \/ /\ g[p].plate = piece[p].plate
                                    /\ g[p].status # "deleted" \/ g[p].status = piece[p].status
  PROVE  PieceRows' /\ PiecesStay
<1>1. \A p \in Pieces : IsPiece(g[p]) /\ g[p].plate \in {piece[p].plate, None}
                        /\ (g[p].status = "deleted" => g[p].plate = None)
  BY DEF ShopInv, Rows, PieceRows
<1>2. PieceRows'
  BY <1>1 DEF PieceRows, IsPiece
<1> QED BY <1>1, <1>2 DEF PiecesStay

LEMMA UnreservedRow ==
  ASSUME NEW x, IsPiece(x)
  PROVE  LET y == Unreserved(x)
         IN  /\ IsPiece(y) /\ y.plate = x.plate /\ y.status = x.status
             /\ y.printer = x.printer /\ y.stamped = x.stamped
<1>1. CASE Resin
  BY <1>1 DEF Unreserved
<1>2. CASE ~Resin
  <2>1. Unreserved(x) = [x EXCEPT !.source = None]
    BY <1>2 DEF Unreserved
  <2> QED BY <2>1 DEF IsPiece
<1> QED BY <1>1, <1>2

LEMMA ReleasedStay ==
  ASSUME ShopInv, NEW S, piece' = Released(S)
  PROVE  PieceRows' /\ PiecesStay
<1>1. \A p \in Pieces : piece'[p] = IF p \in S THEN Unreserved(piece[p]) ELSE piece[p]
  BY DEF Released
<1>2. piece' = [p \in Pieces |-> piece'[p]]
  BY DEF Released
<1>3. \A p \in Pieces : IsPiece(piece[p])
  BY DEF ShopInv, Rows, PieceRows
<1>4. \A p \in Pieces : /\ IsPiece(Unreserved(piece[p])) /\ Unreserved(piece[p]).plate = piece[p].plate
                         /\ Unreserved(piece[p]).status = piece[p].status
  BY <1>3, UnreservedRow
<1>5. PICK g : g = piece'
  OBVIOUS
<1>6. \A p \in Pieces : g[p] \in {piece[p], Unreserved(piece[p])}
  BY <1>1, <1>5
<1> QED BY <1>2, <1>4, <1>5, <1>6, PiecesWritten

LEMMA WorksIs ==
  ASSUME ShopInv, NEW w \in Workers, NEW pc, Goto(w, pc), MayGo(req[w].op, pc),
         PieceRows', PiecesStay, PlateRows', NoneAppears, drawn' = drawn,
         \A b \in Plates : Current(plate'[b].status) => Current(plate[b].status) \/ Rebooks(req[w], b)
  PROVE  Rows' /\ Kinds
<1>1. RequestRows' /\ OnlyReq(w) /\ GoesOn(req[w], req'[w])
  BY GotoGoes DEF ShopInv
<1>2. drawn' \in [Plates -> Nat]
  BY DEF ShopInv, Rows
<1>3. Works(w)
  BY <1>1 DEF Works
<1> QED BY <1>1, <1>2, <1>3, RowsThen DEF Kinds

\* Steps that leave the plates alone.
LEMMA PiecesOnly ==
  ASSUME ShopInv, NEW w \in Workers, NEW pc, Goto(w, pc), MayGo(req[w].op, pc),
         PieceRows', PiecesStay, plate' = plate, drawn' = drawn
  PROVE  Rows' /\ Kinds
BY WorksIs, PlatesUnread

LEMMA Others ==
  ASSUME ShopInv, NEW w \in Workers,
         \/ ReserveTx(w) \/ ScheduleCheck(w) \/ CompletePour(w) \/ CompleteFree(w)
         \/ ReleaseSpools(w) \/ RequestFails(w)
  PROVE  Rows' /\ Kinds
<1>1. CASE ScheduleCheck(w) \/ CompletePour(w) \/ CompleteFree(w) \/ RequestFails(w)
  <2>1. piece' = piece /\ plate' = plate /\ drawn' = drawn
    BY <1>1 DEF ScheduleCheck, CompletePour, CompleteFree, RequestFails, world
  <2>2. PICK pc : Goto(w, pc) /\ MayGo(req[w].op, pc)
    BY <1>1 DEF MayGo, Telling, Tells, ScheduleCheck, CompletePour, CompleteFree, RequestFails, At
  <2> QED BY <2>1, <2>2, PiecesOnly, PiecesUnread
<1>2. CASE ReserveTx(w)
  <2>1. Goto(w, "idle") /\ plate' = plate /\ drawn' = drawn
    BY <1>2 DEF ReserveTx
  <2> DEFINE rows == Released(On(req[w].b, piece))
             q == req[w].p
             s == req[w].source
  <2>2. piece' = [rows EXCEPT ![q].source = s] \/ piece' = piece
    BY <1>2 DEF ReserveTx
  <2>3. CASE piece' = piece
    BY <2>1, <2>3, PiecesOnly, PiecesUnread DEF MayGo, Telling, Tells
  <2>4. CASE piece' = [rows EXCEPT ![q].source = s]
    <3>1. rows = [p \in Pieces |-> rows[p]]
      BY DEF Released
    <3>2. \A p \in Pieces : IsPiece(rows[p]) /\ rows[p].plate = piece[p].plate /\ rows[p].status = piece[p].status
      <4>1. \A p \in Pieces : IsPiece(piece[p])
        BY DEF ShopInv, Rows, PieceRows
      <4> QED BY <4>1, UnreservedRow DEF Released
    <3> HIDE DEF rows
    <3>3. /\ piece' = [p \in Pieces |-> piece'[p]]
          /\ \A p \in Pieces : piece'[p] = rows[p] \/ piece'[p] = [rows[p] EXCEPT !.source = s]
      BY <2>4, <3>1
    <3>4. \A p \in Pieces : IsPiece(piece'[p]) /\ piece'[p].plate = piece[p].plate /\ piece'[p].status = piece[p].status
      <4> SUFFICES ASSUME NEW p \in Pieces
                   PROVE  IsPiece(piece'[p]) /\ piece'[p].plate = piece[p].plate /\ piece'[p].status = piece[p].status
        OBVIOUS
      <4>1. PICK x, y : x = rows[p] /\ y = piece'[p]
        OBVIOUS
      <4>2. IsPiece(x) /\ (y = x \/ y = [x EXCEPT !.source = s])
        BY <3>2, <3>3, <4>1
      <4>3. IsPiece(y) /\ y.plate = x.plate /\ y.status = x.status
        BY <4>2 DEF IsPiece
      <4> QED BY <3>2, <4>1, <4>3
    <3>5. PICK g : g = piece'
      OBVIOUS
    <3>6. PieceRows' /\ PiecesStay
      BY <3>3, <3>4, <3>5, PiecesWritten
    <3> QED BY <2>1, <3>6, PiecesOnly DEF MayGo, Telling, Tells
  <2> QED BY <2>2, <2>3, <2>4
<1>3. CASE ReleaseSpools(w)
  <2>1. piece' = Released(On(req[w].b, piece)) /\ plate' = plate /\ drawn' = drawn
    BY <1>3 DEF ReleaseSpools
  <2>2. PICK pc : Goto(w, pc) /\ MayGo(req[w].op, pc)
    BY <1>3 DEF ReleaseSpools, ShopInv, Sound, Aims, MayGo, Telling, Tells, Planning
  <2> QED BY <2>1, <2>2, PiecesOnly, ReleasedStay
<1> QED BY <1>1, <1>2, <1>3

\* Steps that write plate b, to a row that is not current unless it was or it is rebooked.
LEMMA PlatesWork ==
  ASSUME ShopInv, NEW w \in Workers, NEW pc, Goto(w, pc), MayGo(req[w].op, pc),
         PieceRows', PiecesStay, drawn' = drawn,
         NEW b, NEW row, IsPlate(row), SetPlate(b, row), row.status # "absent" \/ row.status = plate[b].status,
         Current(row.status) => row.status = plate[b].status \/ Rebooks(req[w], b)
  PROVE  Rows' /\ Kinds
<1>1. /\ PlateRows' /\ NoneAppears
      /\ \A c \in Plates : plate'[c] = plate[c] \/ (c = b /\ plate'[c] = row)
  BY PlateSet DEF ShopInv
<1>2. \A c \in Plates : Current(plate'[c].status) => Current(plate[c].status) \/ Rebooks(req[w], c)
  BY <1>1
<1> QED BY <1>1, <1>2, WorksIs

LEMMA PlateIs ==
  ASSUME ShopInv, NEW b \in Plates
  PROVE  IsPlate(plate[b])
BY DEF ShopInv, Rows, PlateRows

\* The requests that write their plate, and what they make of it.
Writing(w) ==
  \/ AssignWrite(w) \/ FilesWrite(w) \/ ScheduleWrite(w) \/ UnscheduleWrite(w) \/ CompleteWrite(w)
  \/ CancelWrite(w) \/ RestoreWrite(w) \/ ReprintWrite(w)

Sets(r, x, y) ==
  /\ IsPlate(y)
  /\ r.op = "assign" => y.status \in {"ready", "assigned"}
  /\ r.op = "files" => y.status = IF r.to = "none" THEN x.status ELSE r.to
  /\ r.op = "schedule" => y.status = "scheduled" /\ y.from = r.at /\ y.to = r.at + Minutes
  /\ r.op = "cancel" => y.status = "cancelled"
  /\ r.op \in {"unschedule", "complete", "restore", "reprint"} => y.status = r.to
  /\ r.op # "assign" => y.printer = x.printer
  /\ r.op \in {"assign", "files"} => y.from = x.from /\ y.to = x.to
  /\ r.op # "schedule" => y.from \in {x.from, 0} /\ y.to \in {x.to, 0}

LEMMA RowIs ==
  ASSUME ShopInv, NEW w \in Workers, req[w].b \in Plates, Writing(w)
  PROVE  \E row : SetPlate(req[w].b, row) /\ Sets(req[w], plate[req[w].b], row)
<1> DEFINE r == req[w]
<1>1. IsPlate(plate[r.b])
  BY PlateIs
<1>2. CASE AssignWrite(w)
  <2>1. PICK old, x, row : /\ old = plate[r.b]
                           /\ x = [old EXCEPT !.printer = r.printer, !.spec = @ \/ r.to = "spec",
                                              !.tank = IF r.source = None THEN @ ELSE r.source]
                           /\ row = [x EXCEPT !.status = IF Schedulable(x) THEN "ready" ELSE "assigned"]
    OBVIOUS
  <2>2. SetPlate(r.b, row)
    BY <1>2, <2>1 DEF AssignWrite
  <2>3. IsPlate(x) /\ x.from = old.from /\ x.to = old.to
    BY <1>1, <2>1 DEF IsPlate
  <2>4. IsPlate(row) /\ row.status \in {"ready", "assigned"} /\ row.from = x.from /\ row.to = x.to
    BY <2>1, <2>3 DEF IsPlate
  <2>5. r.op = "assign"
    BY <1>2 DEF AssignWrite, At
  <2>6. Sets(r, old, row)
    BY <2>3, <2>4, <2>5 DEF Sets
  <2> QED BY <2>1, <2>2, <2>6
<1>3. CASE FilesWrite(w)
  <2>1. PICK x, row : x = plate[r.b] /\ row = [x EXCEPT !.spec = (r.at = 1), !.tank = r.source,
                                       !.status = IF r.to = "none" THEN @ ELSE r.to]
    OBVIOUS
  <2>2. SetPlate(r.b, row)
    BY <1>3, <2>1 DEF FilesWrite
  <2>3. /\ IsPlate(row) /\ row.status = (IF r.to = "none" THEN x.status ELSE r.to)
        /\ row.printer = x.printer /\ row.from = x.from /\ row.to = x.to
    BY <1>1, <2>1 DEF IsPlate
  <2>4. r.op = "files"
    BY <1>3 DEF FilesWrite, At
  <2>5. Sets(r, x, row)
    BY <2>3, <2>4 DEF Sets
  <2> QED BY <2>1, <2>2, <2>5
<1>4. CASE ScheduleWrite(w)
  <2>1. PICK x, row : x = plate[r.b] /\ row = [x EXCEPT !.status = "scheduled", !.from = r.at, !.to = r.at + Minutes]
    OBVIOUS
  <2>2. SetPlate(r.b, row)
    BY <1>4, <2>1 DEF ScheduleWrite
  <2>3. IsPlate(row) /\ row.status = "scheduled" /\ row.printer = x.printer /\ row.from = r.at /\ row.to = r.at + Minutes
    BY <1>1, <2>1 DEF IsPlate
  <2>4. r.op = "schedule"
    BY <1>4 DEF ScheduleWrite, At
  <2>5. Sets(r, x, row)
    BY <2>3, <2>4 DEF Sets
  <2> QED BY <2>1, <2>2, <2>5
<1>5. CASE CompleteWrite(w)
  <2>1. PICK x, row : x = plate[r.b] /\ row = [x EXCEPT !.status = r.to, !.ran = TRUE]
    OBVIOUS
  <2>2. SetPlate(r.b, row)
    BY <1>5, <2>1 DEF CompleteWrite
  <2>3. IsPlate(row) /\ row.status = r.to /\ row.printer = x.printer /\ row.from = x.from /\ row.to = x.to
    BY <1>1, <2>1 DEF IsPlate
  <2>4. r.op = "complete"
    BY <1>5 DEF CompleteWrite, At
  <2>5. Sets(r, x, row)
    BY <2>3, <2>4 DEF Sets
  <2> QED BY <2>1, <2>2, <2>5
<1>6. CASE UnscheduleWrite(w) \/ CancelWrite(w) \/ RestoreWrite(w) \/ ReprintWrite(w)
  <2>1. PICK x, u, st, row, anew : /\ x = plate[r.b] /\ u = Unbooked(x) /\ st = (IF r.op = "cancel" THEN "cancelled" ELSE r.to)
                                   /\ row = [u EXCEPT !.status = st] /\ anew = [u EXCEPT !.status = st, !.ran = FALSE]
    OBVIOUS
  <2>2. IsPlate(u) /\ u.printer = x.printer /\ u.from = 0 /\ u.to = 0
    BY <1>1, <2>1 DEF IsPlate, Unbooked
  <2>3. /\ IsPlate(row) /\ row.status = st /\ row.printer = x.printer /\ row.from = 0 /\ row.to = 0
        /\ IsPlate(anew) /\ anew.status = st /\ anew.printer = x.printer /\ anew.from = 0 /\ anew.to = 0
    BY <2>1, <2>2 DEF IsPlate
  <2>4. CASE CancelWrite(w)
    <3>1. r.op = "cancel" /\ SetPlate(r.b, row)
      BY <2>1, <2>4 DEF CancelWrite, At
    <3>2. Sets(r, x, row)
      BY <2>1, <2>3, <3>1 DEF Sets
    <3> QED BY <2>1, <3>1, <3>2
  <2>5. CASE UnscheduleWrite(w) \/ RestoreWrite(w) \/ ReprintWrite(w)
    <3>1. r.op \in {"unschedule", "restore", "reprint"}
      BY <2>5 DEF UnscheduleWrite, RestoreWrite, ReprintWrite, At
    <3>2. SetPlate(r.b, row) \/ SetPlate(r.b, anew)
      BY <2>1, <2>5, <3>1 DEF UnscheduleWrite, RestoreWrite, ReprintWrite
    <3>3. Sets(r, x, row) /\ Sets(r, x, anew)
      BY <2>1, <2>3, <3>1 DEF Sets
    <3> QED BY <2>1, <3>2, <3>3
  <2> QED BY <1>6, <2>4, <2>5
<1> QED BY <1>2, <1>3, <1>4, <1>5, <1>6 DEF Writing

LEMMA Writers ==
  ASSUME ShopInv, NEW w \in Workers,
         AssignWrite(w) \/ FilesWrite(w) \/ ScheduleWrite(w) \/ UnscheduleWrite(w) \/ CompleteWrite(w) \/ CancelWrite(w)
  PROVE  Rows' /\ Kinds
<1> DEFINE r == req[w]
<1>1. piece' = piece /\ drawn' = drawn
  BY DEF AssignWrite, FilesWrite, ScheduleWrite, UnscheduleWrite, CompleteWrite, CancelWrite
<1>2. PieceRows' /\ PiecesStay
  BY <1>1, PiecesUnread
<1>3. Aims(r) /\ r.op \in {"assign", "files", "schedule", "unschedule", "complete", "cancel"}
  BY DEF ShopInv, Sound, AssignWrite, FilesWrite, ScheduleWrite, UnscheduleWrite, CompleteWrite, CancelWrite, At
<1>4. PICK pc : Goto(w, pc) /\ MayGo(r.op, pc)
  BY <1>3 DEF AssignWrite, FilesWrite, ScheduleWrite, UnscheduleWrite, CompleteWrite, CancelWrite, At, MayGo, Telling, Tells
<1>5. CASE r.b \notin Plates
  <2>1. plate' = plate
    BY <1>5 DEF AssignWrite, FilesWrite, ScheduleWrite, UnscheduleWrite, CompleteWrite, CancelWrite, SetPlate,
                ShopInv, Rows, PlateRows
  <2> QED BY <1>1, <1>2, <1>3, <1>4, <2>1, PiecesOnly
<1>6. CASE r.b \in Plates
  <2>1. PICK row : SetPlate(r.b, row) /\ Sets(r, plate[r.b], row)
    BY <1>6, RowIs DEF Writing
  <2>2. IsPlate(row) /\ (row.status # "absent" \/ row.status = plate[r.b].status)
    BY <1>3, <2>1 DEF Sets, Aims, Planning
  <2>3. Current(row.status) => row.status = plate[r.b].status \/ Rebooks(r, r.b)
    BY <1>3, <2>1 DEF Sets, Aims, Current, Planning, Busy, Rebooks
  <2> QED BY <1>1, <1>2, <1>3, <1>4, <2>1, <2>2, <2>3, PlatesWork
<1> QED BY <1>5, <1>6

\* A new run: what was drawn counts for the last one.
LEMMA Restarters ==
  ASSUME ShopInv, NEW w \in Workers, RestoreWrite(w) \/ ReprintWrite(w)
  PROVE  Rows' /\ Kinds
<1> DEFINE r == req[w]
<1>1. piece' = piece /\ drawn' = [drawn EXCEPT ![r.b] = 0]
  BY DEF RestoreWrite, ReprintWrite
<1>2. PieceRows' /\ PiecesStay
  BY <1>1, PiecesUnread
<1>3. Aims(r) /\ r.op \in {"restore", "reprint"}
  BY DEF ShopInv, Sound, RestoreWrite, ReprintWrite, At
<1>4. PICK pc : Goto(w, pc) /\ MayGo(r.op, pc)
  BY <1>3 DEF RestoreWrite, ReprintWrite, MayGo, Telling, Tells
<1>5. PlateRows' /\ NoneAppears /\ \A c \in Plates \ {r.b} : plate'[c] = plate[c]
  <2>1. CASE r.b \notin Plates
    <3>1. plate' = plate
      BY <2>1 DEF RestoreWrite, ReprintWrite, SetPlate, ShopInv, Rows, PlateRows
    <3> QED BY <3>1, PlatesUnread
  <2>2. CASE r.b \in Plates
    <3>1. PICK row : SetPlate(r.b, row) /\ Sets(r, plate[r.b], row)
      BY <2>2, RowIs DEF Writing
    <3>2. IsPlate(row) /\ row.status # "absent"
      BY <1>3, <3>1 DEF Sets, Aims, Planning
    <3> QED BY <3>1, <3>2, PlateSet DEF ShopInv
  <2> QED BY <2>1, <2>2
<1>6. RequestRows' /\ OnlyReq(w) /\ GoesOn(req[w], req'[w])
  BY <1>3, <1>4, GotoGoes DEF ShopInv
<1>7. drawn' \in [Plates -> Nat] /\ (\A c \in Plates : c # r.b => drawn'[c] = drawn[c]) /\ (r.b \in Plates => drawn'[r.b] = 0)
  BY <1>1 DEF ShopInv, Rows
<1>8. Works(w)
  BY <1>2, <1>5, <1>6, <1>7 DEF Works
<1> QED BY <1>2, <1>5, <1>6, <1>7, <1>8, RowsThen DEF Kinds

\* A request that goes on with another list of its pieces.
LEMMA ListGoes ==
  ASSUME Rows, NEW w \in Workers, NEW pc, NEW ids, req' = [req EXCEPT ![w].pc = pc, ![w].ids = ids],
         req[w].op \in Tells, pc \in {"draw", "free"}
  PROVE  RequestRows' /\ OnlyReq(w) /\ GoesOn(req[w], req'[w])
<1>1. PICK x, y : x = req[w] /\ y = req'[w]
  OBVIOUS
<1>2. y = [x EXCEPT !.pc = pc, !.ids = ids] /\ \A u \in Workers \ {w} : req'[u] = req[u]
  BY <1>1 DEF Rows, RequestRows
<1>3. IsRequest(x)
  BY <1>1 DEF Rows, RequestRows
<1>4. IsRequest(y) /\ y.pc = pc /\ y.op = x.op /\ y.b = x.b /\ y.to = x.to
  BY <1>2, <1>3 DEF IsRequest
<1>5. req' = [u \in Workers |-> req'[u]]
  BY DEF Rows, RequestRows
<1>6. \A u \in Workers : IsRequest(req'[u])
  BY <1>1, <1>2, <1>4 DEF Rows, RequestRows
<1> QED BY <1>1, <1>2, <1>4, <1>5, <1>6 DEF RequestRows, OnlyReq, GoesOn, MayGo, IsRequest, Telling, Tells

LEMMA Consumers ==
  ASSUME ShopInv, NEW w \in Workers, CompleteLedger(w) \/ CompleteDraw(w)
  PROVE  Rows' /\ Kinds
<1>1. plate' = plate /\ drawn' = drawn
  BY DEF CompleteLedger, CompleteDraw, world
<1>2. PieceRows' /\ PiecesStay
  <2>1. CASE CompleteLedger(w)
    BY <2>1, PiecesUnread DEF CompleteLedger, world
  <2>2. CASE CompleteDraw(w)
    <3>1. PICK S : piece' = Released(S)
      BY <2>2 DEF CompleteDraw
    <3> QED BY <3>1, ReleasedStay
  <2> QED BY <2>1, <2>2
<1>3. PICK pc, ids : req' = [req EXCEPT ![w].pc = pc, ![w].ids = ids] /\ pc \in {"draw", "free"}
  BY DEF CompleteLedger, CompleteDraw
<1>4. req[w].op \in Tells
  BY DEF CompleteLedger, CompleteDraw, At, Tells
<1>5. RequestRows' /\ OnlyReq(w) /\ GoesOn(req[w], req'[w])
  BY <1>3, <1>4, ListGoes DEF ShopInv
<1>6. PlateRows' /\ NoneAppears
  BY <1>1, PlatesUnread
<1>7. Works(w) /\ drawn' \in [Plates -> Nat]
  BY <1>1, <1>2, <1>5, <1>6 DEF Works, ShopInv, Rows
<1> QED BY <1>2, <1>5, <1>6, <1>7, RowsThen DEF Kinds

LEMMA PieceWith ==
  ASSUME NEW x, IsPiece(x), NEW y, NEW v,
         \/ y = [x EXCEPT !.status = v]
         \/ y = [x EXCEPT !.post = v] /\ v \in BOOLEAN
         \/ y = [x EXCEPT !.stamped = v] /\ v \in BOOLEAN
         \/ y = [x EXCEPT !.status = v, !.stamped = TRUE]
  PROVE  IsPiece(y) /\ y.plate = x.plate /\ y.status \in {x.status, v}
<1>1. CASE y = [x EXCEPT !.status = v]
  BY <1>1 DEF IsPiece
<1>2. CASE y = [x EXCEPT !.post = v]
  BY <1>2 DEF IsPiece
<1>3. CASE y = [x EXCEPT !.stamped = v]
  BY <1>3 DEF IsPiece
<1>4. CASE y = [x EXCEPT !.status = v, !.stamped = TRUE]
  BY <1>4 DEF IsPiece
<1> QED BY <1>1, <1>2, <1>3, <1>4

\* Every piece as it was, or written in one of these ways with a status other than deleted.
LEMMA PiecesTold ==
  ASSUME ShopInv, piece' = [p \in Pieces |-> piece'[p]], NEW v, v # "deleted",
         \A p \in Pieces : \/ piece'[p] = piece[p]
                           \/ piece'[p] = [piece[p] EXCEPT !.status = v]
                           \/ piece'[p] = [piece[p] EXCEPT !.post = TRUE]
                           \/ piece'[p] = [piece[p] EXCEPT !.stamped = FALSE]
                           \/ piece'[p] = [piece[p] EXCEPT !.status = v, !.stamped = TRUE]
  PROVE  PieceRows' /\ PiecesStay
<1>1. PICK g : g = piece'
  OBVIOUS
<1>2. ASSUME NEW p \in Pieces
      PROVE  g[p] = piece[p] \/ (IsPiece(g[p]) /\ g[p].plate = piece[p].plate /\ g[p].status \in {piece[p].status, v})
  <2>1. PICK x, y : x = piece[p] /\ y = g[p]
    OBVIOUS
  <2>2. IsPiece(x)
    BY <2>1 DEF ShopInv, Rows, PieceRows
  <2>3. \/ y = x
        \/ y = [x EXCEPT !.status = v]
        \/ y = [x EXCEPT !.post = TRUE]
        \/ y = [x EXCEPT !.stamped = FALSE]
        \/ y = [x EXCEPT !.status = v, !.stamped = TRUE]
    BY <1>1, <2>1
  <2>4. CASE y = [x EXCEPT !.status = v] \/ y = [x EXCEPT !.status = v, !.stamped = TRUE]
    BY <2>1, <2>2, <2>4, PieceWith
  <2>5. CASE y = [x EXCEPT !.post = TRUE] \/ y = [x EXCEPT !.stamped = FALSE]
    BY <2>1, <2>2, <2>5 DEF IsPiece
  <2> QED BY <2>1, <2>3, <2>4, <2>5
<1>3. piece' = g /\ g = [p \in Pieces |-> g[p]]
  BY <1>1
<1>4. \A p \in Pieces : \/ g[p] = piece[p]
                         \/ /\ IsPiece(g[p])
                            /\ \/ g[p].plate = None
                               \/ /\ g[p].plate = piece[p].plate
                                  /\ g[p].status # "deleted" \/ g[p].status = piece[p].status
  BY <1>2
<1> QED BY <1>3, <1>4, PiecesWritten

LEMMA Tellers ==
  ASSUME ShopInv, NEW w \in Workers, Propagate(w) \/ CompletePost(w) \/ ReprintClear(w)
  PROVE  Rows' /\ Kinds
<1> DEFINE r == req[w]
<1>1. plate' = plate /\ drawn' = drawn
  BY DEF Propagate, CompletePost, ReprintClear
<1>2. r.op \in Tells /\ Aims(r)
  BY DEF Propagate, CompletePost, ReprintClear, At, ShopInv, Sound, Aims, Telling, Tells, Planning
<1>3. PICK pc : Goto(w, pc) /\ MayGo(r.op, pc)
  BY <1>2 DEF Propagate, CompletePost, ReprintClear, MayGo, Telling, Tells
<1>4. PieceRows' /\ PiecesStay
  <2>1. CASE Propagate(w)
    <3>1. piece' = [p \in Pieces |-> IF piece[p].plate = r.b THEN [piece[p] EXCEPT !.status = Told(r)] ELSE piece[p]]
      BY <2>1 DEF Propagate
    <3>2. Told(r) # "deleted"
      BY <1>2 DEF Told, Aims, Tells, Telling, Planning
    <3> QED BY <3>1, <3>2, PiecesTold
  <2>2. CASE CompletePost(w)
    <3>0. PICK v : v = "done"
      OBVIOUS
    <3>1. piece' = [p \in Pieces |-> IF piece[p].plate = r.b /\ piece[p].status = "done"
                                     THEN [piece[p] EXCEPT !.post = TRUE] ELSE piece[p]]
      BY <2>2 DEF CompletePost
    <3>2. piece' = [p \in Pieces |-> piece'[p]]
      BY <3>1
    <3>3. \A p \in Pieces : piece'[p] = piece[p] \/ piece'[p] = [piece[p] EXCEPT !.post = TRUE]
      BY <3>1
    <3>4. \A p \in Pieces : \/ piece'[p] = piece[p]
                             \/ piece'[p] = [piece[p] EXCEPT !.status = v]
                             \/ piece'[p] = [piece[p] EXCEPT !.post = TRUE]
                             \/ piece'[p] = [piece[p] EXCEPT !.stamped = FALSE]
                             \/ piece'[p] = [piece[p] EXCEPT !.status = v, !.stamped = TRUE]
      BY <3>3
    <3> QED BY <3>0, <3>2, <3>4, PiecesTold
  <2>3. CASE ReprintClear(w)
    <3>0. PICK v : v = "done"
      OBVIOUS
    <3>1. piece' = [p \in Pieces |-> IF piece[p].plate = r.b THEN [piece[p] EXCEPT !.stamped = FALSE] ELSE piece[p]]
      BY <2>3 DEF ReprintClear
    <3>2. piece' = [p \in Pieces |-> piece'[p]]
      BY <3>1
    <3>3. \A p \in Pieces : piece'[p] = piece[p] \/ piece'[p] = [piece[p] EXCEPT !.stamped = FALSE]
      BY <3>1
    <3>4. \A p \in Pieces : \/ piece'[p] = piece[p]
                             \/ piece'[p] = [piece[p] EXCEPT !.status = v]
                             \/ piece'[p] = [piece[p] EXCEPT !.post = TRUE]
                             \/ piece'[p] = [piece[p] EXCEPT !.stamped = FALSE]
                             \/ piece'[p] = [piece[p] EXCEPT !.status = v, !.stamped = TRUE]
      BY <3>3
    <3> QED BY <3>0, <3>2, <3>4, PiecesTold
  <2> QED BY <2>1, <2>2, <2>3
<1> QED BY <1>1, <1>2, <1>3, <1>4, PiecesOnly

LEMMA GoneIs == IsPlate(Gone) /\ Gone.status = "deleted" /\ IsPlate(NoPlate) /\ NoPlate.status = "absent"
<1>1. PICK x, y : x = NoPlate /\ y = [x EXCEPT !.status = "deleted"]
  OBVIOUS
<1>2. IsPlate(x) /\ x.status = "absent"
  BY <1>1 DEF NoPlate, IsPlate
<1>3. IsPlate(y) /\ y.status = "deleted" /\ y = Gone
  BY <1>1, <1>2 DEF IsPlate, Gone
<1> QED BY <1>1, <1>2, <1>3

LEMMA EmptiedIs ==
  ASSUME NEW x, IsPlate(x)
  PROVE  IsPlate(Emptied(x)) /\ Emptied(x).status \in {"disassembled", "deleted"}
<1>1. PICK u, y : u = Unbooked(x) /\ y = [u EXCEPT !.status = "disassembled", !.printer = None]
  OBVIOUS
<1>2. IsPlate(u)
  BY <1>1 DEF Unbooked, IsPlate
<1>3. IsPlate(y) /\ y.status = "disassembled"
  BY <1>1, <1>2 DEF IsPlate
<1> QED BY <1>1, <1>3, GoneIs DEF Emptied

LEMMA CancelledPlate ==
  ASSUME NEW x, IsPlate(x), NEW y, y = [Unbooked(x) EXCEPT !.status = "cancelled"]
  PROVE  IsPlate(y) /\ y.status = "cancelled"
<1>1. PICK u : u = Unbooked(x)
  OBVIOUS
<1>2. IsPlate(u)
  BY <1>1 DEF Unbooked, IsPlate
<1> QED BY <1>1, <1>2 DEF IsPlate

LEMMA LooseIs ==
  /\ IsPiece(Loose) /\ Loose.plate = None /\ Loose.status = "pending"
  /\ IsPiece(Deleted) /\ Deleted.plate = None /\ Deleted.status = "deleted"
<1>1. PICK x, y : x = Loose /\ y = [x EXCEPT !.status = "deleted"]
  OBVIOUS
<1>2. IsPiece(x) /\ x.plate = None /\ x.status = "pending"
  BY <1>1 DEF Loose, IsPiece
<1>3. IsPiece(y) /\ y.plate = None /\ y.status = "deleted" /\ y = Deleted
  BY <1>1, <1>2 DEF IsPiece, Deleted
<1> QED BY <1>1, <1>2, <1>3

LEMMA Leaving ==
  ASSUME NEW x, IsPiece(x)
  PROVE  /\ IsPiece(Detached(x)) /\ Detached(x).plate = None
         /\ IsPiece(Printed(x)) /\ Printed(x).plate = None
         /\ \A r, to : IsPiece(Requeued(r, to)) /\ Requeued(r, to).plate = None
<1>1. PICK y : y = Detached(x)
  OBVIOUS
<1>2. IsPiece(y) /\ y.plate = None
  BY <1>1 DEF Detached, IsPiece
<1>5. PICK u, v : u = Unreserved(x) /\ v = Printed(x)
  OBVIOUS
<1>6. IsPiece(u) /\ v = [u EXCEPT !.status = "done", !.plate = None, !.post = @ \/ Resin, !.stamped = TRUE]
  BY <1>5, UnreservedRow DEF Printed
<1>7. IsPiece(v) /\ v.plate = None
  BY <1>6 DEF IsPiece
<1>8. ASSUME NEW r, NEW to PROVE IsPiece(Requeued(r, to)) /\ Requeued(r, to).plate = None
  <2>1. PICK l, q : l = Loose /\ q = [l EXCEPT !.status = "assigned", !.printer = r.printer, !.source = r.source]
    OBVIOUS
  <2>2. IsPiece(q) /\ q.plate = None
    BY <2>1, LooseIs DEF IsPiece
  <2> QED BY <2>1, <2>2, LooseIs DEF Requeued
<1> QED BY <1>1, <1>2, <1>5, <1>7, <1>8

\* Pieces that leave, whatever they are called then, or stay as they were.
LEMMA PiecesLeave ==
  ASSUME ShopInv, NEW g, piece' = g, g = [p \in Pieces |-> g[p]],
         \A p \in Pieces : g[p] = piece[p] \/ (IsPiece(g[p]) /\ g[p].plate = None)
  PROVE  PieceRows' /\ PiecesStay
BY PiecesWritten

LEMMA PieceIs ==
  ASSUME ShopInv
  PROVE  \A p \in Pieces : IsPiece(piece[p])
BY DEF ShopInv, Rows, PieceRows

LEMMA Dismantlers ==
  ASSUME ShopInv, NEW w \in Workers, DisassembleTx(w) \/ DeletePlateTx(w)
  PROVE  Rows' /\ Kinds
<1> DEFINE b == req[w].b
<1>1. Goto(w, "idle") /\ drawn' = drawn
  BY DEF DisassembleTx, DeletePlateTx
<1>2. PieceRows' /\ PiecesStay
  <2>1. CASE DisassembleTx(w)
    <3>1. piece' = [p \in Pieces |-> IF piece[p].plate = b
                                     THEN [piece[p] EXCEPT !.plate = None, !.status = "pending"] ELSE piece[p]]
      BY <2>1 DEF DisassembleTx
    <3>2. piece' = [p \in Pieces |-> piece'[p]]
      BY <3>1
    <3>3. ASSUME NEW p \in Pieces PROVE piece'[p] = piece[p] \/ (IsPiece(piece'[p]) /\ piece'[p].plate = None)
      <4>1. PICK x, y : x = piece[p] /\ y = piece'[p]
        OBVIOUS
      <4>2. y = x \/ y = [x EXCEPT !.plate = None, !.status = "pending"]
        BY <3>1, <4>1
      <4>3. IsPiece(x)
        BY <4>1, PieceIs
      <4>4. y = x \/ (IsPiece(y) /\ y.plate = None)
        BY <4>2, <4>3 DEF IsPiece
      <4> QED BY <4>1, <4>4
    <3>4. PICK g : g = piece'
      OBVIOUS
    <3> QED BY <3>2, <3>3, <3>4, PiecesLeave
  <2>2. CASE DeletePlateTx(w)
    <3>1. piece' = [p \in Pieces |-> IF piece[p].plate = b THEN Deleted ELSE piece[p]]
      BY <2>2 DEF DeletePlateTx
    <3>2. PICK g : piece' = g /\ g = [p \in Pieces |-> g[p]] /\ \A p \in Pieces : g[p] \in {piece[p], Deleted}
      BY <3>1
    <3> QED BY <3>2, LooseIs, PiecesLeave
  <2> QED BY <2>1, <2>2
<1>3. CASE b \notin Plates
  <2>1. plate' = plate
    <3>1. PICK row : SetPlate(b, row)
      BY DEF DisassembleTx, DeletePlateTx
    <3> QED BY <1>3, <3>1 DEF SetPlate, ShopInv, Rows, PlateRows
  <2> QED BY <1>1, <1>2, <2>1, PiecesOnly DEF MayGo, Telling, Tells
<1>4. CASE b \in Plates
  <2>1. PICK row : SetPlate(b, row) /\ row \in {Emptied(plate[b]), Gone}
    BY DEF DisassembleTx, DeletePlateTx
  <2>2. IsPlate(row) /\ row.status \in {"disassembled", "deleted"}
    BY <1>4, <2>1, PlateIs, EmptiedIs, GoneIs
  <2> QED BY <1>1, <1>2, <2>1, <2>2, PlatesWork DEF MayGo, Current, Planning, Busy, Telling, Tells
<1> QED BY <1>3, <1>4

\* The piece gone, the others as they were.
LEMMA GoneFrom ==
  ASSUME ShopInv, NEW r
  PROVE  LET rows == Removed(r)
         IN  /\ rows = [p \in Pieces |-> rows[p]]
             /\ \A p \in Pieces : \/ rows[p] = piece[p] \/ rows[p] = Deleted
                                  \/ /\ IsPiece(rows[p]) /\ rows[p].plate = piece[p].plate
                                     /\ rows[p].status = "cancelled"
<1> DEFINE q == r.p
           x == piece[q]
           y == [Unreserved(x) EXCEPT !.status = "cancelled"]
<1>1. Removed(r) = [piece EXCEPT ![q] = IF x.status = "deleted" \/ r.to = "delete" THEN Deleted ELSE y]
  BY DEF Removed
<1>2. ASSUME q \in Pieces PROVE IsPiece(y) /\ y.plate = x.plate /\ y.status = "cancelled"
  <2>1. PICK u, v : u = Unreserved(x) /\ v = y
    OBVIOUS
  <2>2. IsPiece(u) /\ u.plate = x.plate
    BY <1>2, <2>1, PieceIs, UnreservedRow
  <2>3. IsPiece(v) /\ v.plate = u.plate /\ v.status = "cancelled"
    BY <2>1, <2>2 DEF IsPiece
  <2> QED BY <2>1, <2>2, <2>3
<1>3. piece = [p \in Pieces |-> piece[p]]
  BY DEF ShopInv, Rows, PieceRows
<1> HIDE DEF y
<1> QED BY <1>1, <1>2, <1>3

LEMMA Removers ==
  ASSUME ShopInv, NEW w \in Workers, RemoveTx(w)
  PROVE  Rows' /\ Kinds
<1> DEFINE r == req[w]
           b == PlateOfRemoval(r)
           rows == Removed(r)
           after == IF b = None THEN [plate |-> NoPlate, rows |-> rows] ELSE Reevaluated(b, rows)
<1>1. Goto(w, "idle") /\ drawn' = drawn
  BY DEF RemoveTx
<1>2. CASE piece' = piece /\ plate' = plate
  BY <1>1, <1>2, PiecesOnly, PiecesUnread DEF MayGo, Telling, Tells
<1>3. CASE ~(piece' = piece /\ plate' = plate)
  <2>1. piece' = after.rows /\ IF b = None THEN plate' = plate ELSE SetPlate(b, after.plate)
    BY <1>3 DEF RemoveTx
  <2>2. rows = [p \in Pieces |-> rows[p]]
        /\ \A p \in Pieces : \/ rows[p] = piece[p] \/ rows[p] = Deleted
                             \/ IsPiece(rows[p]) /\ rows[p].plate = piece[p].plate /\ rows[p].status = "cancelled"
    BY GoneFrom
  <2> HIDE DEF rows
  <2>3. \A p \in Pieces : IsPiece(rows[p])
    BY <2>2, PieceIs, LooseIs
  <2>4. \/ after.rows = rows
        \/ \E S : after.rows = [p \in Pieces |-> IF p \in S THEN Detached(rows[p]) ELSE rows[p]]
    <3>1. CASE b = None
      BY <3>1
    <3>2. CASE b # None
      <4> DEFINE kids == On(b, rows)
      <4>1. \/ Reevaluated(b, rows).rows = rows
            \/ Reevaluated(b, rows).rows = [p \in Pieces |-> IF p \in kids THEN Detached(rows[p]) ELSE rows[p]]
        BY DEF Reevaluated
      <4> QED BY <3>2, <4>1
    <3> QED BY <3>1, <3>2
  <2>5. PieceRows' /\ PiecesStay
    <3>1. PICK g : g = piece'
      OBVIOUS
    <3>2. piece' = g /\ g = [p \in Pieces |-> g[p]]
      BY <2>1, <2>2, <2>4, <3>1
    <3>3. ASSUME NEW p \in Pieces
          PROVE  \/ g[p] = piece[p]
                 \/ /\ IsPiece(g[p])
                    /\ \/ g[p].plate = None
                       \/ /\ g[p].plate = piece[p].plate
                          /\ g[p].status # "deleted" \/ g[p].status = piece[p].status
      <4>1. g[p] = rows[p] \/ g[p] = Detached(rows[p])
        BY <2>1, <2>4, <3>1
      <4>2. IsPiece(Detached(rows[p])) /\ Detached(rows[p]).plate = None
        BY <2>3, Leaving
      <4> QED BY <2>2, <2>3, <4>1, <4>2, LooseIs
    <3> QED BY <3>2, <3>3, PiecesWritten
  <2>6. CASE plate' = plate
    BY <1>1, <2>5, <2>6, PiecesOnly DEF MayGo, Telling, Tells
  <2>7. CASE b # None /\ b \in Plates
    <3>1. PICK row : row = after.plate
      OBVIOUS
    <3>2. SetPlate(b, row)
      BY <2>1, <2>7, <3>1
    <3>3. row = Gone \/ row = [Unbooked(plate[b]) EXCEPT !.status = "cancelled"] \/ row = Emptied(plate[b])
      BY <2>7, <3>1 DEF Reevaluated
    <3>4. IsPlate(row) /\ row.status \in {"disassembled", "deleted", "cancelled"}
      BY <2>7, <3>3, PlateIs, EmptiedIs, GoneIs, CancelledPlate
    <3> QED BY <1>1, <2>5, <3>2, <3>4, PlatesWork DEF MayGo, Current, Planning, Busy, Telling, Tells
  <2>8. CASE b \notin Plates
    <3>1. plate' = plate
      BY <2>1, <2>8 DEF SetPlate, ShopInv, Rows, PlateRows
    <3> QED BY <2>6, <3>1
  <2> QED BY <2>1, <2>6, <2>7, <2>8
<1> QED BY <1>2, <1>3


LEMMA Creators ==
  ASSUME ShopInv, NEW w \in Workers, CreateTx(w)
  PROVE  Rows' /\ Kinds
<1> DEFINE r == req[w]
<1>1. r.op = "create" /\ Goto(w, "idle") /\ drawn' = drawn
  BY DEF CreateTx, At
<1>2. r.b \in Plates
  BY <1>1 DEF ShopInv, Sound
<1>3. RequestRows' /\ OnlyReq(w) /\ req'[w] = Idle
  BY <1>1, GotoGoes DEF ShopInv, MayGo, Telling, Tells
<1>4. PICK new : /\ new = [NoPlate EXCEPT !.status = "pending"] /\ plate' = [plate EXCEPT ![r.b] = new]
                 /\ IsPlate(new) /\ new.status = "pending"
  <2>1. PICK x, y : x = NoPlate /\ y = [x EXCEPT !.status = "pending"]
    OBVIOUS
  <2>2. IsPlate(y) /\ y.status = "pending"
    BY <2>1, GoneIs DEF IsPlate
  <2> QED BY <2>1, <2>2 DEF CreateTx
<1>5. PlateRows' /\ plate'[r.b] = new /\ \A b \in Plates : b # r.b => plate'[b] = plate[b]
  <2>1. plate' = [b \in Plates |-> plate'[b]] /\ plate'[r.b] = new /\ \A b \in Plates : b # r.b => plate'[b] = plate[b]
    BY <1>2, <1>4 DEF ShopInv, Rows, PlateRows
  <2>2. \A b \in Plates : IsPlate(plate'[b])
    BY <1>4, <2>1, PlateIs
  <2> QED BY <2>1, <2>2 DEF PlateRows, IsPlate
<1>6. piece' = [p \in Pieces |-> IF p \in r.ids /\ piece[p].status # "deleted"
                                 THEN [piece[p] EXCEPT !.plate = r.b, !.status = "pending", !.printer = None]
                                 ELSE piece[p]]
  BY DEF CreateTx
<1>7. ASSUME NEW p \in Pieces
      PROVE  /\ IsPiece(piece'[p]) /\ piece'[p].plate \in {piece[p].plate, r.b}
             /\ piece'[p].status = "deleted" => piece'[p].plate = None
  <2>1. PICK x, y : x = piece[p] /\ y = piece'[p]
    OBVIOUS
  <2>2. y = x \/ y = [x EXCEPT !.plate = r.b, !.status = "pending", !.printer = None]
    BY <1>6, <2>1
  <2>3. IsPiece(x) /\ (x.status = "deleted" => x.plate = None)
    BY <2>1, PieceIs DEF ShopInv
  <2>4. y = x \/ (IsPiece(y) /\ y.plate = r.b /\ y.status = "pending")
    BY <2>2, <2>3 DEF IsPiece
  <2> QED BY <2>1, <2>3, <2>4
<1>8. PieceRows'
  <2>1. piece' = [p \in Pieces |-> piece'[p]]
    BY <1>6
  <2> QED BY <1>7, <2>1 DEF PieceRows, IsPiece
<1>9. Creates(w)
  BY <1>1, <1>2, <1>3, <1>4, <1>5, <1>7 DEF Creates
<1>10. drawn' \in [Plates -> Nat]
  BY <1>1 DEF ShopInv, Rows
<1> QED BY <1>3, <1>5, <1>8, <1>9, <1>10, RowsThen DEF Kinds

LEMMA Triagers ==
  ASSUME ShopInv, NEW w \in Workers, TriageTx(w)
  PROVE  Rows' /\ Kinds
<1> DEFINE r == req[w]
<1>1. r.op = "triage" /\ Goto(w, "idle")
  BY DEF TriageTx, At
<1>2. r.b \in Plates
  BY <1>1 DEF ShopInv, Sound
<1>3. CASE ~Claimed(r.b)
  <2>1. piece' = piece /\ plate' = plate /\ drawn' = drawn
    BY <1>3 DEF TriageTx, world
  <2> QED BY <1>1, <2>1, PiecesOnly, PiecesUnread DEF MayGo, Telling, Tells
<1>4. CASE Claimed(r.b)
  <2>1. PICK verdict, to, cost : Settle(r, verdict, to, cost)
    BY <1>4 DEF TriageTx
  <2>2. RequestRows' /\ OnlyReq(w) /\ req'[w] = Idle
    BY <1>1, GotoGoes DEF ShopInv, MayGo, Telling, Tells
  <2>3. PICK st : /\ st \in {"done", "failed"}
                  /\ plate' = [plate EXCEPT ![r.b].status = st, ![r.b].ran = TRUE]
    BY <2>1 DEF Settle
  <2>4. PICK x, y : x = plate[r.b] /\ y = plate'[r.b]
    OBVIOUS
  <2>5. /\ y = [x EXCEPT !.status = st, !.ran = TRUE] /\ plate' = [b \in Plates |-> plate'[b]]
        /\ \A b \in Plates : b # r.b => plate'[b] = plate[b]
    BY <1>2, <2>3, <2>4 DEF ShopInv, Rows, PlateRows
  <2>6. IsPlate(x) /\ IsPlate(y) /\ y.status = st
    BY <1>2, <2>4, <2>5, PlateIs DEF IsPlate
  <2>7. PlateRows' /\ NoneAppears
    <3>1. \A b \in Plates : IsPlate(plate'[b])
      <4>1. \A b \in Plates : b # r.b => IsPlate(plate'[b])
        BY <2>5, PlateIs
      <4>2. IsPlate(plate'[r.b])
        BY <2>4, <2>6
      <4> QED BY <4>1, <4>2
    <3>2. x.status # "absent"
      BY <1>4, <2>4 DEF Claimed, Busy
    <3> QED BY <2>3, <2>4, <2>5, <2>6, <3>1, <3>2 DEF PlateRows, IsPlate, NoneAppears
  <2>8. piece' = [p \in Pieces |-> IF p \notin r.ids \/ piece[p].status = "deleted" THEN piece[p]
                                   ELSE IF verdict[p] = "done" THEN Printed(piece[p])
                                   ELSE Requeued(r, to[verdict[p]])]
    BY <2>1 DEF Settle, Dismantled
  <2>9. \A p \in Pieces : piece'[p] = piece[p] \/ (IsPiece(piece'[p]) /\ piece'[p].plate = None)
    BY <2>8, PieceIs, Leaving
  <2>10. PieceRows' /\ PiecesStay
    <3>1. PICK g : g = piece'
      OBVIOUS
    <3>2. piece' = g /\ g = [p \in Pieces |-> g[p]]
      BY <2>8, <3>1
    <3> QED BY <2>9, <3>1, <3>2, PiecesLeave
  <2>11. ASSUME NEW p \in Pieces, p \in r.ids PROVE piece'[p].plate = None
    BY <2>8, <2>11, PieceIs, Leaving DEF ShopInv
  <2>12. /\ drawn' \in [Plates -> Nat] /\ drawn'[r.b] \in {drawn[r.b], drawn[r.b] + 1}
         /\ \A b \in Plates : b # r.b => drawn'[b] = drawn[b]
    <3>1. PICK d : d \in {0, 1} /\ drawn' = [drawn EXCEPT ![r.b] = @ + d]
      BY <2>1 DEF Settle
    <3>2. drawn \in [Plates -> Nat]
      BY DEF ShopInv, Rows
    <3> QED BY <1>2, <3>1, <3>2
  <2>13. Current(x.status) /\ ~Current(y.status)
    BY <1>4, <2>3, <2>4, <2>6 DEF Claimed, Current, Planning, Busy
  <2>14. Draws(w)
    BY <1>1, <1>2, <2>2, <2>4, <2>5, <2>7, <2>10, <2>11, <2>12, <2>13 DEF Draws
  <2> QED BY <2>2, <2>7, <2>10, <2>12, <2>14, RowsThen DEF Kinds
<1> QED BY <1>3, <1>4

LEMMA WorkKept ==
  ASSUME ShopInv, NEW w \in Workers, Proceed(w) \/ RequestFails(w)
  PROVE  Rows' /\ Kinds
BY Others, Writers, Restarters, Consumers, Tellers, Dismantlers, Removers, Creators, Triagers DEF Proceed
(* The requests that begin. *)

\* What a request has found when it begins.
Found(r) ==
  /\ IsRequest(r) /\ Aims(r) /\ r.at \in Nat /\ r.pc \in {"tx", "write", "check"}
  /\ r.op \in {"create", "triage"} => r.pc = "tx" /\ r.b \in Plates
  /\ r.op = "create" => /\ plate[r.b].status = "absent"
                        /\ \A v \in Workers : req[v].op = "create" => req[v].b # r.b
  /\ r.op = "triage" => plate[r.b].status # "absent" /\ On(r.b, piece) # {} /\ r.ids = On(r.b, piece)
  /\ r.op = "assign" => plate[r.b].status \in Planning
  /\ r.op = "files" /\ r.to # "none" => plate[r.b].status \in {"assigned", "ready"}
  /\ r.op = "unschedule" => plate[r.b].status = "scheduled"
  /\ r.op = "schedule" => /\ r.pc = "check" /\ plate[r.b].status \in {"ready", "scheduled"}
                          /\ r.printer = plate[r.b].printer /\ r.printer # None
  /\ r.op \in Tells => r.b \in Plates

Opens(w, r) ==
  /\ req[w] = Idle /\ req' = [req EXCEPT ![w] = r]
  /\ plate' = plate /\ piece' = piece /\ clock' = clock /\ drawn' = drawn
  /\ Found(r)

LEMMA Opened ==
  ASSUME NEW w, NEW route, NEW r, Begin(w, route, r), Found(r)
  PROVE  Opens(w, r)
BY DEF Begin, Opens, world

LEMMA LoadIs ==
  ASSUME NEW op, NEW b, NEW pc
  PROVE  LET r == Load(op, b, pc)
         IN  /\ IsRequest(r) /\ r.op = op /\ r.b = b /\ r.pc = pc /\ r.to = "none" /\ r.at = 0
             /\ r.printer = plate[b].printer
<1>1. PICK i, r : i = Idle /\ r = [i EXCEPT !.op = op, !.b = b, !.pc = pc, !.printer = plate[b].printer,
                                             !.source = plate[b].tank]
  OBVIOUS
<1>2. IsRequest(i) /\ i.to = "none" /\ i.at = 0
  BY <1>1 DEF Idle, IsRequest
<1>3. IsRequest(r) /\ r.op = op /\ r.b = b /\ r.pc = pc /\ r.to = "none" /\ r.at = 0 /\ r.printer = plate[b].printer
  BY <1>1, <1>2 DEF IsRequest
<1> QED BY <1>1, <1>3 DEF Load

LEMMA PlanOpens ==
  ASSUME NEW w, NEW b, NEW pr, NEW tank, NEW spec, Assign(w, b, pr, tank, spec) \/ Files(w, b, spec, tank)
  PROVE  \E r : Opens(w, r)
<1>1. CASE Assign(w, b, pr, tank, spec)
  <2>1. PICK l, t, to, r : /\ l = Load("assign", b, "write") /\ r = [l EXCEPT !.printer = pr, !.source = t, !.to = to]
                           /\ Begin(w, "assign", r)
    BY <1>1 DEF Assign
  <2>2. IsRequest(l) /\ l.op = "assign" /\ l.b = b /\ l.pc = "write" /\ l.at = 0
    BY <2>1, LoadIs
  <2>3. IsRequest(r) /\ r.op = "assign" /\ r.b = b /\ r.pc = "write" /\ r.at = 0
    BY <2>1, <2>2 DEF IsRequest
  <2>4. plate[r.b].status \in Planning
    BY <1>1, <2>3 DEF Assign, Planning
  <2>5. Found(r)
    BY <2>3, <2>4 DEF Found, Aims, Telling, Tells
  <2> QED BY <2>1, <2>5, Opened
<1>2. CASE Files(w, b, spec, tank)
  <2>1. PICK at, to : /\ at = (IF spec THEN 1 ELSE 0)
                      /\ to \in {"none", "assigned", "ready"} /\ (to # "none" => plate[b].status \in {"assigned", "ready"})
                      /\ Begin(w, "files", [Load("files", b, "write") EXCEPT !.source = tank, !.at = at, !.to = to])
    BY <1>2 DEF Files
  <2>2. PICK l, r : l = Load("files", b, "write") /\ r = [l EXCEPT !.source = tank, !.at = at, !.to = to]
    OBVIOUS
  <2>3. IsRequest(l) /\ l.op = "files" /\ l.b = b /\ l.pc = "write"
    BY <2>2, LoadIs
  <2>4. IsRequest(r) /\ r.op = "files" /\ r.b = b /\ r.pc = "write" /\ r.at = at /\ r.to = to
    BY <2>2, <2>3 DEF IsRequest
  <2>5. Found(r)
    BY <2>1, <2>4 DEF Found, Aims, Telling, Tells
  <2>6. Begin(w, "files", r)
    BY <2>1, <2>2
  <2> QED BY <2>5, <2>6, Opened
<1> QED BY <1>1, <1>2

LEMMA BookOpens ==
  ASSUME NEW w, NEW b \in Plates, NEW s, NEW t \in Nat, Reserve(w, b, s) \/ Schedule(w, b, t)
  PROVE  \E r : Opens(w, r)
<1>1. CASE Reserve(w, b, s)
  <2>1. PICK l, p, r : /\ l = Load("reserve", b, "tx") /\ r = [l EXCEPT !.source = s, !.p = p]
                       /\ Begin(w, "reserve", r)
    BY <1>1 DEF Reserve
  <2>2. IsRequest(l) /\ l.op = "reserve" /\ l.pc = "tx" /\ l.at = 0
    BY <2>1, LoadIs
  <2>3. IsRequest(r) /\ r.op = "reserve" /\ r.pc = "tx" /\ r.at = 0
    BY <2>1, <2>2 DEF IsRequest
  <2>4. Found(r)
    BY <2>3 DEF Found, Aims, Telling, Tells
  <2> QED BY <2>1, <2>4, Opened
<1>2. CASE Schedule(w, b, t)
  <2>1. PICK l, to, r : /\ l = Load("schedule", b, "check") /\ r = [l EXCEPT !.at = t, !.to = to]
                        /\ Begin(w, "schedule", r)
    BY <1>2 DEF Schedule
  <2>2. IsRequest(l) /\ l.op = "schedule" /\ l.b = b /\ l.pc = "check" /\ l.printer = plate[b].printer
    BY <2>1, LoadIs
  <2>3. IsRequest(r) /\ r.op = "schedule" /\ r.b = b /\ r.pc = "check" /\ r.at = t /\ r.printer = plate[b].printer
    BY <2>1, <2>2 DEF IsRequest
  <2>4. plate[b].printer # None /\ plate[b].status \in {"ready", "scheduled"}
    BY <1>2 DEF Schedule, Schedulable
  <2>5. Found(r)
    BY <2>3, <2>4 DEF Found, Aims, Telling, Tells
  <2> QED BY <2>1, <2>5, Opened
<1> QED BY <1>1, <1>2

\* The requests that carry no more than where the plate is to go.
Sends(l, r) == r = l \/ \E to : r = [l EXCEPT !.to = to]

Heads(op, b, to) ==
  \/ op \in {"delete", "cancel", "disassemble"}
  \/ op = "complete" /\ to \in {"done", "failed"}
  \/ op \in {"restore", "reprint"} /\ to \in Planning
  \/ op = "unschedule" /\ to \in Planning /\ plate[b].status = "scheduled"

LEMMA LoadOpens ==
  ASSUME NEW w, NEW b \in Plates, NEW op, NEW pc, NEW l, NEW r, l = Load(op, b, pc), Sends(l, r), Begin(w, op, r),
         Heads(op, b, r.to), pc \in {"write", "tx"}
  PROVE  Opens(w, r)
<1>1. IsRequest(l) /\ l.op = op /\ l.b = b /\ l.pc = pc /\ l.at = 0
  BY LoadIs
<1>2. IsRequest(r) /\ r.op = op /\ r.b = b /\ r.pc = pc /\ r.at = 0
  BY <1>1 DEF Sends, IsRequest
<1>3. Aims(r)
  BY <1>2 DEF Aims, Telling, Heads
<1>4. Found(r)
  BY <1>2, <1>3 DEF Found, Heads
<1> QED BY <1>4, Opened

LEMMA SettleOpens ==
  ASSUME NEW w, NEW b \in Plates, NEW outcome \in {"done", "failed"},
         \/ Unschedule(w, b) \/ Complete(w, b, outcome) \/ Cancel(w, b) \/ Restore(w, b) \/ Reprint(w, b)
         \/ Disassemble(w, b) \/ DeletePlate(w, b)
  PROVE  \E r : Opens(w, r)
<1>1. CASE Unschedule(w, b)
  <2>1. PICK l, to, r : /\ l = Load("unschedule", b, "write") /\ to \in {"ready", "assigned"} /\ r = [l EXCEPT !.to = to]
                        /\ Begin(w, "unschedule", r) /\ plate[b].status = "scheduled"
    BY <1>1 DEF Unschedule
  <2>2. IsRequest(l)
    BY <2>1, LoadIs
  <2>3. Sends(l, r) /\ r.to = to
    BY <2>1, <2>2 DEF Sends, IsRequest
  <2>4. Heads("unschedule", b, r.to)
    BY <2>1, <2>3 DEF Heads, Planning
  <2>5. Opens(w, r)
    BY <2>1, <2>3, <2>4, LoadOpens
  <2> QED BY <2>5
<1>2. CASE Complete(w, b, outcome)
  <2>1. PICK l, to, r : /\ l = Load("complete", b, "write") /\ to \in {outcome} /\ r = [l EXCEPT !.to = to]
                        /\ Begin(w, "complete", r)
    BY <1>2 DEF Complete
  <2>2. IsRequest(l)
    BY <2>1, LoadIs
  <2>3. Sends(l, r) /\ r.to = to
    BY <2>1, <2>2 DEF Sends, IsRequest
  <2>4. Heads("complete", b, r.to)
    BY <2>1, <2>3 DEF Heads, Planning
  <2>5. Opens(w, r)
    BY <2>1, <2>3, <2>4, LoadOpens
  <2> QED BY <2>5
<1>3. CASE Restore(w, b)
  <2>1. PICK l, to, r : /\ l = Load("restore", b, "write") /\ to \in {"ready", "assigned", "pending"} /\ r = [l EXCEPT !.to = to]
                        /\ Begin(w, "restore", r)
    BY <1>3 DEF Restore, BackTo
  <2>2. IsRequest(l)
    BY <2>1, LoadIs
  <2>3. Sends(l, r) /\ r.to = to
    BY <2>1, <2>2 DEF Sends, IsRequest
  <2>4. Heads("restore", b, r.to)
    BY <2>1, <2>3 DEF Heads, Planning
  <2>5. Opens(w, r)
    BY <2>1, <2>3, <2>4, LoadOpens
  <2> QED BY <2>5
<1>4. CASE Reprint(w, b)
  <2>1. PICK l, to, r : /\ l = Load("reprint", b, "write") /\ to \in {"ready", "assigned", "pending"} /\ r = [l EXCEPT !.to = to]
                        /\ Begin(w, "reprint", r)
    BY <1>4 DEF Reprint, BackTo
  <2>2. IsRequest(l)
    BY <2>1, LoadIs
  <2>3. Sends(l, r) /\ r.to = to
    BY <2>1, <2>2 DEF Sends, IsRequest
  <2>4. Heads("reprint", b, r.to)
    BY <2>1, <2>3 DEF Heads, Planning
  <2>5. Opens(w, r)
    BY <2>1, <2>3, <2>4, LoadOpens
  <2> QED BY <2>5
<1>5. CASE DeletePlate(w, b)
  <2>1. PICK l, r : l = Load("delete", b, "tx") /\ Sends(l, r) /\ Begin(w, "delete", r)
    BY <1>5 DEF DeletePlate, Sends
  <2>2. Opens(w, r)
    BY <2>1, LoadOpens DEF Heads
  <2> QED BY <2>2
<1>6. CASE Cancel(w, b)
  <2>1. PICK l : l = Load("cancel", b, "write") /\ Sends(l, l) /\ Begin(w, "cancel", l)
    BY <1>6 DEF Cancel, Sends
  <2>2. Opens(w, l)
    BY <2>1, LoadOpens DEF Heads
  <2> QED BY <2>2
<1>7. CASE Disassemble(w, b)
  <2>1. PICK l : l = Load("disassemble", b, "tx") /\ Sends(l, l) /\ Begin(w, "disassemble", l)
    BY <1>7 DEF Disassemble, Sends
  <2>2. Opens(w, l)
    BY <2>1, LoadOpens DEF Heads
  <2> QED BY <2>2
<1> QED BY <1>1, <1>2, <1>3, <1>4, <1>5, <1>6, <1>7

LEMMA ListOpens ==
  ASSUME NEW w, NEW b, NEW S, NEW p, NEW how,
         how \in {"cancel", "delete"},
         (b \in Plates /\ (Create(w, b, S) \/ Triage(w, b))) \/ Remove(w, p, how)
  PROVE  \E r : Opens(w, r)
<1>1. CASE b \in Plates /\ Create(w, b, S)
  <2>1. PICK i, r : i = Idle /\ r = [i EXCEPT !.op = "create", !.b = b, !.ids = S, !.pc = "tx"]
    OBVIOUS
  <2>2. IsRequest(i) /\ i.at = 0
    BY <2>1 DEF Idle, IsRequest
  <2>3. IsRequest(r) /\ r.op = "create" /\ r.b = b /\ r.pc = "tx" /\ r.at = 0
    BY <2>1, <2>2 DEF IsRequest
  <2>4. /\ Begin(w, "create", r) /\ plate[b].status = "absent"
        /\ \A v \in Workers : req[v].op = "create" => req[v].b # b
    BY <1>1, <2>1 DEF Create
  <2>5. Found(r)
    BY <1>1, <2>3, <2>4 DEF Found, Aims, Telling, Tells
  <2> QED BY <2>4, <2>5, Opened
<1>2. CASE b \in Plates /\ Triage(w, b)
  <2>1. PICK l, ids, r : l = Load("triage", b, "tx") /\ ids = On(b, piece) /\ r = [l EXCEPT !.ids = ids]
    OBVIOUS
  <2>2. IsRequest(l) /\ l.op = "triage" /\ l.b = b /\ l.pc = "tx" /\ l.at = 0
    BY <2>1, LoadIs
  <2>3. IsRequest(r) /\ r.op = "triage" /\ r.b = b /\ r.pc = "tx" /\ r.at = 0 /\ r.ids = ids
    BY <2>1, <2>2 DEF IsRequest
  <2>4. Begin(w, "triage", r) /\ plate[b].status # "absent" /\ ids # {}
    BY <1>2, <2>1 DEF Triage, Busy
  <2>5. On(r.b, piece) = ids
    BY <2>1, <2>3
  <2>6. Found(r)
    BY <1>2, <2>3, <2>4, <2>5 DEF Found, Aims, Telling, Tells
  <2> QED BY <2>4, <2>6, Opened
<1>3. CASE Remove(w, p, how)
  <2>1. PICK i, c, r : i = Idle /\ c = piece[p].plate
                       /\ r = [i EXCEPT !.op = "remove", !.pc = "tx", !.p = p, !.to = how, !.b = c]
    OBVIOUS
  <2>2. IsRequest(i) /\ i.at = 0
    BY <2>1 DEF Idle, IsRequest
  <2>3. IsRequest(r) /\ r.op = "remove" /\ r.pc = "tx" /\ r.at = 0 /\ r.to = how
    BY <2>1, <2>2 DEF IsRequest
  <2>4. Begin(w, "remove", r)
    BY <1>3, <2>1 DEF Remove
  <2>5. Found(r)
    BY <2>3 DEF Found, Aims, Telling, Tells
  <2> QED BY <2>4, <2>5, Opened
<1> QED BY <1>1, <1>2, <1>3

\* The one call that is done at once.
Releases(b) ==
  plate' = plate /\ req' = req /\ clock' = clock /\ drawn' = drawn /\ piece' = Released(On(b, piece))

LEMMA CallIs ==
  ASSUME NEW w \in Workers, Call(w)
  PROVE  (\E r : Opens(w, r)) \/ (req[w] = Idle /\ \E b \in Plates : Releases(b))
<1>1. ASSUME NEW b, Release(w, b) PROVE req[w] = Idle /\ Releases(b)
  BY <1>1 DEF Release, Releases
<1>2. ASSUME NEW b \in Plates, NEW t \in 0..MaxTime, Schedule(w, b, t) PROVE \E r : Opens(w, r)
  BY <1>2, BookOpens
<1>3. ASSUME NEW b \in Plates, NEW s \in Stocks, Reserve(w, b, s) PROVE \E r : Opens(w, r)
  <2>1. 0 \in Nat
    OBVIOUS
  <2> QED BY <1>3, <2>1, BookOpens
<1>4. ASSUME NEW p, NEW how \in {"cancel", "delete"}, Remove(w, p, how) PROVE \E r : Opens(w, r)
  BY <1>4, ListOpens
<1>5. ASSUME NEW b \in Plates, Triage(w, b) \/ \E S \in Batches : Create(w, b, S) PROVE \E r : Opens(w, r)
  <2>1. "cancel" \in {"cancel", "delete"}
    OBVIOUS
  <2> QED BY <1>5, <2>1, ListOpens
<1>6. ASSUME NEW b \in Plates,
             \/ Unschedule(w, b) \/ (\E outcome \in {"done", "failed"} : Complete(w, b, outcome))
             \/ Cancel(w, b) \/ Restore(w, b) \/ Reprint(w, b) \/ Disassemble(w, b) \/ DeletePlate(w, b)
      PROVE  \E r : Opens(w, r)
  <2>1. "done" \in {"done", "failed"}
    OBVIOUS
  <2> QED BY <1>6, <2>1, SettleOpens
<1>7. ASSUME NEW b \in Plates,
             \/ \E pr \in Printers, tank \in Stocks \cup {None}, spec \in BOOLEAN : Assign(w, b, pr, tank, spec)
             \/ \E spec \in BOOLEAN, tank \in Stocks \cup {None} : Files(w, b, spec, tank)
      PROVE  \E r : Opens(w, r)
  BY <1>7, PlanOpens
<1> QED BY <1>1, <1>2, <1>3, <1>4, <1>5, <1>6, <1>7 DEF Call

LEMMA Begun ==
  ASSUME ShopInv, NEW w \in Workers, NEW r, Opens(w, r)
  PROVE  Rows' /\ Kinds
<1>1. /\ req[w] = Idle /\ req' = [req EXCEPT ![w] = r] /\ piece' = piece /\ plate' = plate /\ drawn' = drawn
      /\ Found(r)
  BY DEF Opens
<1>2. req' = [u \in Workers |-> req'[u]] /\ req'[w] = r /\ \A u \in Workers \ {w} : req'[u] = req[u]
  BY <1>1 DEF ShopInv, Rows, RequestRows
<1>3. RequestRows'
  <2>1. \A u \in Workers : IsRequest(req'[u])
    BY <1>1, <1>2 DEF ShopInv, Rows, RequestRows, Found
  <2> QED BY <1>2, <2>1 DEF RequestRows, IsRequest
<1>4. PieceRows' /\ PiecesStay /\ PlateRows' /\ NoneAppears
  BY <1>1, PiecesUnread, PlatesUnread
<1>5. drawn' \in [Plates -> Nat]
  BY <1>1 DEF ShopInv, Rows
<1>6. \A b \in Plates : Rebooks(r, b) => Current(plate[b].status)
  BY <1>1 DEF Found, Rebooks, Current, Planning, Busy
<1>7. Begins(w)
  BY <1>1, <1>2, <1>4, <1>6 DEF Begins, OnlyReq, Found
<1> QED BY <1>3, <1>4, <1>5, <1>7, RowsThen DEF Kinds

\* Steps that begin, end or advance no request.
LEMMA ClockIs ==
  ASSUME ShopInv, req' = req, drawn' = drawn, PieceRows', PiecesStay, PlateRows', NoneAppears,
         \A b \in Plates : Current(plate'[b].status) => Current(plate[b].status)
  PROVE  Rows' /\ Kinds
<1>1. RequestRows' /\ drawn' \in [Plates -> Nat]
  BY DEF ShopInv, Rows, RequestRows, IsRequest
<1>2. ClockWorks
  BY DEF ClockWorks
<1> QED BY <1>1, <1>2, RowsThen DEF Kinds

LEMMA CallKept ==
  ASSUME ShopInv, NEW w \in Workers, Call(w)
  PROVE  Rows' /\ Kinds
<1>1. ASSUME NEW b, Releases(b) PROVE Rows' /\ Kinds
  <2>1. plate' = plate /\ req' = req /\ drawn' = drawn /\ piece' = Released(On(b, piece))
    BY <1>1 DEF Releases
  <2> QED BY <2>1, ReleasedStay, PlatesUnread, ClockIs
<1> QED BY <1>1, CallIs, Begun

\* Plates due to print were booked already.
LEMMA Advances ==
  ASSUME ShopInv, ClockAdvance
  PROVE  Rows' /\ Kinds
<1>1. PICK due : due = {b \in Plates : plate[b].status = "scheduled" /\ plate[b].to > 0 /\ plate[b].from <= now}
  OBVIOUS
<1>2. /\ plate' = [b \in Plates |-> IF b \in due THEN [plate[b] EXCEPT !.status = "printing", !.ran = TRUE] ELSE plate[b]]
      /\ piece' = piece /\ req' = req /\ drawn' = drawn
  BY <1>1 DEF ClockAdvance
<1>3. ASSUME NEW b \in Plates
      PROVE  /\ IsPlate(plate'[b])
             /\ \/ plate'[b].status = plate[b].status
                \/ plate[b].status = "scheduled" /\ plate'[b].status = "printing"
  <2>1. PICK x, y : x = plate[b] /\ y = plate'[b]
    OBVIOUS
  <2>2. y = x \/ (y = [x EXCEPT !.status = "printing", !.ran = TRUE] /\ x.status = "scheduled")
    BY <1>1, <1>2, <2>1
  <2>3. IsPlate(x)
    BY <2>1, PlateIs
  <2>4. IsPlate(y) /\ (y.status = x.status \/ (x.status = "scheduled" /\ y.status = "printing"))
    BY <2>2, <2>3 DEF IsPlate
  <2> QED BY <2>1, <2>4
<1>4. PlateRows'
  <2>1. plate' = [b \in Plates |-> plate'[b]]
    BY <1>2
  <2> QED BY <1>3, <2>1 DEF PlateRows, IsPlate
<1>5. NoneAppears /\ \A b \in Plates : Current(plate'[b].status) => Current(plate[b].status)
  BY <1>3 DEF NoneAppears, Current, Busy
<1> QED BY <1>2, <1>4, <1>5, PiecesUnread, ClockIs

LEMMA SweepTells ==
  ASSUME ShopInv, NEW b, NEW printer, ClockFollow(b, printer) \/ ClockTell
  PROVE  Rows' /\ Kinds
<1>1. plate' = plate /\ req' = req /\ drawn' = drawn
  BY DEF ClockFollow, ClockTell
<1>2. PICK v : /\ v \in {"printing", "done"}
               /\ piece' = [p \in Pieces |-> piece'[p]]
               /\ \A p \in Pieces : \/ piece'[p] = piece[p]
                                    \/ piece'[p] = [piece[p] EXCEPT !.status = v]
                                    \/ piece'[p] = [piece[p] EXCEPT !.status = v, !.stamped = TRUE]
  <2>1. CASE ClockFollow(b, printer)
    <3>1. PICK v : v = "printing"
      OBVIOUS
    <3>2. piece' = [p \in Pieces |-> IF piece[p].plate = b /\ piece[p].status = "scheduled"
                                     THEN [piece[p] EXCEPT !.status = v] ELSE piece[p]]
      BY <2>1, <3>1 DEF ClockFollow
    <3> QED BY <3>1, <3>2
  <2>2. CASE ClockTell
    <3>1. PICK v : v = "done"
      OBVIOUS
    <3>2. piece' = [p \in Pieces |-> IF piece[p].plate = clock.b
                                     THEN [piece[p] EXCEPT !.status = v, !.stamped = TRUE] ELSE piece[p]]
      BY <2>2, <3>1 DEF ClockTell
    <3> QED BY <3>1, <3>2
  <2> QED BY <2>1, <2>2
<1>3. PieceRows' /\ PiecesStay
  BY <1>2, PiecesTold
<1> QED BY <1>1, <1>3, PlatesUnread, ClockIs

LEMMA SweepSettles ==
  ASSUME ShopInv, NEW b, NEW printer, ClockSettle(b, printer)
  PROVE  Rows' /\ Kinds
<1>1. req' = req /\ drawn' = drawn /\ piece' = Released(On(b, piece))
  BY DEF ClockSettle
<1>2. PICK x, row : x = plate[b] /\ row = [x EXCEPT !.status = "done", !.ran = TRUE] /\ SetPlate(b, row)
  BY DEF ClockSettle
<1>3. PieceRows' /\ PiecesStay
  BY <1>1, ReleasedStay
<1>4. CASE b \notin Plates
  <2>1. plate' = plate
    BY <1>2, <1>4 DEF SetPlate, ShopInv, Rows, PlateRows
  <2> QED BY <1>1, <1>3, <2>1, PlatesUnread, ClockIs
<1>5. CASE b \in Plates
  <2>1. IsPlate(x)
    BY <1>2, <1>5, PlateIs
  <2>2. IsPlate(row) /\ row.status = "done"
    BY <1>2, <2>1 DEF IsPlate
  <2>3. /\ PlateRows' /\ NoneAppears
        /\ \A c \in Plates : plate'[c] = plate[c] \/ (c = b /\ plate'[c] = row)
    <3>1. Rows /\ SetPlate(b, row) /\ IsPlate(row) /\ row.status # "absent"
      BY <1>2, <2>2 DEF ShopInv
    <3> QED BY <3>1, PlateSet
  <2>4. \A c \in Plates : Current(plate'[c].status) => Current(plate[c].status)
    BY <2>2, <2>3 DEF Current, Planning, Busy
  <2> QED BY <1>1, <1>3, <2>3, <2>4, ClockIs
<1> QED BY <1>4, <1>5

LEMMA OtherSteps ==
  ASSUME ShopInv,
         ClockLock \/ ClockSelect \/ (\E o \in Orders : ClockOrder(o)) \/ TimePasses \/ TickFails \/ UNCHANGED vars
  PROVE  Rows' /\ Kinds
<1>1. plate' = plate /\ piece' = piece /\ req' = req /\ drawn' = drawn
  BY DEF ClockLock, ClockSelect, ClockOrder, TimePasses, TickFails, vars, world
<1> QED BY <1>1, PlatesUnread, PiecesUnread, ClockIs

LEMMA StepIs ==
  ASSUME ShopInv, [Next]_vars
  PROVE  Rows' /\ Kinds
BY CallKept, WorkKept, Advances, SweepTells, SweepSettles, OtherSteps DEF Next, Tick, FollowOne, SettleOne

LEMMA ShopStep ==
  ASSUME ShopInv, [Next]_vars
  PROVE  ShopInv'
BY StepIs, KindsKeep

LEMMA ShopInit ==
  ASSUME Init
  PROVE  ShopInv
<1>1. /\ plate = [b \in Plates |-> NoPlate] /\ piece = [p \in Pieces |-> Loose]
      /\ req = [w \in Workers |-> Idle] /\ drawn = [b \in Plates |-> 0]
  BY DEF Init
<1>2. IsRequest(Idle)
  BY DEF Idle, IsRequest
<1>3. PlateRows
  <2>1. plate = [b \in Plates |-> plate[b]] /\ \A b \in Plates : IsPlate(plate[b])
    BY <1>1, GoneIs
  <2> QED BY <2>1 DEF PlateRows
<1>4. PieceRows
  <2>1. piece = [p \in Pieces |-> piece[p]] /\ \A p \in Pieces : IsPiece(piece[p])
    BY <1>1, LooseIs
  <2> QED BY <2>1 DEF PieceRows
<1>5. RequestRows
  <2>1. req = [w \in Workers |-> req[w]] /\ \A w \in Workers : IsRequest(req[w])
    BY <1>1, <1>2
  <2> QED BY <2>1 DEF RequestRows
<1>6. Rows
  BY <1>1, <1>3, <1>4, <1>5 DEF Rows
<1>7. \A w \in Workers : Sound(req[w]) /\ req[w].op = "none"
  BY <1>1, IdleDoesNothing DEF Sound
<1>8. \A p \in Pieces : piece[p].status = "deleted" => piece[p].plate = None
  BY <1>1, LooseIs
<1> QED BY <1>6, <1>7, <1>8 DEF ShopInv

----------------------------------------------------------------------------
(* Triages of one plate, beside any other request and the clock.           *)
(*                                                                         *)
(* Once a plate is charged it holds no piece, so no new triage of it can   *)
(* begin; a triage begun before finds it settled, unless a request books   *)
(* it again.  A second triage never runs beside such a request unless two  *)
(* were running before (TriagesAreLeftAlone).                              *)

\* No request books or re-books a plate that two requests are triaging.
TriagesAreLeftAlone ==
  \A b \in Plates, u, v, w \in Workers :
    u # v /\ Triages(req[u], b) /\ Triages(req[v], b) => ~Rebooks(req[w], b)

ChargedOnce ==
  \A b \in Plates : drawn[b] # 0 =>
    /\ drawn[b] = 1 /\ plate[b].status # "absent" /\ On(b, piece) = {}
    /\ (\E w \in Workers : Triages(req[w], b)) =>
         ~Current(plate[b].status) /\ \A w \in Workers : ~Rebooks(req[w], b)

LEMMA ChargedThen ==
  ASSUME \A b \in Plates : drawn'[b] # 0 =>
           /\ drawn'[b] = 1 /\ plate'[b].status # "absent" /\ On(b, piece') = {}
           /\ (\E w \in Workers : Triages(req'[w], b)) =>
                ~Current(plate'[b].status) /\ \A w \in Workers : ~Rebooks(req'[w], b)
  PROVE  ChargedOnce'
BY DEF ChargedOnce, Triages, Rebooks, Current

LEMMA WorksCharge ==
  ASSUME ShopInv, ChargedOnce, Rows', NEW w \in Workers, Works(w)
  PROVE  ChargedOnce'
<1>1. \A u \in Workers : u # w => req'[u] = req[u]
  BY DEF Works, OnlyReq
<1>2. \A b : ~Triages(req'[w], b) /\ (Rebooks(req'[w], b) => Rebooks(req[w], b))
  BY GoingOn DEF Works
<1>3. \A b \in Plates : On(b, piece') \subseteq On(b, piece)
  BY Shrinks DEF ShopInv, Works
<1>4. ASSUME NEW b \in Plates, drawn'[b] # 0
      PROVE  /\ drawn'[b] = 1 /\ plate'[b].status # "absent" /\ On(b, piece') = {}
             /\ (\E u \in Workers : Triages(req'[u], b)) =>
                  ~Current(plate'[b].status) /\ \A u \in Workers : ~Rebooks(req'[u], b)
  <2>1. drawn[b] = 1 /\ drawn'[b] = 1 /\ plate[b].status # "absent" /\ On(b, piece) = {}
    BY <1>4 DEF ChargedOnce, Works
  <2>2. plate'[b].status # "absent"
    BY <2>1 DEF Works, NoneAppears
  <2>3. ASSUME NEW u \in Workers, Triages(req'[u], b)
        PROVE  ~Current(plate'[b].status) /\ \A v \in Workers : ~Rebooks(req'[v], b)
    <3>1. Triages(req[u], b)
      BY <1>1, <1>2, <2>3
    <3>2. ~Current(plate[b].status) /\ \A v \in Workers : ~Rebooks(req[v], b)
      BY <2>1, <3>1 DEF ChargedOnce
    <3>3. ~Current(plate'[b].status)
      BY <1>4, <3>2 DEF Works
    <3> QED BY <1>1, <1>2, <3>2, <3>3
  <2> QED BY <1>3, <2>1, <2>2, <2>3
<1> QED BY <1>4, ChargedThen

LEMMA BeginsCharge ==
  ASSUME ShopInv, ChargedOnce, Rows', NEW w \in Workers, Begins(w)
  PROVE  ChargedOnce'
<1>1. \A u \in Workers : u # w => req'[u] = req[u]
  BY DEF Begins, OnlyReq
<1>2. PICK r : r = req'[w]
  OBVIOUS
<1>3. /\ r.op = "triage" => On(r.b, piece) # {}
      /\ \A b \in Plates : Rebooks(r, b) => Current(plate[b].status)
  BY <1>2 DEF Begins
<1>4. \A b \in Plates : On(b, piece') \subseteq On(b, piece)
  BY Shrinks DEF ShopInv, Begins
<1>5. ASSUME NEW b \in Plates, drawn'[b] # 0
      PROVE  /\ drawn'[b] = 1 /\ plate'[b].status # "absent" /\ On(b, piece') = {}
             /\ (\E u \in Workers : Triages(req'[u], b)) =>
                  ~Current(plate'[b].status) /\ \A u \in Workers : ~Rebooks(req'[u], b)
  <2>1. drawn[b] = 1 /\ drawn'[b] = 1 /\ plate[b].status # "absent" /\ On(b, piece) = {}
    BY <1>5 DEF ChargedOnce, Begins
  <2>2. plate'[b].status # "absent"
    BY <2>1 DEF Begins, NoneAppears
  <2>3. ASSUME NEW u \in Workers, Triages(req'[u], b)
        PROVE  ~Current(plate'[b].status) /\ \A v \in Workers : ~Rebooks(req'[v], b)
    <3>1. u # w
      BY <1>2, <1>3, <2>1, <2>3 DEF Triages
    <3>2. ~Current(plate[b].status) /\ \A v \in Workers : ~Rebooks(req[v], b)
      BY <1>1, <2>1, <2>3, <3>1 DEF ChargedOnce
    <3>3. ~Rebooks(r, b)
      BY <1>3, <3>2
    <3> QED BY <1>1, <1>2, <3>2, <3>3 DEF Begins
  <2> QED BY <1>4, <2>1, <2>2, <2>3
<1> QED BY <1>5, ChargedThen

LEMMA ClockCharges ==
  ASSUME ShopInv, ChargedOnce, Rows', ClockWorks
  PROVE  ChargedOnce'
<1>1. \A b \in Plates : On(b, piece') \subseteq On(b, piece)
  BY Shrinks DEF ShopInv, ClockWorks
<1>2. ASSUME NEW b \in Plates, drawn'[b] # 0
      PROVE  /\ drawn'[b] = 1 /\ plate'[b].status # "absent" /\ On(b, piece') = {}
             /\ (\E u \in Workers : Triages(req'[u], b)) =>
                  ~Current(plate'[b].status) /\ \A u \in Workers : ~Rebooks(req'[u], b)
  <2>1. drawn[b] # 0
    BY <1>2 DEF ClockWorks
  <2> QED BY <1>1, <2>1 DEF ChargedOnce, ClockWorks, NoneAppears
<1> QED BY <1>2, ChargedThen

LEMMA CreatesCharge ==
  ASSUME ShopInv, ChargedOnce, Rows', NEW w \in Workers, Creates(w)
  PROVE  ChargedOnce'
<1> DEFINE n == req[w].b
<1>1. /\ n \in Plates /\ plate[n].status = "absent"
      /\ req'[w] = Idle /\ \A u \in Workers : u # w => req'[u] = req[u]
  BY DEF Creates, OnlyReq, ShopInv, Sound
<1>2. ASSUME NEW b \in Plates, drawn'[b] # 0
      PROVE  /\ drawn'[b] = 1 /\ plate'[b].status # "absent" /\ On(b, piece') = {}
             /\ (\E u \in Workers : Triages(req'[u], b)) =>
                  ~Current(plate'[b].status) /\ \A u \in Workers : ~Rebooks(req'[u], b)
  <2>1. drawn[b] # 0 /\ b # n
    BY <1>1, <1>2 DEF ChargedOnce, Creates
  <2>2. plate'[b] = plate[b] /\ drawn'[b] = drawn[b] /\ On(b, piece') \subseteq On(b, piece)
    BY <2>1, Elsewhere DEF Creates
  <2> QED BY <1>1, <2>1, <2>2, IdleDoesNothing DEF ChargedOnce
<1> QED BY <1>2, ChargedThen

LEMMA DrawsCharge ==
  ASSUME ShopInv, ChargedOnce, TriagesAreLeftAlone, Rows', NEW w \in Workers, Draws(w)
  PROVE  ChargedOnce'
<1> DEFINE n == req[w].b
<1>1. /\ n \in Plates /\ plate[n].status # "absent" /\ On(n, piece) \subseteq req[w].ids
      /\ req'[w] = Idle /\ (\A u \in Workers : u # w => req'[u] = req[u]) /\ Triages(req[w], n)
  BY DEF Draws, OnlyReq, ShopInv, Sound, Triages
<1>2. \A b \in Plates : On(b, piece') \subseteq On(b, piece)
  BY Shrinks DEF ShopInv, Draws
<1>3. drawn[n] = 0
  BY <1>1 DEF ChargedOnce, Draws
<1>4. On(n, piece') = {}
  <2>1. n # None
    BY <1>1
  <2> QED BY <1>1, <1>2, <2>1, OnThen, OnIs DEF ShopInv, Draws
<1>5. ASSUME NEW b \in Plates, drawn'[b] # 0
      PROVE  /\ drawn'[b] = 1 /\ plate'[b].status # "absent" /\ On(b, piece') = {}
             /\ (\E u \in Workers : Triages(req'[u], b)) =>
                  ~Current(plate'[b].status) /\ \A u \in Workers : ~Rebooks(req'[u], b)
  <2>1. CASE b = n
    <3>1. drawn'[b] = 1 /\ plate'[b].status # "absent" /\ On(b, piece') = {} /\ ~Current(plate'[b].status)
      BY <1>1, <1>3, <1>4, <1>5, <2>1 DEF Draws, NoneAppears
    <3>2. ASSUME NEW u \in Workers, Triages(req'[u], b), NEW v \in Workers PROVE ~Rebooks(req'[v], b)
      <4>1. u # w /\ Triages(req[u], b)
        BY <1>1, <3>2, IdleDoesNothing
      <4>2. ~Rebooks(req[v], b)
        BY <1>1, <2>1, <4>1 DEF TriagesAreLeftAlone
      <4> QED BY <1>1, <4>2, IdleDoesNothing
    <3> QED BY <3>1, <3>2
  <2>2. CASE b # n
    <3>1. plate'[b] = plate[b] /\ drawn'[b] = drawn[b] /\ On(b, piece') \subseteq On(b, piece)
      BY <1>2, <2>2 DEF Draws
    <3> QED BY <1>1, <1>5, <3>1, IdleDoesNothing DEF ChargedOnce
  <2> QED BY <2>1, <2>2
<1> QED BY <1>5, ChargedThen

LEMMA ChargedStep ==
  ASSUME ShopInv, ChargedOnce, TriagesAreLeftAlone, [Next]_vars
  PROVE  ChargedOnce'
<1>1. Rows' /\ Kinds
  BY StepIs
<1> QED BY <1>1, WorksCharge, BeginsCharge, ClockCharges, CreatesCharge, DrawsCharge DEF Kinds

LEMMA ChargedInit ==
  ASSUME Init
  PROVE  ChargedOnce
BY DEF Init, ChargedOnce

\* However many requests triage a plate, with whatever else running beside
\* them, its material is charged once for a run, as long as no third request
\* takes the plate up again while two are triaging it: step 0 of recordOutcome
\* reads the status again, but not which run it belongs to.
THEOREM TriagesDrawOnce == Spec /\ []TriagesAreLeftAlone => []TriageDrawsOnce
<1>1. Init => ShopInv /\ ChargedOnce
  BY ShopInit, ChargedInit
<1>2. ShopInv /\ ChargedOnce /\ TriagesAreLeftAlone /\ [Next]_vars => ShopInv' /\ ChargedOnce'
  BY ShopStep, ChargedStep
<1>3. ShopInv /\ ChargedOnce => TriageDrawsOnce
  BY DEF ShopInv, ChargedOnce, TriageDrawsOnce, Rows
<1> QED BY <1>1, <1>2, <1>3, PTL DEF Spec

\* Two requests at a time have no third beside them: nothing is left to assume.
THEOREM TwoTriagesDrawOnce ==
  ASSUME NEW u, NEW v, Workers \subseteq {u, v}
  PROVE  Spec => []TriageDrawsOnce
<1>1. Init => ShopInv /\ ChargedOnce
  BY ShopInit, ChargedInit
<1>2. ShopInv /\ ChargedOnce /\ [Next]_vars => ShopInv' /\ ChargedOnce'
  <2>1. TriagesAreLeftAlone
    BY DEF TriagesAreLeftAlone, Triages, Rebooks
  <2> QED BY <2>1, ShopStep, ChargedStep
<1>3. ShopInv /\ ChargedOnce => TriageDrawsOnce
  BY DEF ShopInv, ChargedOnce, TriageDrawsOnce, Rows
<1> QED BY <1>1, <1>2, <1>3, PTL DEF Spec

----------------------------------------------------------------------------
(* The memory of PlateHistory only watches.                                *)

LEMMA TracedIsNext ==
  ASSUME [TracedNext]_<<vars, history>>
  PROVE  [Next]_vars
BY DEF TracedNext, ClockSteps, ClockStops, RequestSteps, RequestStops, Next, history

\* q is what r has become.
WentOn(r, q) == /\ q.op = r.op /\ q.b = r.b /\ q.to = r.to /\ q.p = r.p /\ q.printer = r.printer /\ q.at = r.at

LEMMA GoneOn ==
  ASSUME Rows, NEW w \in Workers, NEW pc, Goto(w, pc)
  PROVE  /\ OnlyReq(w)
         /\ IF pc = "idle" THEN req'[w] = Idle ELSE WentOn(req[w], req'[w]) /\ req'[w].pc = pc
<1>1. CASE pc = "idle"
  BY <1>1 DEF Goto, Rows, RequestRows, OnlyReq
<1>2. CASE pc # "idle"
  <2>1. PICK x, y : x = req[w] /\ y = req'[w]
    OBVIOUS
  <2>2. y = [x EXCEPT !.pc = pc] /\ OnlyReq(w)
    BY <1>2, <2>1 DEF Goto, Rows, RequestRows, OnlyReq
  <2>3. IsRequest(x)
    BY <2>1 DEF Rows, RequestRows
  <2>4. WentOn(x, y) /\ y.pc = pc
    BY <2>2, <2>3 DEF IsRequest, WentOn
  <2> QED BY <1>2, <2>1, <2>2, <2>4
<1> QED BY <1>1, <1>2

\* A request goes on to tell the pieces, to write what it checked, or is over.
LEMMA Continues ==
  ASSUME ShopInv, NEW w \in Workers, Proceed(w)
  PROVE  /\ OnlyReq(w) /\ clock' = clock
         /\ \/ req'[w] = Idle
            \/ WentOn(req[w], req'[w]) /\ req'[w].pc \in Telling \cup {"post"}
            \/ WentOn(req[w], req'[w]) /\ req'[w].pc = "write" /\ ScheduleCheck(w)
<1>1. clock' = clock
  BY DEF Proceed, CreateTx, AssignWrite, FilesWrite, ReserveTx, ScheduleCheck, ScheduleWrite, UnscheduleWrite,
         CompleteWrite, CompleteLedger, CompleteDraw, CompletePour, CompleteFree, CompletePost, CancelWrite,
         RestoreWrite, ReprintWrite, ReprintClear, ReleaseSpools, Propagate, TriageTx, DisassembleTx,
         DeletePlateTx, RemoveTx
<1>2. CASE CompleteLedger(w) \/ CompleteDraw(w)
  <2>1. PICK pc, ids : req' = [req EXCEPT ![w].pc = pc, ![w].ids = ids] /\ pc \in {"draw", "free"}
    BY <1>2 DEF CompleteLedger, CompleteDraw
  <2>2. PICK x, y : x = req[w] /\ y = req'[w]
    OBVIOUS
  <2>3. y = [x EXCEPT !.pc = pc, !.ids = ids] /\ OnlyReq(w) /\ IsRequest(x)
    BY <2>1, <2>2 DEF ShopInv, Rows, RequestRows, OnlyReq
  <2>4. WentOn(x, y) /\ y.pc = pc
    BY <2>3 DEF IsRequest, WentOn
  <2> QED BY <1>1, <2>1, <2>2, <2>3, <2>4 DEF Telling
<1>3. CASE ~(CompleteLedger(w) \/ CompleteDraw(w))
  <2>1. PICK pc : Goto(w, pc) /\ (pc \in Telling \cup {"post", "idle"} \/ (pc = "write" /\ ScheduleCheck(w)))
    BY <1>3 DEF Telling, Proceed, CreateTx, AssignWrite, FilesWrite, ReserveTx, ScheduleCheck, ScheduleWrite,
         UnscheduleWrite, CompleteWrite, CompletePour, CompleteFree, CompletePost, CancelWrite,
         RestoreWrite, ReprintWrite, ReprintClear, ReleaseSpools, Propagate, TriageTx, DisassembleTx,
         DeletePlateTx, RemoveTx
  <2> QED BY <1>1, <2>1, GoneOn DEF ShopInv
<1> QED BY <1>2, <1>3

LEMMA Fails ==
  ASSUME ShopInv, NEW w \in Workers, RequestFails(w)
  PROVE  OnlyReq(w) /\ req'[w] = Idle /\ plate' = plate /\ piece' = piece /\ clock' = clock
BY GoneOn DEF RequestFails, world, ShopInv

----------------------------------------------------------------------------
(* The board: nothing but the UPDATE of schedule books a machine.          *)

\* y holds the machine no longer and no otherwise than x.
Calmer(x, y) ==
  /\ y.printer \in {x.printer, None} /\ y.from \in {x.from, 0} /\ y.to \in {x.to, 0}
  /\ y.status \in Busy => x.status \in Busy /\ y.printer = x.printer /\ y.from = x.from /\ y.to = x.to

KeepsBoard == \A b \in Plates : Calmer(plate[b], plate'[b])

LEMMA Untouched ==
  ASSUME plate' = plate
  PROVE  KeepsBoard
BY DEF KeepsBoard, Calmer

LEMMA SetKeeps ==
  ASSUME ShopInv, NEW b, NEW row, SetPlate(b, row), b \in Plates => Calmer(plate[b], row)
  PROVE  KeepsBoard
<1>1. CASE b \in Plates /\ Exists(b)
  <2>1. plate'[b] = row /\ \A c \in Plates \ {b} : plate'[c] = plate[c]
    BY <1>1 DEF SetPlate, ShopInv, Rows, PlateRows
  <2> QED BY <1>1, <2>1 DEF KeepsBoard, Calmer
<1>2. CASE ~(b \in Plates /\ Exists(b))
  <2>1. plate' = plate
    BY <1>2 DEF SetPlate, ShopInv, Rows, PlateRows
  <2> QED BY <2>1, Untouched
<1> QED BY <1>1, <1>2

LEMMA WritingKeeps ==
  ASSUME ShopInv, NEW w \in Workers, Writing(w)
  PROVE  KeepsBoard \/ AssignWrite(w) \/ ScheduleWrite(w)
<1> DEFINE r == req[w]
<1> SUFFICES ASSUME ~AssignWrite(w), ~ScheduleWrite(w) PROVE KeepsBoard
  OBVIOUS
<1>1. r.op \in {"files", "unschedule", "complete", "cancel", "restore", "reprint"} /\ Aims(r)
  BY DEF Writing, FilesWrite, UnscheduleWrite, CompleteWrite, CancelWrite, RestoreWrite, ReprintWrite, At, ShopInv, Sound
<1>2. CASE r.b \in Plates
  <2>1. PICK row : SetPlate(r.b, row) /\ Sets(r, plate[r.b], row)
    BY <1>2, RowIs
  <2>2. Calmer(plate[r.b], row)
    BY <1>1, <2>1 DEF Sets, Calmer, Aims, Planning, Busy
  <2> QED BY <2>1, <2>2, SetKeeps
<1>3. CASE r.b \notin Plates
  <2>1. PICK row : SetPlate(r.b, row)
    BY DEF Writing, FilesWrite, UnscheduleWrite, CompleteWrite, CancelWrite, RestoreWrite, ReprintWrite
  <2> QED BY <1>3, <2>1, SetKeeps
<1> QED BY <1>2, <1>3

LEMMA Calms ==
  ASSUME NEW x, IsPlate(x)
  PROVE  /\ Calmer(x, Gone) /\ Calmer(x, Emptied(x))
         /\ \A y : y = [Unbooked(x) EXCEPT !.status = "cancelled"] => Calmer(x, y)
<1>1. PICK n, g : n = NoPlate /\ g = [n EXCEPT !.status = "deleted"]
  OBVIOUS
<1>2. IsPlate(n) /\ n.printer = None /\ n.from = 0 /\ n.to = 0
  BY <1>1 DEF NoPlate, IsPlate
<1>3. Calmer(x, g) /\ g = Gone
  BY <1>1, <1>2 DEF IsPlate, Gone, Calmer, Busy
<1>4. PICK u, y, z : /\ u = Unbooked(x) /\ y = [u EXCEPT !.status = "disassembled", !.printer = None]
                     /\ z = [u EXCEPT !.status = "cancelled"]
  OBVIOUS
<1>5. IsPlate(u) /\ u.printer = x.printer /\ u.from = 0 /\ u.to = 0
  BY <1>4 DEF Unbooked, IsPlate
<1>6. Calmer(x, y) /\ Calmer(x, z)
  BY <1>4, <1>5 DEF IsPlate, Calmer, Busy
<1> QED BY <1>3, <1>4, <1>6 DEF Emptied

LEMMA LeavingKeeps ==
  ASSUME ShopInv, NEW w \in Workers, DisassembleTx(w) \/ DeletePlateTx(w) \/ RemoveTx(w)
  PROVE  KeepsBoard
<1>1. CASE DisassembleTx(w) \/ DeletePlateTx(w)
  <2>1. PICK b, row : SetPlate(b, row) /\ row \in {Emptied(plate[b]), Gone}
    BY <1>1 DEF DisassembleTx, DeletePlateTx
  <2> QED BY <2>1, PlateIs, Calms, SetKeeps
<1>2. CASE RemoveTx(w)
  <2>1. \/ plate' = plate
        \/ \E b, rows : b # None /\ SetPlate(b, Reevaluated(b, rows).plate)
    BY <1>2 DEF RemoveTx
  <2>2. ASSUME NEW b, NEW rows, SetPlate(b, Reevaluated(b, rows).plate) PROVE KeepsBoard
    <3>1. PICK row : row = Reevaluated(b, rows).plate
      OBVIOUS
    <3>2. row = Gone \/ row = [Unbooked(plate[b]) EXCEPT !.status = "cancelled"] \/ row = Emptied(plate[b])
      BY <3>1 DEF Reevaluated
    <3>3. b \in Plates => Calmer(plate[b], row)
      BY <3>2, PlateIs, Calms
    <3> QED BY <2>2, <3>1, <3>3, SetKeeps
  <2> QED BY <2>1, <2>2, Untouched
<1> QED BY <1>1, <1>2

LEMMA SettlingKeeps ==
  ASSUME ShopInv, NEW w \in Workers, CreateTx(w) \/ TriageTx(w)
  PROVE  KeepsBoard
<1> DEFINE b == req[w].b
<1>1. b \in Plates
  BY DEF CreateTx, TriageTx, At, ShopInv, Sound
<1>2. PICK x : x = plate[b] /\ IsPlate(x)
  BY <1>1, PlateIs
<1>3. CASE CreateTx(w)
  <2>1. PICK n, y : n = NoPlate /\ y = [n EXCEPT !.status = "pending"] /\ plate' = [plate EXCEPT ![b] = y]
    BY <1>3 DEF CreateTx
  <2>2. IsPlate(n) /\ n.printer = None /\ n.from = 0 /\ n.to = 0
    BY <2>1 DEF NoPlate, IsPlate
  <2>3. Calmer(x, y)
    BY <2>1, <2>2 DEF IsPlate, Calmer, Busy
  <2>4. plate'[b] = y /\ \A c \in Plates \ {b} : plate'[c] = plate[c]
    BY <1>1, <2>1 DEF ShopInv, Rows, PlateRows
  <2> QED BY <1>2, <2>3, <2>4 DEF KeepsBoard, Calmer
<1>4. CASE TriageTx(w)
  <2>1. \/ plate' = plate
        \/ \E st \in {"done", "failed"} : plate' = [plate EXCEPT ![b].status = st, ![b].ran = TRUE]
    <3>1. CASE ~Claimed(b)
      BY <1>4, <3>1 DEF TriageTx, world
    <3>2. CASE Claimed(b)
      <4>1. PICK verdict, to, cost : Settle(req[w], verdict, to, cost)
        BY <1>4, <3>2 DEF TriageTx
      <4> QED BY <4>1 DEF Settle
    <3> QED BY <3>1, <3>2
  <2>2. ASSUME NEW st \in {"done", "failed"}, plate' = [plate EXCEPT ![b].status = st, ![b].ran = TRUE]
        PROVE  KeepsBoard
    <3>1. PICK y : y = plate'[b]
      OBVIOUS
    <3>2. y = [x EXCEPT !.status = st, !.ran = TRUE] /\ \A c \in Plates \ {b} : plate'[c] = plate[c]
      BY <1>1, <1>2, <2>2, <3>1 DEF ShopInv, Rows, PlateRows
    <3>3. Calmer(x, y)
      BY <1>2, <3>2 DEF IsPlate, Calmer, Busy
    <3> QED BY <1>2, <3>1, <3>2, <3>3 DEF KeepsBoard, Calmer
  <2> QED BY <2>1, <2>2, Untouched
<1> QED BY <1>3, <1>4

LEMMA ClockKeepsBoard ==
  ASSUME ShopInv, Tick \/ TimePasses \/ TickFails \/ UNCHANGED vars
  PROVE  KeepsBoard
<1>1. CASE ClockAdvance
  <2>1. ASSUME NEW b \in Plates PROVE Calmer(plate[b], plate'[b])
    <3>1. PICK x, y : x = plate[b] /\ y = plate'[b]
      OBVIOUS
    <3>2. y = x \/ (y = [x EXCEPT !.status = "printing", !.ran = TRUE] /\ x.status = "scheduled")
      BY <1>1, <3>1 DEF ClockAdvance
    <3>3. IsPlate(x)
      BY <3>1, PlateIs
    <3>4. Calmer(x, y)
      BY <3>2, <3>3 DEF IsPlate, Calmer, Busy
    <3> QED BY <3>1, <3>4
  <2> QED BY <2>1 DEF KeepsBoard
<1>2. ASSUME NEW b, NEW printer, ClockSettle(b, printer) PROVE KeepsBoard
  <2>1. PICK x, y : x = plate[b] /\ y = [x EXCEPT !.status = "done", !.ran = TRUE] /\ SetPlate(b, y)
    BY <1>2 DEF ClockSettle
  <2>2. b \in Plates => Calmer(x, y)
    <3>1. ASSUME b \in Plates PROVE IsPlate(x)
      BY <2>1, <3>1, PlateIs
    <3> QED BY <2>1, <3>1 DEF IsPlate, Calmer, Busy
  <2> QED BY <2>1, <2>2, SetKeeps
<1>3. ASSUME \/ FollowOne \/ ClockLock \/ ClockSelect \/ ClockTell \/ (\E o \in Orders : ClockOrder(o))
             \/ TimePasses \/ TickFails \/ UNCHANGED vars
      PROVE  plate' = plate
  BY <1>3 DEF FollowOne, ClockFollow, ClockLock, ClockSelect, ClockTell, ClockOrder, TimePasses, TickFails, vars, world
<1> QED BY <1>1, <1>2, <1>3, Untouched DEF Tick, SettleOne

LEMMA ProceedKeepsBoard ==
  ASSUME ShopInv, NEW w \in Workers, Proceed(w)
  PROVE  KeepsBoard \/ AssignWrite(w) \/ ScheduleWrite(w)
<1>1. ASSUME \/ ReserveTx(w) \/ ScheduleCheck(w) \/ CompleteLedger(w) \/ CompleteDraw(w) \/ CompletePour(w)
             \/ CompleteFree(w) \/ CompletePost(w) \/ ReprintClear(w) \/ ReleaseSpools(w) \/ Propagate(w)
      PROVE  plate' = plate
  BY <1>1 DEF ReserveTx, ScheduleCheck, CompleteLedger, CompleteDraw, CompletePour, CompleteFree, CompletePost,
              ReprintClear, ReleaseSpools, Propagate, world
<1> QED BY <1>1, Untouched, WritingKeeps, LeavingKeeps, SettlingKeeps DEF Proceed, Writing

\* What a request to schedule knows, unless another overtook it.
Booking(r) == r.op = "schedule" /\ r.pc \in {"check", "write"}

Asked(w) ==
  LET r == req[w]
  IN  Booking(r) => /\ r.b \in Plates /\ r.at \in Nat
                    /\ w \notin stale => r.printer # None /\ plate[r.b].printer \in {r.printer, None}

Answered(w) ==
  LET r == req[w]
  IN  At(w, "schedule", "write") /\ w \notin stale =>
        \A c \in Plates \ {r.b} : plate[c].status \in Busy /\ plate[c].printer = r.printer
                                    => ~Meets(plate[c], r.at, r.at + Minutes)

Windows == \A b \in Plates : plate[b].from \in Nat /\ plate[b].to \in Nat

BoardInv ==
  /\ Windows
  /\ PlatesNeverShareAMachine
  /\ \A w \in Workers : Asked(w) /\ Answered(w)

LEMMA BoardCalm ==
  ASSUME ShopInv, BoardInv, KeepsBoard, unasked' = unasked,
         \A u \in Workers : Booking(req'[u]) => req'[u] = req[u] /\ (u \in stale => u \in stale')
  PROVE  BoardInv'
<1>1. Windows'
  BY DEF BoardInv, Windows, KeepsBoard, Calmer
<1>2. \A b \in Plates : plate'[b].status \in Busy =>
         /\ plate[b].status \in Busy /\ plate'[b].printer = plate[b].printer
         /\ plate'[b].from = plate[b].from /\ plate'[b].to = plate[b].to
  BY DEF KeepsBoard, Calmer
<1>3. PlatesNeverShareAMachine'
  BY <1>2 DEF BoardInv, PlatesNeverShareAMachine, Meets
<1>4. ASSUME NEW u \in Workers PROVE Asked(u)' /\ Answered(u)'
  <2>1. CASE ~Booking(req'[u])
    BY <2>1 DEF Asked, Answered, At, Booking
  <2>2. CASE Booking(req'[u])
    <3>1. req'[u] = req[u] /\ (u \notin stale' => u \notin stale) /\ Asked(u) /\ Answered(u)
      BY <2>2 DEF BoardInv
    <3>2. \A b \in Plates : plate'[b].printer \in {plate[b].printer, None}
      BY DEF KeepsBoard, Calmer
    <3>3. Asked(u)'
      BY <3>1, <3>2 DEF Asked
    <3>4. Answered(u)'
      BY <1>2, <3>1 DEF Answered, At, Meets
    <3> QED BY <3>3, <3>4
  <2> QED BY <2>1, <2>2
<1> QED BY <1>1, <1>3, <1>4 DEF BoardInv

\* A request begins, or has its queries answered.
LEMMA BoardAsks ==
  ASSUME ShopInv, BoardInv, NEW w \in Workers, OnlyReq(w), plate' = plate, unasked' = unasked,
         \A u \in Workers : req'[u] # Idle /\ u \in stale => u \in stale',
         Asked(w)' /\ Answered(w)'
  PROVE  BoardInv'
<1>1. Windows' /\ PlatesNeverShareAMachine'
  BY DEF BoardInv, Windows, PlatesNeverShareAMachine, Meets
<1>2. ASSUME NEW u \in Workers, u # w PROVE Asked(u)' /\ Answered(u)'
  <2>1. req'[u] = req[u] /\ Asked(u) /\ Answered(u)
    BY <1>2 DEF OnlyReq, BoardInv
  <2>2. Booking(req'[u]) \/ At(u, "schedule", "write")' => (u \notin stale' => u \notin stale)
    BY IdleDoesNothing DEF Booking, At
  <2>3. Asked(u)'
    BY <2>1, <2>2 DEF Asked
  <2>4. Answered(u)'
    BY <2>1, <2>2 DEF Answered, At, Meets
  <2> QED BY <2>3, <2>4
<1> QED BY <1>1, <1>2 DEF BoardInv

LEMMA BoardOpens ==
  ASSUME ShopInv, BoardInv, NEW w \in Workers, NEW r, Opens(w, r), unasked' = unasked,
         \A u \in Workers : req'[u] # Idle /\ u \in stale => u \in stale'
  PROVE  BoardInv'
<1>1. plate' = plate /\ req'[w] = r /\ OnlyReq(w) /\ Found(r)
  BY DEF Opens, OnlyReq, ShopInv, Rows, RequestRows
<1>2. Asked(w)'
  BY <1>1 DEF Asked, Found, Booking, Tells
<1>3. Answered(w)'
  BY <1>1 DEF Answered, At, Found
<1> QED BY <1>1, <1>2, <1>3, BoardAsks

LEMMA BoardChecks ==
  ASSUME ShopInv, BoardInv, NEW w \in Workers, ScheduleCheck(w), unasked' = unasked,
         \A u \in Workers : req'[u] # Idle /\ u \in stale => u \in stale'
  PROVE  BoardInv'
<1> DEFINE r == req[w]
<1>1. At(w, "schedule", "check") /\ plate' = plate /\ Asked(w)
  BY DEF ScheduleCheck, world, BoardInv
<1>2. PICK pc : /\ Goto(w, pc) /\ pc \in {"write", "idle"}
                /\ pc = "write" => \A c \in Plates \ {r.b} : plate[c].status \in Busy /\ plate[c].printer = r.printer
                                                             => ~Meets(plate[c], r.at, r.at + Minutes)
  BY DEF ScheduleCheck
<1>3. OnlyReq(w) /\ IF pc = "idle" THEN req'[w] = Idle ELSE WentOn(r, req'[w]) /\ req'[w].pc = pc
  BY <1>2, GoneOn DEF ShopInv
<1>4. CASE pc = "idle"
  <2>1. Asked(w)' /\ Answered(w)'
    BY <1>3, <1>4, IdleDoesNothing DEF Asked, Answered, Booking, At
  <2> QED BY <1>1, <1>3, <2>1, BoardAsks
<1>5. CASE pc = "write"
  <2>1. req'[w] # Idle /\ WentOn(r, req'[w]) /\ (w \notin stale' => w \notin stale)
    BY <1>3, <1>5, IdleDoesNothing
  <2>2. Booking(r)
    BY <1>1 DEF At, Booking
  <2>3. Asked(w)'
    BY <1>1, <2>1, <2>2 DEF Asked, WentOn
  <2>4. Answered(w)'
    BY <1>1, <1>2, <1>5, <2>1 DEF Answered, WentOn, Meets
  <2> QED BY <1>1, <1>3, <2>3, <2>4, BoardAsks
<1> QED BY <1>2, <1>4, <1>5

\* The request that takes its plate to another machine leaves no one on that
\* plate who asked about the old one.
LEMMA BoardAssigns ==
  ASSUME ShopInv, BoardInv, NEW w \in Workers, AssignWrite(w), RequestSteps(w)
  PROVE  BoardInv'
<1> DEFINE r == req[w]
<1>1. At(w, "assign", "write") /\ Goto(w, "idle")
  BY DEF AssignWrite
<1>2. OnlyReq(w) /\ req'[w] = Idle
  BY <1>1, GoneOn DEF ShopInv
<1>3. unasked' = unasked
  BY <1>1 DEF RequestSteps, At
<1>4. \A u \in Workers : u # w /\ u \notin stale' /\ req'[u] # Idle => u \notin stale /\ req[u].b # r.b
  BY <1>1 DEF RequestSteps, Overtakes
<1>5. \/ plate' = plate
      \/ /\ r.b \in Plates /\ \A c \in Plates \ {r.b} : plate'[c] = plate[c]
         /\ plate'[r.b].status \notin Busy
         /\ plate'[r.b].from = plate[r.b].from /\ plate'[r.b].to = plate[r.b].to
  <2>1. CASE r.b \in Plates
    <3>1. PICK row : SetPlate(r.b, row) /\ Sets(r, plate[r.b], row)
      BY <2>1, RowIs DEF Writing
    <3>2. row.status \notin Busy /\ row.from = plate[r.b].from /\ row.to = plate[r.b].to
      BY <1>1, <3>1 DEF Sets, At, Busy
    <3>3. plate' = plate \/ (plate'[r.b] = row /\ \A c \in Plates \ {r.b} : plate'[c] = plate[c])
      BY <2>1, <3>1 DEF SetPlate, ShopInv, Rows, PlateRows
    <3> QED BY <2>1, <3>2, <3>3
  <2>2. CASE r.b \notin Plates
    <3>1. PICK row : SetPlate(r.b, row)
      BY DEF AssignWrite
    <3> QED BY <2>2, <3>1 DEF SetPlate, ShopInv, Rows, PlateRows
  <2> QED BY <2>1, <2>2
<1>6. Windows'
  BY <1>5 DEF BoardInv, Windows
<1>7. \A b \in Plates : plate'[b].status \in Busy => plate'[b] = plate[b]
  BY <1>5
<1>8. PlatesNeverShareAMachine'
  BY <1>3, <1>7 DEF BoardInv, PlatesNeverShareAMachine, Meets
<1>9. ASSUME NEW u \in Workers PROVE Asked(u)' /\ Answered(u)'
  <2>1. CASE u = w
    BY <1>2, <2>1, IdleDoesNothing DEF Asked, Answered, Booking, At
  <2>2. CASE u # w /\ ~Booking(req[u])
    <3>1. req'[u] = req[u]
      BY <1>2, <2>2 DEF OnlyReq
    <3> QED BY <2>2, <3>1 DEF Asked, Answered, Booking, At
  <2>3. CASE u # w /\ Booking(req[u])
    <3>1. req'[u] = req[u] /\ req'[u] # Idle /\ Asked(u) /\ Answered(u)
      BY <1>2, <2>3, IdleDoesNothing DEF OnlyReq, Booking, BoardInv
    <3>2. u \notin stale' => u \notin stale /\ plate'[req[u].b] = plate[req[u].b]
      BY <1>4, <1>5, <2>3, <3>1 DEF Asked
    <3>3. Asked(u)'
      BY <2>3, <3>1, <3>2 DEF Asked
    <3>4. Answered(u)'
      BY <1>7, <3>1, <3>2 DEF Answered, At, Meets
    <3> QED BY <3>3, <3>4
  <2> QED BY <2>1, <2>2, <2>3
<1> QED BY <1>6, <1>8, <1>9 DEF BoardInv

\* The request that books a machine leaves no one about to book who did not ask again.
LEMMA BoardBooks ==
  ASSUME ShopInv, BoardInv, NEW w \in Workers, ScheduleWrite(w), RequestSteps(w)
  PROVE  BoardInv'
<1> DEFINE r == req[w]
           b == r.b
           e == r.at + Minutes
<1>1. At(w, "schedule", "write") /\ Goto(w, "follow")
  BY DEF ScheduleWrite
<1>2. OnlyReq(w) /\ req'[w].pc = "follow"
  BY <1>1, GoneOn DEF ShopInv
<1>3. b \in Plates /\ r.at \in Nat /\ (w \notin stale => r.printer # None /\ plate[b].printer \in {r.printer, None})
  BY <1>1 DEF BoardInv, Asked, At, Booking
<1>4. \A c \in Plates \ {b} : plate'[c] = plate[c]
  BY <1>3 DEF ScheduleWrite, SetPlate, ShopInv, Rows, PlateRows
<1>5. \/ plate'[b] = plate[b] /\ plate'[b].status \notin Busy
      \/ /\ plate'[b].status = "scheduled" /\ plate'[b].printer = plate[b].printer
         /\ plate'[b].from = r.at /\ plate'[b].to = e
  <2>1. PICK row : SetPlate(b, row) /\ Sets(r, plate[b], row)
    BY <1>3, RowIs DEF Writing
  <2>2. row.status = "scheduled" /\ row.printer = plate[b].printer /\ row.from = r.at /\ row.to = e
    BY <1>1, <2>1 DEF Sets, At
  <2>3. IF Exists(b) THEN plate'[b] = row ELSE plate'[b] = plate[b]
    BY <1>3, <2>1 DEF SetPlate, ShopInv, Rows, PlateRows
  <2> QED BY <2>2, <2>3 DEF Exists, Busy
<1>6. Windows'
  <2>1. e \in Nat
    BY <1>3
  <2> QED BY <1>3, <1>4, <1>5, <2>1 DEF BoardInv, Windows
<1>7. unasked' = IF w \in stale THEN unasked \cup {b} ELSE unasked \ {b}
  BY <1>1 DEF RequestSteps
<1>8. ASSUME w \notin stale, NEW c \in Plates \ {b}, plate'[b].status \in Busy, plate[c].status \in Busy,
             plate'[b].printer = plate[c].printer, plate'[b].printer # None
      PROVE  ~Meets(plate'[b], plate[c].from, plate[c].to) /\ ~Meets(plate[c], plate'[b].from, plate'[b].to)
  <2>1. plate[c].printer = r.printer /\ plate'[b].from = r.at /\ plate'[b].to = e
    BY <1>3, <1>5, <1>8
  <2>2. ~Meets(plate[c], r.at, e)
    BY <1>1, <1>8, <2>1 DEF BoardInv, Answered
  <2>3. plate[c].from \in Nat /\ plate[c].to \in Nat /\ r.at \in Nat /\ e \in Nat
    BY <1>3 DEF BoardInv, Windows
  <2>4. ~Meets(plate'[b], plate[c].from, plate[c].to)
    <3>1. PICK x, y : x = plate[c] /\ y = plate'[b]
      OBVIOUS
    <3>2. x.from \in Nat /\ x.to \in Nat /\ r.at \in Nat /\ y.from = r.at /\ y.to = e /\ ~Meets(x, r.at, e)
      BY <2>1, <2>2, <2>3, <3>1
    <3>3. ~Meets(y, x.from, x.to)
      <4> HIDE DEF e
      <4>1. e \in Nat
        BY <2>3
      <4> QED BY <3>2, <4>1 DEF Meets
    <3> QED BY <3>1, <3>3
  <2> QED BY <2>1, <2>2, <2>4
<1>9. PlatesNeverShareAMachine'
  <2> SUFFICES ASSUME NEW c \in Plates, NEW d \in Plates, c # d, plate'[c].status \in Busy, plate'[d].status \in Busy,
                      plate'[c].printer = plate'[d].printer, plate'[c].printer # None,
                      {c, d} \cap unasked' = {}
               PROVE  ~Meets(plate'[c], plate'[d].from, plate'[d].to)
    BY DEF PlatesNeverShareAMachine, Meets
  <2>1. CASE c # b /\ d # b
    <3>1. plate'[c] = plate[c] /\ plate'[d] = plate[d] /\ {c, d} \cap unasked = {}
      BY <1>4, <1>7, <2>1
    <3> QED BY <3>1 DEF BoardInv, PlatesNeverShareAMachine, Meets
  <2>2. CASE c = b \/ d = b
    <3>1. w \notin stale
      BY <1>7, <2>2
    <3>2. CASE c = b
      BY <1>4, <1>8, <3>1, <3>2
    <3>3. CASE d = b
      BY <1>4, <1>8, <3>1, <3>3
    <3> QED BY <2>2, <3>2, <3>3
  <2> QED BY <2>1, <2>2
<1>10. ASSUME NEW u \in Workers PROVE Asked(u)' /\ Answered(u)'
  <2>1. CASE u = w
    BY <1>2, <2>1 DEF Asked, Answered, Booking, At
  <2>2. CASE u # w
    <3>1. req'[u] = req[u] /\ Asked(u)
      BY <1>2, <2>2 DEF OnlyReq, BoardInv
    <3>2. u \notin stale' /\ req'[u] # Idle => u \notin stale /\ ~At(u, "schedule", "write")
      BY <1>1, <2>2 DEF RequestSteps, Overtakes
    <3>3. plate'[req[u].b].printer = plate[req[u].b].printer \/ req[u].b \notin Plates
      BY <1>4, <1>5
    <3>4. Asked(u)'
      BY <3>1, <3>2, <3>3, IdleDoesNothing DEF Asked, Booking
    <3>5. Answered(u)'
      BY <3>1, <3>2, IdleDoesNothing DEF Answered, At
    <3> QED BY <3>4, <3>5
  <2> QED BY <2>1, <2>2
<1> QED BY <1>6, <1>9, <1>10 DEF BoardInv

LEMMA BoardStep ==
  ASSUME ShopInv, BoardInv, [TracedNext]_<<vars, history>>
  PROVE  BoardInv'
<1>1. ASSUME NEW w \in Workers, RequestSteps(w) PROVE BoardInv'
  <2>1. \A u \in Workers : req'[u] # Idle /\ u \in stale => u \in stale'
    BY <1>1 DEF RequestSteps
  <2>2. CASE Call(w)
    <3>1. CASE \E r : Opens(w, r)
      <4>1. req[w] = Idle
        BY <3>1 DEF Opens
      <4>2. unasked' = unasked
        BY <1>1, <4>1, IdleDoesNothing DEF RequestSteps, At
      <4> QED BY <2>1, <3>1, <4>2, BoardOpens
    <3>2. CASE req[w] = Idle /\ \E b \in Plates : Releases(b)
      <4>1. unasked' = unasked
        BY <1>1, <3>2, IdleDoesNothing DEF RequestSteps, At
      <4>2. req' = req /\ plate' = plate
        BY <3>2 DEF Releases
      <4>3. \A u \in Workers : Booking(req'[u]) => req'[u] # Idle
        BY IdleDoesNothing DEF Booking
      <4> QED BY <2>1, <4>1, <4>2, <4>3, Untouched, BoardCalm
    <3> QED BY <2>2, <3>1, <3>2, CallIs
  <2>3. CASE Proceed(w)
    <3>1. OnlyReq(w) /\ (Booking(req'[w]) => ScheduleCheck(w))
      BY <2>3, Continues, IdleDoesNothing DEF Booking, Telling
    <3>2. CASE AssignWrite(w) \/ ScheduleWrite(w)
      BY <1>1, <3>2, BoardAssigns, BoardBooks
    <3>3. CASE ScheduleCheck(w)
      <4>1. unasked' = unasked
        BY <1>1, <3>3 DEF RequestSteps, ScheduleCheck, At
      <4> QED BY <2>1, <3>3, <4>1, BoardChecks
    <3>4. CASE ~AssignWrite(w) /\ ~ScheduleWrite(w) /\ ~ScheduleCheck(w)
      <4>1. KeepsBoard
        BY <2>3, <3>4, ProceedKeepsBoard
      <4>2. unasked' = unasked
        <5>1. ~At(w, "schedule", "write")
          BY <2>3, <3>4 DEF At, Proceed, CreateTx, AssignWrite, FilesWrite, ReserveTx, ScheduleCheck, ScheduleWrite,
             UnscheduleWrite, CompleteWrite, CompleteLedger, CompleteDraw, CompletePour, CompleteFree, CompletePost,
             CancelWrite, RestoreWrite, ReprintWrite, ReprintClear, ReleaseSpools, Propagate, TriageTx, DisassembleTx,
             DeletePlateTx, RemoveTx
        <5> QED BY <1>1, <5>1 DEF RequestSteps
      <4>3. \A u \in Workers : Booking(req'[u]) => req'[u] = req[u] /\ req'[u] # Idle
        BY <3>1, <3>4, IdleDoesNothing DEF OnlyReq, Booking
      <4> QED BY <2>1, <4>1, <4>2, <4>3, BoardCalm
    <3> QED BY <3>2, <3>3, <3>4
  <2> QED BY <1>1, <2>2, <2>3 DEF RequestSteps
<1>2. ASSUME NEW w \in Workers, RequestStops(w) PROVE BoardInv'
  <2>1. OnlyReq(w) /\ req'[w] = Idle /\ plate' = plate
    BY <1>2, Fails DEF RequestStops
  <2>2. unasked' = unasked /\ \A u \in Workers : Booking(req'[u]) => req'[u] = req[u] /\ (u \in stale => u \in stale')
    BY <1>2, <2>1, IdleDoesNothing DEF RequestStops, OnlyReq, Booking
  <2> QED BY <2>1, <2>2, Untouched, BoardCalm
<1>3. CASE ClockSteps \/ ClockStops \/ UNCHANGED <<vars, history>>
  <2>1. req' = req
    BY <1>3 DEF ClockSteps, ClockStops, Tick, ClockAdvance, FollowOne, ClockFollow, ClockLock, ClockSelect, SettleOne,
                ClockSettle, ClockTell, ClockOrder, TimePasses, TickFails, vars
  <2>2. unasked' = unasked /\ stale' = stale
    BY <1>3 DEF ClockSteps, ClockStops, history
  <2>3. KeepsBoard
    BY <1>3, ClockKeepsBoard DEF ClockSteps, ClockStops
  <2> QED BY <2>1, <2>2, <2>3, BoardCalm
<1> QED BY <1>1, <1>2, <1>3 DEF TracedNext

LEMMA BoardInit ==
  ASSUME TracedInit
  PROVE  BoardInv
<1>1. NoPlate.from = 0 /\ NoPlate.to = 0 /\ NoPlate.status = "absent"
  BY DEF NoPlate
<1>2. \A b \in Plates : plate[b] = NoPlate
  BY DEF TracedInit, Init
<1>3. \A w \in Workers : req[w] = Idle
  BY DEF TracedInit, Init
<1> QED BY <1>1, <1>2, <1>3, IdleDoesNothing DEF BoardInv, Windows, PlatesNeverShareAMachine, Busy, Asked, Answered, Booking, At

\* Two plates hold overlapping windows on one machine only if one was booked by
\* a request that another overtook between its conflict queries and its UPDATE,
\* with any number of requests and failures beside: the queries of schedule are
\* the only guard, print_beds has no exclusion constraint.
THEOREM PlatesKeepApart == TracedSpec => []PlatesNeverShareAMachine
<1>1. TracedInit => ShopInv /\ BoardInv
  BY ShopInit, BoardInit DEF TracedInit
<1>2. ShopInv /\ BoardInv /\ [TracedNext]_<<vars, history>> => (ShopInv /\ BoardInv)'
  BY TracedIsNext, ShopStep, BoardStep
<1>3. ShopInv /\ BoardInv => PlatesNeverShareAMachine
  BY DEF BoardInv
<1> QED BY <1>1, <1>2, <1>3, PTL DEF TracedSpec

----------------------------------------------------------------------------
(* The pieces of a plate that is not astray.                               *)

Follows(b) ==
  \A p \in Pieces : piece[p].plate = b =>
    IF plate[b].status \in Planning THEN piece[p].status \in Planning ELSE piece[p].status = plate[b].status

\* What the plate says once request r has written it.
Said(r, st) ==
  /\ r.op = "schedule" => st = "scheduled"
  /\ r.op = "cancel" => st = "cancelled"
  /\ r.op \in {"unschedule", "complete", "restore", "reprint"} => st = r.to

\* What a request read of its plate, or made of it, is still so.
Stands(r) ==
  /\ r.op = "assign" => plate[r.b].status \in Planning
  /\ r.op = "files" /\ r.to # "none" => plate[r.b].status \in {"assigned", "ready"}
  /\ r.pc \in Telling => ~Exists(r.b) \/ Said(r, plate[r.b].status)

\* The pieces follow, or someone is on the way to tell them.
InStep(b) ==
  IF b \in UntoldBySweep
  THEN clock.pc # "tell" => \A p \in Pieces : piece[p].plate = b => piece[p].status = "scheduled"
  ELSE (\A w \in Workers : b \notin UntoldBy(w)) => Follows(b)

SweepStands(b) ==
  b \in UntoldBySweep => IF clock.pc = "tell" THEN ~Exists(b) \/ plate[b].status = "done"
                         ELSE plate[b].status = "printing"

IsSweep(x) == x = [pc |-> x.pc, todo |-> x.todo, b |-> x.b, printer |-> x.printer, orders |-> x.orders]

\* The sweep has a list of plates, with a machine each.
Listed == /\ IsSweep(clock)
          /\ \A d \in clock.todo : d[1] \in Plates
          /\ \A d, e \in clock.todo : d[1] = e[1] => d = e
          /\ clock.pc = "tell" => clock.b \in Plates

Placed == \A p \in Pieces : piece[p].plate # None => piece[p].plate \in Plates /\ Exists(piece[p].plate)

HistInv ==
  /\ Placed /\ Legal(piece) /\ Listed
  /\ Shared \subseteq astray
  /\ \A w \in Workers : /\ req[w].op \in Tells => req[w].b \in Plates
                        /\ req[w].b \in Plates \ astray => Stands(req[w])
  /\ \A b \in Plates \ astray : InStep(b) /\ SweepStands(b)

----------------------------------------------------------------------------
(* One step of one request: it leaves the plates it does not work on, and  *)
(* of those it has to itself it tells the pieces, or is about to.          *)

Aside(w) ==
  \A c \in Plates : w \notin WorkingOn(c) =>
    /\ plate'[c].status = plate[c].status
    /\ \A p \in Pieces : piece'[p].plate = c => piece[p].plate = c /\ piece'[p].status = piece[p].status

Clear(w, c) ==
  /\ w \in WorkingOn(c)
  /\ \/ c \in Mends(w)
     \/ (req[w].b = c => Stands(req[w])) /\ (c \notin UntoldBy(w) => Follows(c))

Does(w) ==
  /\ Placed' /\ Legal(piece)' /\ Aside(w)
  /\ \A c \in Plates : Clear(w, c) =>
       /\ Follows(c)' \/ c \in UntoldBy(w)'
       /\ req'[w].b = c => Stands(req[w])'

LEMMA IdleStands == Stands(Idle) /\ Idle.b \notin Plates /\ Idle.op \notin Tells /\ Idle.pc \notin Telling
BY DEF Stands, Idle, Tells, Telling

LEMMA HasItself ==
  ASSUME ShopInv, HistInv, NEW w \in Workers, NEW c \in Plates, w \in WorkingOn(c), c \notin astray \ Mends(w)
  PROVE  WorkingOn(c) = {w} /\ ~Sweeping(c) /\ Clear(w, c)
<1>1. CASE c \in Mends(w)
  BY <1>1 DEF Mends, Clear
<1>2. CASE c \notin Mends(w)
  <2>1. c \notin astray /\ c \notin Shared
    BY <1>2 DEF HistInv
  <2>2. WorkingOn(c) \subseteq Workers
    BY DEF WorkingOn
  <2>3. WorkingOn(c) = {w} /\ ~Sweeping(c)
    BY <2>1, <2>2 DEF Shared
  <2>4. c \notin UntoldBySweep
    BY <2>3 DEF UntoldBySweep, Sweeping
  <2>5. \A u \in Workers : c \in UntoldBy(u) => u = w
    BY <2>3 DEF UntoldBy, WorkingOn
  <2>6. InStep(c) /\ (req[w].b = c => Stands(req[w]))
    BY <2>1 DEF HistInv
  <2>7. c \notin UntoldBy(w) => Follows(c)
    BY <2>4, <2>5, <2>6 DEF InStep
  <2> QED BY <2>3, <2>6, <2>7 DEF Clear
<1> QED BY <1>1, <1>2

LEMMA RequestKeeps ==
  ASSUME ShopInv, HistInv, NEW w \in Workers, OnlyReq(w), clock' = clock,
         Shared' \subseteq astray', astray \ Mends(w) \subseteq astray',
         Placed', Legal(piece)', Aside(w),
         req'[w].op \in Tells => req'[w].b \in Plates,
         req'[w].b \in Plates /\ w \notin WorkingOn(req'[w].b) => Stands(req[w])' /\ req'[w].pc \notin Telling,
         \A c \in Plates \ astray' : Clear(w, c) =>
           /\ Follows(c)' \/ c \in UntoldBy(w)'
           /\ req'[w].b = c => Stands(req[w])'
  PROVE  HistInv'
<1>1. Listed'
  BY DEF HistInv, Listed, IsSweep
<1>2. UntoldBySweep' = UntoldBySweep /\ \A b : Sweeping(b)' <=> Sweeping(b)
  BY DEF UntoldBySweep, Sweeping
<1>3. ASSUME NEW u \in Workers, u # w PROVE UntoldBy(u)' = UntoldBy(u)
  <2>1. req'[u] = req[u]
    BY <1>3 DEF OnlyReq
  <2> QED BY <2>1 DEF UntoldBy
<1>4. ASSUME NEW u \in Workers
      PROVE  /\ req'[u].op \in Tells => req'[u].b \in Plates
             /\ req'[u].b \in Plates \ astray' => Stands(req[u])'
  <2>1. CASE u = w
    <3>1. ASSUME req'[w].b \in Plates \ astray', w \in WorkingOn(req'[w].b) PROVE Stands(req[w])'
      BY <3>1, HasItself
    <3> QED BY <2>1, <3>1
  <2>2. CASE u # w
    <3>1. req'[u] = req[u] /\ (req[u].op \in Tells => req[u].b \in Plates)
      BY <2>2 DEF OnlyReq, HistInv
    <3>2. ASSUME req[u].b \in Plates \ astray' PROVE Stands(req[u])'
      <4> DEFINE c == req[u].b
      <4>1. u \in WorkingOn(c)
        BY DEF WorkingOn
      <4>2. w \notin WorkingOn(c)
        BY <2>2, <3>2, <4>1, HasItself
      <4>3. c \notin astray
        <5>1. WorkingOn(c) # {w}
          BY <2>2, <4>1
        <5> QED BY <3>2, <5>1 DEF Mends
      <4>4. Stands(req[u]) /\ plate'[c].status = plate[c].status
        BY <3>2, <4>2, <4>3 DEF HistInv, Aside
      <4> QED BY <3>1, <4>4 DEF Stands, Exists
    <3> QED BY <3>1, <3>2
  <2> QED BY <2>1, <2>2
<1>5. ASSUME NEW b \in Plates \ astray' PROVE InStep(b)' /\ SweepStands(b)'
  <2>1. CASE w \in WorkingOn(b)
    <3>1. ~Sweeping(b) /\ Clear(w, b)
      BY <1>5, <2>1, HasItself
    <3>2. b \notin UntoldBySweep
      BY <3>1 DEF UntoldBySweep, Sweeping
    <3> QED BY <1>2, <3>1, <3>2 DEF InStep, SweepStands
  <2>2. CASE w \notin WorkingOn(b)
    <3>1. b \notin astray
      BY <1>5, <2>2 DEF Mends
    <3>2. InStep(b) /\ SweepStands(b)
      BY <3>1 DEF HistInv
    <3>3. /\ plate'[b].status = plate[b].status
          /\ \A p \in Pieces : piece'[p].plate = b => piece[p].plate = b /\ piece'[p].status = piece[p].status
      BY <2>2 DEF Aside
    <3>4. SweepStands(b)'
      BY <1>2, <3>2, <3>3 DEF SweepStands, Exists
    <3>5. CASE b \in UntoldBySweep
      BY <1>2, <3>2, <3>3, <3>4, <3>5 DEF InStep
    <3>6. CASE b \notin UntoldBySweep
      <4>1. ASSUME \A u \in Workers : b \notin UntoldBy(u)' PROVE \A u \in Workers : b \notin UntoldBy(u)
        BY <1>3, <2>2, <4>1 DEF UntoldBy, WorkingOn
      <4>2. Follows(b) => Follows(b)'
        BY <3>3 DEF Follows
      <4> QED BY <1>2, <3>2, <3>4, <3>6, <4>1, <4>2 DEF InStep
    <3> QED BY <3>4, <3>5, <3>6
  <2> QED BY <2>1, <2>2
<1> QED BY <1>1, <1>4, <1>5 DEF HistInv

\* A piece as good as unwritten.
SameFor(x, y) == /\ y.plate = x.plate /\ y.status = x.status
                 /\ x.plate = None => y.printer = x.printer /\ y.stamped = x.stamped

LEMMA QuietDoes ==
  ASSUME ShopInv, HistInv, NEW w \in Workers, plate' = plate, \A p \in Pieces : SameFor(piece[p], piece'[p]),
         req[w].pc # "write",
         \/ req'[w] = Idle /\ req[w].pc \notin Telling
         \/ WentOn(req[w], req'[w]) /\ (req[w].pc \in Telling <=> req'[w].pc \in Telling)
  PROVE  Does(w)
<1>1. \A p \in Pieces : piece'[p].plate = piece[p].plate /\ piece'[p].status = piece[p].status
  BY DEF SameFor
<1>2. Placed' /\ Aside(w)
  BY <1>1 DEF HistInv, Placed, Exists, Aside
<1>3. Legal(piece)'
  BY DEF HistInv, Legal, StandsAlone, SameFor
<1>4. ASSUME NEW c \in Plates, Clear(w, c)
      PROVE  (Follows(c)' \/ c \in UntoldBy(w)') /\ (req'[w].b = c => Stands(req[w])')
  <2>1. c \notin Mends(w)
    BY DEF Mends
  <2>2. Follows(c) => Follows(c)'
    BY <1>1 DEF Follows
  <2>3. CASE req'[w] = Idle /\ req[w].pc \notin Telling
    <3>1. Follows(c)
      BY <1>4, <2>1, <2>3 DEF Clear, UntoldBy
    <3> QED BY <2>2, <2>3, <3>1, IdleStands
  <2>4. CASE WentOn(req[w], req'[w]) /\ (req[w].pc \in Telling <=> req'[w].pc \in Telling)
    <3>1. c \in UntoldBy(w) => c \in UntoldBy(w)'
      BY <2>4 DEF UntoldBy, WentOn
    <3>2. req'[w].b = c => Stands(req[w])'
      BY <1>4, <2>1, <2>4 DEF Clear, Stands, WentOn, Said, Exists
    <3> QED BY <1>4, <2>1, <2>2, <3>1, <3>2 DEF Clear
  <2> QED BY <2>3, <2>4
<1> QED BY <1>2, <1>3, <1>4 DEF Does

LEMMA ReleasedSame ==
  ASSUME ShopInv, NEW S
  PROVE  \A p \in Pieces : SameFor(piece[p], Released(S)[p])
<1>1. \A p \in Pieces : Released(S)[p] = piece[p] \/ Released(S)[p] = Unreserved(piece[p])
  BY DEF Released
<1> QED BY <1>1, PieceIs, UnreservedRow DEF SameFor

LEMMA UnreadSame ==
  ASSUME piece' = piece
  PROVE  \A p \in Pieces : SameFor(piece[p], piece'[p])
BY DEF SameFor

LEMMA QuietSteps ==
  ASSUME ShopInv, HistInv, NEW w \in Workers, Proceed(w),
         \/ ReserveTx(w) \/ ScheduleCheck(w) \/ CompleteLedger(w) \/ CompleteDraw(w) \/ CompletePour(w)
         \/ CompleteFree(w) \/ CompletePost(w) \/ ReprintClear(w) \/ ReleaseSpools(w)
  PROVE  Does(w)
<1> DEFINE r == req[w]
<1>1. plate' = plate
  BY DEF ReserveTx, ScheduleCheck, CompleteLedger, CompleteDraw, CompletePour, CompleteFree, CompletePost,
         ReprintClear, ReleaseSpools, world
<1>2. \/ req'[w] = Idle
      \/ WentOn(r, req'[w]) /\ req'[w].pc \in Telling \cup {"post"}
      \/ WentOn(r, req'[w]) /\ req'[w].pc = "write" /\ ScheduleCheck(w)
  BY Continues
<1>3. CASE \/ CompleteLedger(w) \/ CompleteDraw(w) \/ CompletePour(w) \/ CompleteFree(w)
           \/ ReprintClear(w) \/ ReleaseSpools(w)
  <2>1. r.pc \in {"ledger", "draw", "pour", "free", "clear", "release"}
    BY <1>3 DEF CompleteLedger, CompleteDraw, CompletePour, CompleteFree, ReprintClear, ReleaseSpools, At
  <2>2. req'[w].pc \in Telling
    <3>1. CASE CompleteLedger(w) \/ CompleteDraw(w)
      <4>1. PICK pc, ids : req' = [req EXCEPT ![w].pc = pc, ![w].ids = ids] /\ pc \in {"draw", "free"}
        BY <3>1 DEF CompleteLedger, CompleteDraw
      <4>2. PICK x, y : x = req[w] /\ y = req'[w]
        OBVIOUS
      <4>3. y = [x EXCEPT !.pc = pc, !.ids = ids] /\ IsRequest(x)
        BY <4>1, <4>2 DEF ShopInv, Rows, RequestRows
      <4>4. y.pc = pc
        BY <4>3 DEF IsRequest
      <4> QED BY <4>1, <4>2, <4>4 DEF Telling
    <3>2. CASE CompletePour(w) \/ CompleteFree(w) \/ ReprintClear(w) \/ ReleaseSpools(w)
      <4>1. PICK pc : Goto(w, pc) /\ pc \in {"free", "follow"}
        BY <3>2 DEF CompletePour, CompleteFree, ReprintClear, ReleaseSpools
      <4> QED BY <4>1, GoneOn DEF ShopInv, Telling
    <3> QED BY <1>3, <3>1, <3>2
  <2>3. WentOn(r, req'[w])
    BY <1>2, <2>2, IdleStands
  <2>4. \A p \in Pieces : SameFor(piece[p], piece'[p])
    <3>1. CASE CompleteLedger(w) \/ CompletePour(w) \/ CompleteFree(w)
      <4>1. piece' = piece
        BY <3>1 DEF CompleteLedger, CompletePour, CompleteFree, world
      <4> QED BY <4>1, UnreadSame
    <3>2. CASE CompleteDraw(w) \/ ReleaseSpools(w)
      <4>1. PICK S : piece' = Released(S)
        BY <3>2 DEF CompleteDraw, ReleaseSpools
      <4> QED BY <4>1, ReleasedSame
    <3>3. CASE ReprintClear(w)
      <4>1. r.b \in Plates
        BY <3>3 DEF ReprintClear, At, HistInv, Tells
      <4> SUFFICES ASSUME NEW p \in Pieces PROVE SameFor(piece[p], piece'[p])
        OBVIOUS
      <4>2. PICK x, y : x = piece[p] /\ y = piece'[p]
        OBVIOUS
      <4>3. IsPiece(x) /\ (y = x \/ (x.plate = r.b /\ y = [x EXCEPT !.stamped = FALSE]))
        BY <3>3, <4>2, PieceIs DEF ReprintClear
      <4>4. y = x \/ (x.plate = r.b /\ y.plate = x.plate /\ y.status = x.status)
        BY <4>3 DEF IsPiece
      <4> QED BY <4>1, <4>2, <4>4 DEF SameFor
    <3> QED BY <1>3, <3>1, <3>2, <3>3
  <2> QED BY <1>1, <2>1, <2>2, <2>3, <2>4, QuietDoes DEF Telling
<1>4. CASE ReserveTx(w) \/ ScheduleCheck(w) \/ CompletePost(w)
  <2>1. r.pc \in {"tx", "check", "post"}
    BY <1>4 DEF ReserveTx, ScheduleCheck, CompletePost, At
  <2>2. req'[w] = Idle \/ (WentOn(r, req'[w]) /\ req'[w].pc = "write")
    <3>1. PICK pc : Goto(w, pc) /\ pc \in {"idle", "write"}
      BY <1>4 DEF ReserveTx, ScheduleCheck, CompletePost
    <3> QED BY <3>1, GoneOn DEF ShopInv
  <2>3. \A p \in Pieces : SameFor(piece[p], piece'[p])
    <3>1. CASE ScheduleCheck(w)
      BY <3>1, UnreadSame DEF ScheduleCheck, world
    <3>2. CASE ReserveTx(w)
      <4> DEFINE rows == Released(On(r.b, piece))
                 q == r.p
                 s == r.source
      <4>1. piece' = [rows EXCEPT ![q].source = s] \/ piece' = piece
        BY <3>2 DEF ReserveTx
      <4>2. rows = [p \in Pieces |-> rows[p]] /\ \A p \in Pieces : IsPiece(rows[p]) /\ SameFor(piece[p], rows[p])
        <5>1. \A p \in Pieces : rows[p] = piece[p] \/ rows[p] = Unreserved(piece[p])
          BY DEF Released
        <5> QED BY <5>1, PieceIs, UnreservedRow, ReleasedSame DEF Released
      <4> HIDE DEF rows
      <4>3. CASE piece' = piece
        BY <4>3, UnreadSame
      <4>4. CASE piece' = [rows EXCEPT ![q].source = s]
        <5> SUFFICES ASSUME NEW p \in Pieces PROVE SameFor(piece[p], piece'[p])
          OBVIOUS
        <5>1. PICK x, y : x = rows[p] /\ y = piece'[p]
          OBVIOUS
        <5>2. IsPiece(x) /\ (y = x \/ y = [x EXCEPT !.source = s]) /\ SameFor(piece[p], x)
          BY <4>2, <4>4, <5>1
        <5>3. y.plate = x.plate /\ y.status = x.status /\ y.printer = x.printer /\ y.stamped = x.stamped
          BY <5>2 DEF IsPiece
        <5> QED BY <5>1, <5>2, <5>3 DEF SameFor
      <4> QED BY <4>1, <4>3, <4>4
    <3>3. CASE CompletePost(w)
      <4> SUFFICES ASSUME NEW p \in Pieces PROVE SameFor(piece[p], piece'[p])
        OBVIOUS
      <4>1. PICK x, y : x = piece[p] /\ y = piece'[p]
        OBVIOUS
      <4>2. IsPiece(x) /\ (y = x \/ y = [x EXCEPT !.post = TRUE])
        BY <3>3, <4>1, PieceIs DEF CompletePost
      <4>3. y.plate = x.plate /\ y.status = x.status /\ y.printer = x.printer /\ y.stamped = x.stamped
        BY <4>2 DEF IsPiece
      <4> QED BY <4>1, <4>3 DEF SameFor
    <3> QED BY <1>4, <3>1, <3>2, <3>3
  <2>4. r.pc \notin Telling /\ r.pc # "write"
    BY <2>1 DEF Telling
  <2>5. req'[w].pc = "write" => req'[w].pc \notin Telling
    BY DEF Telling
  <2> QED BY <1>1, <2>2, <2>3, <2>4, <2>5, QuietDoes
<1> QED BY <1>3, <1>4

LEMMA WritingDoes ==
  ASSUME ShopInv, HistInv, NEW w \in Workers, Writing(w)
  PROVE  Does(w)
<1> DEFINE r == req[w]
           b == r.b
<1>1. /\ r.pc = "write" /\ Aims(r) /\ piece' = piece
      /\ r.op \in {"assign", "files", "schedule", "unschedule", "complete", "cancel", "restore", "reprint"}
  BY DEF Writing, AssignWrite, FilesWrite, ScheduleWrite, UnscheduleWrite, CompleteWrite, CancelWrite,
         RestoreWrite, ReprintWrite, At, ShopInv, Sound
<1>2. PICK pc : Goto(w, pc) /\ IF r.op \in {"assign", "files"} THEN pc = "idle" ELSE pc \in Telling
  BY <1>1 DEF Writing, AssignWrite, FilesWrite, ScheduleWrite, UnscheduleWrite, CompleteWrite, CancelWrite,
         RestoreWrite, ReprintWrite, At, Telling
<1>3. IF r.op \in {"assign", "files"} THEN req'[w] = Idle ELSE WentOn(r, req'[w]) /\ req'[w].pc \in Telling
  BY <1>2, GoneOn DEF ShopInv, Telling
<1>4. /\ \A c \in Plates \ {b} : plate'[c] = plate[c]
      /\ b \in Plates => \/ ~Exists(b) /\ plate'[b] = plate[b]
                         \/ Exists(b) /\ Sets(r, plate[b], plate'[b])
  <2>1. CASE b \in Plates
    <3>1. PICK row : SetPlate(b, row) /\ Sets(r, plate[b], row)
      BY <2>1, RowIs
    <3> QED BY <2>1, <3>1 DEF SetPlate, ShopInv, Rows, PlateRows
  <2>2. CASE b \notin Plates
    <3>1. PICK row : SetPlate(b, row)
      BY DEF Writing, AssignWrite, FilesWrite, ScheduleWrite, UnscheduleWrite, CompleteWrite, CancelWrite,
             RestoreWrite, ReprintWrite
    <3> QED BY <2>2, <3>1 DEF SetPlate, ShopInv, Rows, PlateRows
  <2> QED BY <2>1, <2>2
<1>5. \A c \in Plates : Exists(c) => Exists(c)'
  BY <1>1, <1>4 DEF Exists, Sets, Aims, Planning
<1>6. Placed' /\ Legal(piece)'
  BY <1>1, <1>5 DEF HistInv, Placed, Legal, StandsAlone
<1>7. Aside(w)
  BY <1>1, <1>4 DEF Aside, WorkingOn
<1>8. ASSUME NEW c \in Plates, Clear(w, c)
      PROVE  (Follows(c)' \/ c \in UntoldBy(w)') /\ (req'[w].b = c => Stands(req[w])')
  <2>0. c = b
    BY <1>1, <1>8 DEF Clear, WorkingOn
  <2>1. CASE r.op \in {"assign", "files"}
    <3>1. Stands(r) /\ Follows(b)
      BY <1>1, <1>8, <2>0, <2>1 DEF Clear, Mends, Tells, UntoldBy, Telling
    <3>2. plate'[b].status = plate[b].status \/ (plate[b].status \in Planning /\ plate'[b].status \in Planning)
      BY <1>1, <1>4, <2>0, <2>1, <3>1 DEF Sets, Aims, Stands, Planning
    <3>3. Follows(c)'
      BY <1>1, <2>0, <3>1, <3>2 DEF Follows
    <3> QED BY <1>3, <2>0, <2>1, <3>3, IdleStands
  <2>2. CASE r.op \notin {"assign", "files"}
    <3>1. WentOn(r, req'[w]) /\ req'[w].pc \in Telling /\ b \in UntoldBy(w)'
      BY <1>3, <2>2 DEF UntoldBy, WentOn
    <3>2. Said(r, plate'[c].status) \/ ~Exists(c)'
      BY <1>1, <1>4, <2>0 DEF Sets, Said, Exists
    <3>3. Stands(req[w])'
      BY <1>1, <2>0, <2>2, <3>1, <3>2 DEF Stands, WentOn, Said, Exists
    <3> QED BY <2>0, <3>1, <3>3
  <2> QED BY <2>1, <2>2
<1> QED BY <1>6, <1>7, <1>8 DEF Does

LEMMA PropagateDoes ==
  ASSUME ShopInv, HistInv, NEW w \in Workers, Propagate(w)
  PROVE  Does(w)
<1> DEFINE r == req[w]
           b == r.b
<1>1. r.pc = "follow" /\ r.op \in Tells /\ Aims(r) /\ b \in Plates /\ plate' = plate
  BY DEF Propagate, ShopInv, Sound, Aims, Telling, HistInv
<1>2. req'[w] = Idle \/ (WentOn(r, req'[w]) /\ req'[w].pc = "post")
  <2>1. PICK pc : Goto(w, pc) /\ pc \in {"idle", "post"}
    BY DEF Propagate
  <2> QED BY <2>1, GoneOn DEF ShopInv
<1>3. ASSUME NEW p \in Pieces
      PROVE  /\ piece'[p].plate = piece[p].plate
             /\ piece[p].plate = b => piece'[p].status = Told(r)
             /\ piece[p].plate # b => piece'[p] = piece[p]
  <2>1. PICK x, y, st : x = piece[p] /\ y = piece'[p] /\ st = Told(r)
    OBVIOUS
  <2>2. IsPiece(x) /\ y = IF x.plate = b THEN [x EXCEPT !.status = st] ELSE x
    BY <2>1, PieceIs DEF Propagate
  <2>4. y.plate = x.plate /\ (x.plate = b => y.status = st)
    BY <2>2 DEF IsPiece
  <2> QED BY <2>1, <2>2, <2>4
<1>4. Placed' /\ Aside(w)
  BY <1>1, <1>3 DEF HistInv, Placed, Exists, Aside, WorkingOn
<1>5. Legal(piece)'
  BY <1>1, <1>3 DEF HistInv, Legal
<1>6. ASSUME NEW c \in Plates, Clear(w, c)
      PROVE  (Follows(c)' \/ c \in UntoldBy(w)') /\ (req'[w].b = c => Stands(req[w])')
  <2>1. c = b /\ Stands(r)
    BY <1>1, <1>6 DEF Clear, WorkingOn, Tells, Mends
  <2>2. ~Exists(b) \/ Said(r, plate[b].status)
    BY <1>1, <2>1 DEF Stands, Telling
  <2>3. req'[w].b = c => Stands(req[w])'
    BY <1>1, <1>2, IdleStands DEF Stands, WentOn, Telling, Tells
  <2>4. CASE ~Exists(b)
    <3>1. \A p \in Pieces : piece'[p].plate # b
      BY <1>1, <1>3, <2>4 DEF HistInv, Placed
    <3>2. Follows(c)'
      BY <2>1, <3>1 DEF Follows
    <3> QED BY <2>1, <2>3, <3>2
  <2>5. CASE Said(r, plate[b].status)
    <3>1. IF plate[b].status \in Planning THEN Told(r) \in Planning ELSE Told(r) = plate[b].status
      BY <1>1, <2>5 DEF Said, Told, Aims, Planning, Tells
    <3>2. Follows(c)'
      BY <1>1, <1>3, <2>1, <3>1 DEF Follows
    <3> QED BY <2>1, <2>3, <3>2
  <2> QED BY <2>2, <2>4, <2>5
<1> QED BY <1>4, <1>5, <1>6 DEF Does

\* The pieces leave the plate, or go.
LEMMA LeavingDoes ==
  ASSUME ShopInv, HistInv, NEW w \in Workers, DisassembleTx(w) \/ DeletePlateTx(w)
  PROVE  Does(w)
<1> DEFINE b == req[w].b
<1>1. Goto(w, "idle") /\ req[w].op \in {"disassemble", "delete"}
  BY DEF DisassembleTx, DeletePlateTx, At
<1>2. req'[w] = Idle
  BY <1>1, GoneOn DEF ShopInv
<1>3. \A c \in Plates \ {b} : plate'[c] = plate[c]
  <2>1. PICK row : SetPlate(b, row)
    BY DEF DisassembleTx, DeletePlateTx
  <2> QED BY <2>1 DEF SetPlate, ShopInv, Rows, PlateRows
<1>4. ASSUME NEW p \in Pieces
      PROVE  IF piece[p].plate = b
             THEN piece'[p].plate = None /\ piece'[p].status \in {"pending", "deleted"}
             ELSE piece'[p] = piece[p]
  <2>1. PICK x, y : x = piece[p] /\ y = piece'[p]
    OBVIOUS
  <2>2. IsPiece(x)
    BY <2>1, PieceIs
  <2>3. \/ y = IF x.plate = b THEN [x EXCEPT !.plate = None, !.status = "pending"] ELSE x
        \/ y = IF x.plate = b THEN Deleted ELSE x
    BY <2>1 DEF DisassembleTx, DeletePlateTx
  <2>4. IF x.plate = b THEN y.plate = None /\ y.status \in {"pending", "deleted"} ELSE y = x
    BY <2>2, <2>3, LooseIs DEF IsPiece
  <2> QED BY <2>1, <2>4
<1>5. Placed' /\ Aside(w)
  BY <1>1, <1>3, <1>4 DEF HistInv, Placed, Exists, Aside, WorkingOn
<1>6. Legal(piece)'
  BY <1>4 DEF HistInv, Legal, StandsAlone, Busy
<1>7. ASSUME NEW c \in Plates, Clear(w, c)
      PROVE  (Follows(c)' \/ c \in UntoldBy(w)') /\ (req'[w].b = c => Stands(req[w])')
  <2>1. c = b
    BY <1>1, <1>7 DEF Clear, WorkingOn
  <2>2. \A p \in Pieces : piece'[p].plate # b
    BY <1>4, <2>1
  <2> QED BY <1>2, <2>1, <2>2, IdleStands DEF Follows
<1> QED BY <1>5, <1>6, <1>7 DEF Does

LEMMA CreateDoes ==
  ASSUME ShopInv, HistInv, NEW w \in Workers, CreateTx(w)
  PROVE  Does(w)
<1> DEFINE r == req[w]
           b == r.b
<1>1. Goto(w, "idle") /\ r.op = "create" /\ b \in Plates /\ plate[b].status = "absent"
  BY DEF CreateTx, At, ShopInv, Sound
<1>2. req'[w] = Idle
  BY <1>1, GoneOn DEF ShopInv
<1>3. plate'[b].status = "pending" /\ \A c \in Plates \ {b} : plate'[c] = plate[c]
  <2>1. PICK n, y : n = NoPlate /\ y = [n EXCEPT !.status = "pending"] /\ plate' = [plate EXCEPT ![b] = y]
    BY DEF CreateTx
  <2>2. y.status = "pending"
    BY <2>1, GoneIs DEF IsPlate
  <2> QED BY <1>1, <2>1, <2>2 DEF ShopInv, Rows, PlateRows
<1>4. ASSUME NEW p \in Pieces
      PROVE  piece'[p] = piece[p] \/ (piece'[p].plate = b /\ piece'[p].status = "pending")
  <2>1. PICK x, y : x = piece[p] /\ y = piece'[p]
    OBVIOUS
  <2>2. IsPiece(x) /\ (y = x \/ y = [x EXCEPT !.plate = b, !.status = "pending", !.printer = None])
    BY <2>1, PieceIs DEF CreateTx
  <2>3. y = x \/ (y.plate = b /\ y.status = "pending")
    BY <2>2 DEF IsPiece
  <2> QED BY <2>1, <2>3
<1>5. \A p \in Pieces : piece[p].plate # b
  BY <1>1 DEF HistInv, Placed, Exists
<1>6. Placed' /\ Aside(w)
  BY <1>1, <1>3, <1>4 DEF HistInv, Placed, Exists, Aside, WorkingOn
<1>7. Legal(piece)'
  BY <1>1, <1>4 DEF HistInv, Legal
<1>8. ASSUME NEW c \in Plates, Clear(w, c)
      PROVE  (Follows(c)' \/ c \in UntoldBy(w)') /\ (req'[w].b = c => Stands(req[w])')
  <2>1. c = b
    BY <1>1, <1>8 DEF Clear, WorkingOn
  <2>2. Follows(c)'
    BY <1>3, <1>4, <1>5, <2>1 DEF Follows, Planning
  <2> QED BY <1>2, <2>1, <2>2, IdleStands
<1> QED BY <1>6, <1>7, <1>8 DEF Does

LEMMA TriageDoes ==
  ASSUME ShopInv, HistInv, NEW w \in Workers, TriageTx(w)
  PROVE  Does(w)
<1> DEFINE r == req[w]
           b == r.b
<1>1. Goto(w, "idle") /\ r.op = "triage" /\ r.pc = "tx" /\ b \in Plates
  BY DEF TriageTx, At, ShopInv, Sound
<1>2. req'[w] = Idle
  BY <1>1, GoneOn DEF ShopInv
<1>3. CASE ~Claimed(b)
  <2>1. plate' = plate /\ piece' = piece
    BY <1>3 DEF TriageTx, world
  <2> QED BY <1>1, <1>2, <2>1, UnreadSame, QuietDoes DEF Telling
<1>4. CASE Claimed(b)
  <2>1. PICK verdict, to, cost : Settle(r, verdict, to, cost)
    BY <1>4 DEF TriageTx
  <2>2. /\ Exists(b) => plate'[b].status \in {"done", "failed"}
        /\ \A c \in Plates \ {b} : plate'[c] = plate[c]
    <3>1. PICK st : st \in {"done", "failed"} /\ plate' = [plate EXCEPT ![b].status = st, ![b].ran = TRUE]
      BY <2>1 DEF Settle
    <3>2. PICK x, y : x = plate[b] /\ y = plate'[b] /\ IsPlate(x)
      BY <1>1, PlateIs
    <3>3. y = [x EXCEPT !.status = st, !.ran = TRUE] /\ \A c \in Plates \ {b} : plate'[c] = plate[c]
      BY <1>1, <3>1, <3>2 DEF ShopInv, Rows, PlateRows
    <3>4. y.status = st
      BY <3>2, <3>3 DEF IsPlate
    <3> QED BY <3>1, <3>2, <3>3, <3>4
  <2>3. Legal(piece)'
    BY <2>1 DEF Settle
  <2>4. ASSUME NEW p \in Pieces
        PROVE  IF p \notin r.ids \/ piece[p].status = "deleted" THEN piece'[p] = piece[p] ELSE piece'[p].plate = None
    <3>1. piece'[p] = IF p \notin r.ids \/ piece[p].status = "deleted" THEN piece[p]
                      ELSE IF verdict[p] = "done" THEN Printed(piece[p]) ELSE Requeued(r, to[verdict[p]])
      BY <2>1 DEF Settle, Dismantled
    <3> QED BY <3>1, PieceIs, Leaving
  <2>5. \A p \in Pieces : piece[p].plate = b => p \in r.ids /\ piece[p].status # "deleted"
    <3>1. \A p \in Pieces : piece[p].plate = b => p \in On(b, piece)
      BY OnIs DEF ShopInv
    <3> QED BY <1>1, <3>1 DEF ShopInv, Sound
  <2>6. Placed' /\ Aside(w)
    BY <1>1, <1>4, <2>2, <2>4 DEF HistInv, Placed, Exists, Aside, WorkingOn, Claimed, Busy
  <2>7. ASSUME NEW c \in Plates, Clear(w, c)
        PROVE  (Follows(c)' \/ c \in UntoldBy(w)') /\ (req'[w].b = c => Stands(req[w])')
    <3>1. c = b
      BY <1>1, <2>7 DEF Clear, WorkingOn
    <3>2. \A p \in Pieces : piece'[p].plate # c
      BY <1>1, <2>4, <2>5, <3>1
    <3>3. Follows(c)'
      BY <3>2 DEF Follows
    <3> QED BY <1>2, <3>3, IdleStands
  <2> QED BY <2>3, <2>6, <2>7 DEF Does
<1> QED BY <1>3, <1>4

\* The plate without one piece: it is gone, called off, or comes apart.
WhatIsLeft(b, rows, after) ==
  \/ /\ after.rows = rows /\ after.plate = Gone
     /\ \A p \in Pieces : rows[p].plate # b
  \/ /\ after.rows = rows /\ after.plate = [Unbooked(plate[b]) EXCEPT !.status = "cancelled"]
     /\ \A p \in Pieces : rows[p].plate = b => rows[p].status = "cancelled"
     /\ \E p \in Pieces : rows[p].plate = b
  \/ /\ after.rows = [p \in Pieces |-> IF rows[p].plate = b THEN Detached(rows[p]) ELSE rows[p]]
     /\ after.plate = Emptied(plate[b])

Whole(rows) == rows = [p \in Pieces |-> rows[p]]

LEMMA ReevaluatedIs ==
  ASSUME NEW b, NEW rows, Whole(rows)
  PROVE  WhatIsLeft(b, rows, Reevaluated(b, rows))
<1> DEFINE kids == On(b, rows)
<1>1. kids = {p \in Pieces : rows[p].plate = b}
  BY DEF On, Whole
<1>2. CASE kids = {}
  <2>1. PICK after : after = Reevaluated(b, rows) /\ after = [plate |-> Gone, rows |-> rows]
    BY <1>2 DEF Reevaluated
  <2>2. after.plate = Gone /\ after.rows = rows /\ \A p \in Pieces : rows[p].plate # b
    BY <1>1, <1>2, <2>1
  <2> QED BY <2>1, <2>2 DEF WhatIsLeft
<1>3. CASE kids # {} /\ \A p \in kids : rows[p].status = "cancelled"
  <2>1. PICK after, row : /\ after = Reevaluated(b, rows) /\ row = [Unbooked(plate[b]) EXCEPT !.status = "cancelled"]
                          /\ after = [plate |-> row, rows |-> rows]
    BY <1>3 DEF Reevaluated
  <2>2. after.plate = row /\ after.rows = rows
    BY <2>1
  <2> QED BY <1>1, <1>3, <2>1, <2>2 DEF WhatIsLeft
<1>4. CASE kids # {} /\ ~\A p \in kids : rows[p].status = "cancelled"
  <2>1. Reevaluated(b, rows) = [plate |-> Emptied(plate[b]),
                                rows  |-> [p \in Pieces |-> IF p \in kids THEN Detached(rows[p]) ELSE rows[p]]]
    BY <1>4 DEF Reevaluated
  <2>2. PICK after, g : /\ after = Reevaluated(b, rows)
                        /\ g = [p \in Pieces |-> IF p \in kids THEN Detached(rows[p]) ELSE rows[p]]
                        /\ after = [plate |-> Emptied(plate[b]), rows |-> g]
    BY <2>1
  <2>3. g = [p \in Pieces |-> IF rows[p].plate = b THEN Detached(rows[p]) ELSE rows[p]]
    BY <1>1, <2>2
  <2>4. after.plate = Emptied(plate[b]) /\ after.rows = g
    BY <2>2
  <2> QED BY <2>2, <2>3, <2>4 DEF WhatIsLeft
<1> QED BY <1>2, <1>3, <1>4

\* Only the piece itself is written, and a cancelled one stays on its plate.
LEMMA RemovedIs ==
  ASSUME ShopInv, NEW r
  PROVE  \A p \in Pieces : /\ p # r.p => Removed(r)[p] = piece[p]
                           /\ r.to = "delete" => Removed(r)[r.p] = Deleted \/ r.p \notin Pieces
BY GoneFrom DEF Removed, ShopInv, Rows, PieceRows

LEMMA RemoveDoes ==
  ASSUME ShopInv, HistInv, NEW w \in Workers, RemoveTx(w)
  PROVE  Does(w)
<1> DEFINE r == req[w]
           b == PlateOfRemoval(r)
           rows == Removed(r)
           after == IF b = None THEN [plate |-> NoPlate, rows |-> rows] ELSE Reevaluated(b, rows)
<1>1. Goto(w, "idle") /\ r.op = "remove" /\ r.pc = "tx"
  BY DEF RemoveTx, At
<1>2. req'[w] = Idle
  BY <1>1, GoneOn DEF ShopInv
<1>3. CASE ~Legal(after.rows)
  <2>1. plate' = plate /\ piece' = piece
    BY <1>3 DEF RemoveTx
  <2> QED BY <1>1, <1>2, <2>1, UnreadSame, QuietDoes DEF Telling
<1>4. CASE Legal(after.rows)
  <2>1. piece' = after.rows /\ IF b = None THEN plate' = plate ELSE SetPlate(b, after.plate)
    BY <1>4 DEF RemoveTx
  <2>2. /\ rows = [p \in Pieces |-> rows[p]]
        /\ \A p \in Pieces : \/ rows[p] = piece[p] \/ rows[p] = Deleted
                             \/ rows[p].plate = piece[p].plate /\ rows[p].status = "cancelled"
        /\ \A p \in Pieces : IsPiece(rows[p])
    BY GoneFrom, PieceIs, LooseIs
  <2>3. \A p \in Pieces : p # r.p => rows[p] = piece[p]
    BY RemovedIs
  <2>4. \A p \in Pieces : rows[p].plate \in {piece[p].plate, None}
    BY <2>2, LooseIs
  <2>5. Legal(piece)'
    BY <1>4, <2>1
  <2>6. \/ /\ piece' = rows /\ (b # None => after.plate = Gone /\ \A p \in Pieces : rows[p].plate # b)
        \/ /\ piece' = rows /\ b # None /\ after.plate = [Unbooked(plate[b]) EXCEPT !.status = "cancelled"]
           /\ \A p \in Pieces : rows[p].plate = b => rows[p].status = "cancelled"
           /\ \E p \in Pieces : rows[p].plate = b
        \/ /\ b # None /\ piece' = [p \in Pieces |-> IF rows[p].plate = b THEN Detached(rows[p]) ELSE rows[p]]
    <3>1. CASE b = None
      <4>1. after.rows = rows
        BY <3>1
      <4> QED BY <2>1, <3>1, <4>1
    <3>2. CASE b # None
      <4>1. after = Reevaluated(b, rows) /\ piece' = after.rows /\ rows = [p \in Pieces |-> rows[p]]
        BY <2>1, <2>2, <3>2
      <4> HIDE DEF after, rows, b
      <4>2. WhatIsLeft(b, rows, after)
        BY <4>1, ReevaluatedIs DEF Whole
      <4> QED BY <3>2, <4>1, <4>2 DEF WhatIsLeft
    <3> QED BY <3>1, <3>2
  <2>7. \A c \in Plates : c # b => plate'[c] = plate[c]
    BY <2>1 DEF SetPlate, ShopInv, Rows, PlateRows
  <2>8. ASSUME NEW p \in Pieces
        PROVE  /\ piece'[p].plate \in {piece[p].plate, None}
               /\ piece'[p].plate # None => piece'[p] = rows[p]
    <3>1. piece'[p] = rows[p] \/ (piece'[p] = Detached(rows[p]) /\ b # None)
      BY <2>6
    <3> QED BY <2>2, <2>4, <3>1, Leaving
  <2> HIDE DEF rows, after
  <2>9. \/ \A p \in Pieces : piece'[p].plate # b
        \/ /\ b \in Plates => plate'[b].status = "cancelled"
           /\ \A p \in Pieces : piece'[p].plate = b => piece'[p].status = "cancelled"
        \/ b = None
    <3>1. CASE b # None /\ after.plate = [Unbooked(plate[b]) EXCEPT !.status = "cancelled"] /\ piece' = rows
               /\ (\A p \in Pieces : rows[p].plate = b => rows[p].status = "cancelled")
               /\ \E p \in Pieces : rows[p].plate = b
      <4>1. ASSUME b \in Plates PROVE plate'[b].status = "cancelled"
        <5>1. Exists(b)
          BY <2>4, <3>1 DEF HistInv, Placed
        <5>2. PICK row : row = after.plate
          OBVIOUS
        <5>3. row.status = "cancelled"
          BY <3>1, <4>1, <5>2, PlateIs, CancelledPlate
        <5> QED BY <2>1, <3>1, <4>1, <5>1, <5>2, <5>3 DEF SetPlate, ShopInv, Rows, PlateRows
      <4> QED BY <3>1, <4>1
    <3>2. CASE b # None /\ piece' = [p \in Pieces |-> IF rows[p].plate = b THEN Detached(rows[p]) ELSE rows[p]]
      BY <2>2, <3>2, Leaving
    <3> QED BY <2>6, <3>1, <3>2
  <2>10. Placed'
    <3>1. ASSUME NEW p \in Pieces, NEW c, c = piece'[p].plate, c # None
          PROVE  c \in Plates /\ plate'[c].status \notin {"absent", "deleted"}
      <4>1. c \in Plates /\ Exists(c)
        BY <2>8, <3>1 DEF HistInv, Placed
      <4>2. CASE c = b
        BY <2>9, <3>1, <4>1, <4>2
      <4>3. CASE c # b
        BY <2>7, <4>1, <4>3 DEF Exists
      <4> QED BY <4>1, <4>2, <4>3
    <3> QED BY <3>1 DEF Placed, Exists
  <2>11. ASSUME NEW c \in Plates, c # b, r.p \in Pieces => piece[r.p].plate # c \/ r.to = "delete"
         PROVE  \A p \in Pieces : piece'[p].plate = c => piece[p].plate = c /\ piece'[p].status = piece[p].status
    <3> SUFFICES ASSUME NEW p \in Pieces, piece'[p].plate = c
                 PROVE  piece[p].plate = c /\ piece'[p].status = piece[p].status
      OBVIOUS
    <3>1. piece[p].plate = c /\ piece'[p] = rows[p]
      BY <2>8
    <3>2. p = r.p => rows[p] # Deleted
      BY <3>1, LooseIs
    <3>3. p # r.p
      BY <2>11, <3>1, <3>2, RemovedIs DEF rows
    <3> QED BY <2>3, <3>1, <3>3
  <2>12. b \in {r.b, piece[r.p].plate} /\ (r.to = "cancel" => b = piece[r.p].plate) /\ (r.to # "cancel" => b = r.b)
    BY DEF PlateOfRemoval
  <2>13. r.to \in {"cancel", "delete"}
    BY <1>1 DEF ShopInv, Sound, Aims
  <2>14. Aside(w)
    BY <1>1, <2>7, <2>11, <2>12 DEF Aside, WorkingOn
  <2>15. ASSUME NEW c \in Plates, Clear(w, c)
         PROVE  (Follows(c)' \/ c \in UntoldBy(w)') /\ (req'[w].b = c => Stands(req[w])')
    <3>1. Follows(c)'
      <4>1. CASE c = b
        BY <2>9, <4>1 DEF Follows, Planning
      <4>2. CASE c # b
        <5>1. Follows(c)
          BY <1>1, <2>15 DEF Clear, Mends, UntoldBy, Telling
        <5>2. plate'[c].status = plate[c].status
          BY <2>7, <4>2
        <5>3. \A p \in Pieces : piece'[p].plate = c => piece[p].plate = c /\ piece'[p].status = piece[p].status
          BY <2>11, <2>12, <2>13, <4>2
        <5> QED BY <5>1, <5>2, <5>3 DEF Follows
      <4> QED BY <4>1, <4>2
    <3> QED BY <1>2, <3>1, IdleStands
  <2> QED BY <2>5, <2>10, <2>14, <2>15 DEF Does
<1> QED BY <1>3, <1>4

LEMMA ProceedDoes ==
  ASSUME ShopInv, HistInv, NEW w \in Workers, Proceed(w)
  PROVE  Does(w)
BY QuietSteps, WritingDoes, PropagateDoes, LeavingDoes, CreateDoes, TriageDoes, RemoveDoes DEF Proceed, Writing

----------------------------------------------------------------------------
(* Every step keeps it.                                                    *)

LEMMA HistProceeds ==
  ASSUME ShopInv, HistInv, NEW w \in Workers, Proceed(w), RequestSteps(w)
  PROVE  HistInv'
<1>1. OnlyReq(w) /\ clock' = clock /\ (req'[w] = Idle \/ WentOn(req[w], req'[w]))
  BY Continues
<1>2. Shared' \subseteq astray' /\ astray \ Mends(w) \subseteq astray'
  BY DEF RequestSteps
<1>3. Does(w)
  BY ProceedDoes
<1>4. req'[w].op \in Tells => req'[w].b \in Plates
  BY <1>1, IdleStands DEF WentOn, HistInv
<1>5. req'[w].b \in Plates => w \in WorkingOn(req'[w].b)
  BY <1>1, IdleStands DEF WentOn, WorkingOn
<1> QED BY <1>1, <1>2, <1>3, <1>4, <1>5, RequestKeeps DEF Does

LEMMA HistOpens ==
  ASSUME ShopInv, HistInv, NEW w \in Workers, NEW r, Opens(w, r), RequestSteps(w)
  PROVE  HistInv'
<1>1. /\ req[w] = Idle /\ req'[w] = r /\ OnlyReq(w) /\ Found(r)
      /\ plate' = plate /\ piece' = piece /\ clock' = clock
  BY DEF Opens, OnlyReq, ShopInv, Rows, RequestRows
<1>2. Shared' \subseteq astray' /\ astray \ Mends(w) \subseteq astray'
  BY DEF RequestSteps
<1>3. Placed' /\ Legal(piece)' /\ Aside(w)
  BY <1>1 DEF HistInv, Placed, Exists, Legal, StandsAlone, Aside
<1>4. Stands(req[w])' /\ r.pc \notin Telling /\ (r.op \in Tells => r.b \in Plates)
  BY <1>1 DEF Stands, Found, Telling
<1>5. \A c \in Plates : ~Clear(w, c)
  BY <1>1, IdleStands, IdleDoesNothing DEF Clear, WorkingOn
<1> QED BY <1>1, <1>2, <1>3, <1>4, <1>5, RequestKeeps

LEMMA HistReleases ==
  ASSUME ShopInv, HistInv, NEW w \in Workers, NEW b, req[w] = Idle, Releases(b), RequestSteps(w)
  PROVE  HistInv'
<1>1. req' = req /\ plate' = plate /\ clock' = clock /\ piece' = Released(On(b, piece))
  BY DEF Releases
<1>2. Shared' \subseteq astray' /\ astray \ Mends(w) \subseteq astray'
  BY DEF RequestSteps
<1>3. \A p \in Pieces : SameFor(piece[p], piece'[p])
  BY <1>1, ReleasedSame
<1>4. \A p \in Pieces : piece'[p].plate = piece[p].plate /\ piece'[p].status = piece[p].status
  BY <1>3 DEF SameFor
<1>5. Placed' /\ Aside(w)
  BY <1>1, <1>4 DEF HistInv, Placed, Exists, Aside
<1>6. Legal(piece)'
  BY <1>3 DEF HistInv, Legal, StandsAlone, SameFor
<1>7. \A c \in Plates : ~Clear(w, c)
  BY IdleStands, IdleDoesNothing DEF Clear, WorkingOn
<1> QED BY <1>1, <1>2, <1>5, <1>6, <1>7, IdleStands, RequestKeeps DEF OnlyReq

LEMMA HistStops ==
  ASSUME ShopInv, HistInv, NEW w \in Workers, RequestStops(w)
  PROVE  HistInv'
<1>1. OnlyReq(w) /\ req'[w] = Idle /\ plate' = plate /\ piece' = piece /\ clock' = clock
  BY Fails DEF RequestStops
<1>2. astray' = astray \cup UntoldBy(w)
  BY DEF RequestStops
<1>3. \A c \in Plates : WorkingOn(c)' \subseteq WorkingOn(c) /\ (Sweeping(c)' <=> Sweeping(c))
  BY <1>1, IdleStands, IdleDoesNothing DEF OnlyReq, WorkingOn, Sweeping
<1>4. Shared' \subseteq astray'
  BY <1>2, <1>3 DEF HistInv, Shared
<1>5. Placed' /\ Legal(piece)' /\ Aside(w)
  BY <1>1 DEF HistInv, Placed, Exists, Legal, StandsAlone, Aside
<1>6. ASSUME NEW c \in Plates \ astray', Clear(w, c) PROVE Follows(c)'
  <2>1. c \notin astray /\ c \notin Shared /\ c \notin UntoldBy(w) /\ w \in WorkingOn(c)
    BY <1>2, <1>6 DEF Clear, HistInv
  <2>2. WorkingOn(c) = {w} /\ ~Sweeping(c)
    BY <2>1 DEF Shared, WorkingOn
  <2>3. c \notin UntoldBySweep /\ \A u \in Workers : c \notin UntoldBy(u)
    BY <2>1, <2>2 DEF UntoldBySweep, Sweeping, UntoldBy, WorkingOn
  <2> QED BY <1>1, <2>1, <2>3 DEF HistInv, InStep, Follows
<1> QED BY <1>1, <1>2, <1>4, <1>5, <1>6, IdleStands, RequestKeeps

\* The sweep passes plate b by.
Passed(b) ==
  /\ plate'[b].status = plate[b].status
  /\ \A p \in Pieces : piece'[p].plate = b => piece[p].plate = b /\ piece'[p].status = piece[p].status
  /\ b \in UntoldBySweep' <=> b \in UntoldBySweep
  /\ b \in UntoldBySweep => clock.pc # "tell" /\ clock'.pc # "tell"

LEMMA SweepKeeps ==
  ASSUME ShopInv, HistInv, req' = req, Shared' \subseteq astray', astray \subseteq astray',
         Placed', Legal(piece)', Listed',
         \A b \in Plates \ astray' : \/ Passed(b)
                                     \/ InStep(b)' /\ SweepStands(b)' /\ \A w \in Workers : req[w].b # b
  PROVE  HistInv'
<1>1. ASSUME NEW w \in Workers
      PROVE  /\ req'[w].op \in Tells => req'[w].b \in Plates
             /\ req'[w].b \in Plates \ astray' => Stands(req[w])'
  <2>1. req[w].op \in Tells => req[w].b \in Plates
    BY DEF HistInv
  <2>2. ASSUME NEW b \in Plates \ astray', req[w].b = b PROVE Stands(req[w])'
    <3>1. Stands(req[w]) /\ plate'[b].status = plate[b].status
      BY <2>2 DEF HistInv, Passed
    <3> QED BY <2>2, <3>1 DEF Stands, Exists
  <2> QED BY <2>1, <2>2
<1>2. \A w \in Workers : UntoldBy(w)' = UntoldBy(w)
  BY DEF UntoldBy
<1>3. ASSUME NEW b \in Plates \ astray', Passed(b) PROVE InStep(b)' /\ SweepStands(b)'
  <2>1. InStep(b) /\ SweepStands(b)
    BY DEF HistInv
  <2>2. SweepStands(b)'
    BY <1>3, <2>1 DEF SweepStands, Passed
  <2>3. CASE b \in UntoldBySweep
    BY <1>3, <2>1, <2>2, <2>3 DEF InStep, Passed
  <2>4. CASE b \notin UntoldBySweep
    <3>1. Follows(b) => Follows(b)'
      BY <1>3 DEF Follows, Passed
    <3> QED BY <1>2, <1>3, <2>1, <2>2, <2>4, <3>1 DEF InStep, Passed
  <2> QED BY <2>3, <2>4
<1> QED BY <1>1, <1>3 DEF HistInv

\* A plate the sweep has to do with is nobody else's.
LEMMA SweptAlone ==
  ASSUME HistInv, NEW b \in Plates, b \notin astray, Sweeping(b)
  PROVE  /\ WorkingOn(b) = {} /\ \A w \in Workers : req[w].b # b /\ b \notin UntoldBy(w)
         /\ b \notin UntoldBySweep => Follows(b)
<1>1. WorkingOn(b) = {}
  BY DEF HistInv, Shared
<1>2. \A w \in Workers : req[w].b # b /\ b \notin UntoldBy(w)
  BY <1>1 DEF WorkingOn, UntoldBy
<1> QED BY <1>1, <1>2 DEF HistInv, InStep

LEMMA RestingIs == /\ IsSweep(Resting) /\ Resting.pc = "idle" /\ Resting.todo = {} /\ Resting.b = None
                   /\ \A todo : IsSweep(NextPlate(todo)) /\ NextPlate(todo).todo = todo
                                /\ NextPlate(todo).pc \in {"idle", "settle"}
<1>1. IsSweep(Resting) /\ Resting.pc = "idle" /\ Resting.todo = {} /\ Resting.b = None
  BY DEF Resting, IsSweep
<1>2. ASSUME NEW todo
      PROVE  IsSweep(NextPlate(todo)) /\ NextPlate(todo).todo = todo /\ NextPlate(todo).pc \in {"idle", "settle"}
  <2>1. PICK x, pc, y : x = Resting /\ pc = (IF todo = {} THEN "idle" ELSE "settle")
                        /\ y = [x EXCEPT !.pc = pc, !.todo = todo]
    OBVIOUS
  <2>2. IsSweep(y) /\ y.todo = todo /\ y.pc = pc
    BY <1>1, <2>1 DEF IsSweep
  <2> QED BY <2>1, <2>2 DEF NextPlate
<1> QED BY <1>1, <1>2

LEMMA HistAdvances ==
  ASSUME ShopInv, HistInv, ClockAdvance, Shared' \subseteq astray', astray \subseteq astray'
  PROVE  HistInv'
<1>1. PICK due : due = {b \in Plates : plate[b].status = "scheduled" /\ plate[b].to > 0 /\ plate[b].from <= now}
  OBVIOUS
<1>2. /\ clock = Resting /\ piece' = piece /\ req' = req
      /\ plate' = [b \in Plates |-> IF b \in due THEN [plate[b] EXCEPT !.status = "printing", !.ran = TRUE] ELSE plate[b]]
  BY <1>1 DEF ClockAdvance
<1>3. PICK todo, pc : /\ todo = {<<b, plate[b].printer>> : b \in due} /\ pc = (IF due = {} THEN "select" ELSE "follow")
                      /\ clock' = [Resting EXCEPT !.pc = pc, !.todo = todo]
  BY <1>1 DEF ClockAdvance
<1>4. IsSweep(clock') /\ clock'.pc = pc /\ clock'.todo = todo
  <2>1. PICK x, y : x = Resting /\ y = clock'
    OBVIOUS
  <2>2. y = [x EXCEPT !.pc = pc, !.todo = todo] /\ IsSweep(x)
    BY <1>3, <2>1, RestingIs
  <2>3. IsSweep(y) /\ y.pc = pc /\ y.todo = todo
    BY <2>2 DEF IsSweep
  <2> QED BY <2>1, <2>3
<1>5. /\ \A d \in todo : d[1] \in due /\ d = <<d[1], plate[d[1]].printer>>
      /\ \A b \in due : \E d \in todo : d[1] = b
  <2>1. ASSUME NEW d \in todo PROVE d[1] \in due /\ d = <<d[1], plate[d[1]].printer>>
    <3>1. PICK b \in due : d = <<b, plate[b].printer>>
      BY <1>3
    <3>2. d[1] = b
      BY <3>1
    <3> QED BY <3>1, <3>2
  <2>2. ASSUME NEW b \in due PROVE \E d \in todo : d[1] = b
    <3>1. PICK d : d = <<b, plate[b].printer>>
      OBVIOUS
    <3>2. d[1] = b /\ d \in todo
      BY <1>3, <3>1
    <3> QED BY <3>2
  <2> QED BY <2>1, <2>2
<1>6. Listed'
  BY <1>1, <1>3, <1>4, <1>5 DEF Listed
<1>7. UntoldBySweep = {} /\ UntoldBySweep' = due
  <2>1. UntoldBySweep = {}
    BY <1>2, RestingIs DEF UntoldBySweep
  <2>2. UntoldBySweep' = {d[1] : d \in todo}
    BY <1>3, <1>4, <1>5 DEF UntoldBySweep
  <2> QED BY <1>5, <2>1, <2>2
<1>8. ASSUME NEW b \in Plates
      PROVE  IF b \in due THEN plate[b].status = "scheduled" /\ plate'[b].status = "printing" ELSE plate'[b] = plate[b]
  <2>1. PICK x, y : x = plate[b] /\ y = plate'[b]
    OBVIOUS
  <2>2. IF b \in due THEN x.status = "scheduled" /\ y = [x EXCEPT !.status = "printing", !.ran = TRUE] ELSE y = x
    BY <1>1, <1>2, <2>1
  <2>3. IsPlate(x)
    BY <2>1, PlateIs
  <2>4. IF b \in due THEN x.status = "scheduled" /\ y.status = "printing" ELSE y = x
    BY <2>2, <2>3 DEF IsPlate
  <2> QED BY <2>1, <2>4
<1>9. Placed'
  BY <1>2, <1>8 DEF HistInv, Placed, Exists
<1>10. Legal(piece)'
  BY <1>2 DEF HistInv, Legal, StandsAlone
<1>11. ASSUME NEW b \in Plates \ astray', b \in due
       PROVE  InStep(b)' /\ SweepStands(b)' /\ \A w \in Workers : req[w].b # b
  <2>1. Sweeping(b)'
    BY <1>4, <1>5, <1>11 DEF Sweeping
  <2>2. b \notin Shared'
    OBVIOUS
  <2>3. \A w \in Workers : w \notin WorkingOn(b)'
    BY <2>1, <2>2 DEF Shared
  <2>4. \A w \in Workers : w \notin WorkingOn(b)
    BY <1>2, <2>3 DEF WorkingOn
  <2>5. \A w \in Workers : req[w].b # b /\ b \notin UntoldBy(w)
    BY <2>4 DEF WorkingOn, UntoldBy
  <2>6. Follows(b)
    BY <1>7, <2>5 DEF HistInv, InStep
  <2>7. \A p \in Pieces : piece'[p].plate = b => piece'[p].status = "scheduled"
    BY <1>2, <1>8, <1>11, <2>6 DEF Follows, Planning
  <2>8. clock'.pc = "follow" /\ b \in UntoldBySweep'
    BY <1>3, <1>4, <1>7, <1>11
  <2> QED BY <1>8, <1>11, <2>5, <2>7, <2>8 DEF InStep, SweepStands
<1>12. ASSUME NEW b \in Plates \ astray', b \notin due PROVE Passed(b)
  BY <1>2, <1>7, <1>8, <1>12 DEF Passed
<1> QED BY <1>2, <1>6, <1>9, <1>10, <1>11, <1>12, SweepKeeps

LEMMA HistFollows ==
  ASSUME ShopInv, HistInv, NEW b, NEW printer, ClockFollow(b, printer),
         Shared' \subseteq astray', astray \subseteq astray'
  PROVE  HistInv'
<1>1. /\ clock.pc = "follow" /\ <<b, printer>> \in clock.todo /\ b \in Plates
      /\ plate' = plate /\ req' = req
  <2>1. <<b, printer>>[1] = b
    OBVIOUS
  <2> QED BY <2>1 DEF ClockFollow, HistInv, Listed
<1>2. PICK todo : /\ todo = clock.todo \ {<<b, printer>>}
                  /\ clock' = [clock EXCEPT !.pc = "lock", !.b = b, !.printer = printer, !.todo = todo]
  BY DEF ClockFollow
<1>3. IsSweep(clock') /\ clock'.pc = "lock" /\ clock'.todo = todo
  <2>1. PICK x, y : x = clock /\ y = clock'
    OBVIOUS
  <2>2. y = [x EXCEPT !.pc = "lock", !.b = b, !.printer = printer, !.todo = todo] /\ IsSweep(x)
    BY <1>2, <2>1 DEF HistInv, Listed
  <2>3. IsSweep(y) /\ y.pc = "lock" /\ y.todo = todo
    BY <2>2 DEF IsSweep
  <2> QED BY <2>1, <2>3
<1>4. Listed'
  BY <1>2, <1>3 DEF Listed, HistInv
<1>5. /\ UntoldBySweep = {d[1] : d \in clock.todo}
      /\ UntoldBySweep' = {d[1] : d \in todo}
  BY <1>1, <1>3 DEF UntoldBySweep
<1>6. UntoldBySweep' = UntoldBySweep \ {b} /\ b \in UntoldBySweep
  <2>1. <<b, printer>>[1] = b
    OBVIOUS
  <2>2. \A d \in todo : d[1] # b
    BY <1>1, <1>2, <2>1 DEF HistInv, Listed
  <2>3. \A d \in clock.todo : d \in todo \/ d[1] = b
    BY <1>2, <2>1
  <2>4. todo \subseteq clock.todo
    BY <1>2
  <2> QED BY <1>1, <1>5, <2>1, <2>2, <2>3, <2>4
<1>7. ASSUME NEW p \in Pieces
      PROVE  /\ piece'[p].plate = piece[p].plate
             /\ piece[p].plate = b /\ piece[p].status = "scheduled" => piece'[p].status = "printing"
             /\ piece[p].plate # b => piece'[p] = piece[p]
  <2>1. PICK x, y, st : x = piece[p] /\ y = piece'[p] /\ st = "printing"
    OBVIOUS
  <2>2. IsPiece(x) /\ y = IF x.plate = b /\ x.status = "scheduled" THEN [x EXCEPT !.status = st] ELSE x
    BY <2>1, PieceIs DEF ClockFollow
  <2>3. /\ y.plate = x.plate /\ (x.plate = b /\ x.status = "scheduled" => y.status = st)
        /\ x.plate # b => y = x
    BY <2>2 DEF IsPiece
  <2> QED BY <2>1, <2>3
<1>8. Placed'
  BY <1>1, <1>7 DEF HistInv, Placed, Exists
<1>9. Legal(piece)'
  BY <1>1, <1>7 DEF HistInv, Legal
<1>10. b \notin astray => InStep(b)' /\ SweepStands(b)' /\ \A w \in Workers : req[w].b # b
  <2> SUFFICES ASSUME b \notin astray PROVE InStep(b)' /\ SweepStands(b)' /\ \A w \in Workers : req[w].b # b
    OBVIOUS
  <2>1. Sweeping(b)
    <3>1. <<b, printer>>[1] = b
      OBVIOUS
    <3> QED BY <1>1, <3>1 DEF Sweeping
  <2>2. (\A p \in Pieces : piece[p].plate = b => piece[p].status = "scheduled") /\ plate[b].status = "printing"
    BY <1>1, <1>6 DEF HistInv, InStep, SweepStands
  <2>3. Follows(b)'
    BY <1>1, <1>7, <2>2 DEF Follows, Planning
  <2> QED BY <1>1, <1>6, <2>1, <2>3, SweptAlone DEF InStep, SweepStands
<1>11. ASSUME NEW c \in Plates, c # b PROVE Passed(c)
  BY <1>1, <1>3, <1>6, <1>7, <1>11 DEF Passed
<1> QED BY <1>1, <1>4, <1>8, <1>9, <1>10, <1>11, SweepKeeps

LEMMA HistSettles ==
  ASSUME ShopInv, HistInv, NEW b, NEW printer, ClockSettle(b, printer),
         Shared' \subseteq astray', astray \subseteq astray'
  PROVE  HistInv'
<1>1. clock.pc = "settle" /\ <<b, printer>> \in clock.todo /\ b \in Plates /\ req' = req
  <2>1. <<b, printer>>[1] = b
    OBVIOUS
  <2> QED BY <2>1 DEF ClockSettle, HistInv, Listed
<1>2. PICK todo, os : /\ todo = clock.todo \ {<<b, printer>>}
                      /\ clock' = [clock EXCEPT !.pc = "tell", !.b = b, !.todo = todo, !.orders = os]
  BY DEF ClockSettle
<1>3. IsSweep(clock') /\ clock'.pc = "tell" /\ clock'.todo = todo /\ clock'.b = b
  <2>1. PICK x, y : x = clock /\ y = clock'
    OBVIOUS
  <2>2. y = [x EXCEPT !.pc = "tell", !.b = b, !.todo = todo, !.orders = os] /\ IsSweep(x)
    BY <1>2, <2>1 DEF HistInv, Listed
  <2>3. IsSweep(y) /\ y.pc = "tell" /\ y.todo = todo /\ y.b = b
    BY <2>2 DEF IsSweep
  <2> QED BY <2>1, <2>3
<1>4. Listed'
  BY <1>1, <1>2, <1>3 DEF Listed, HistInv
<1>5. UntoldBySweep = {} /\ UntoldBySweep' = {b}
  BY <1>1, <1>3 DEF UntoldBySweep
<1>6. /\ \A c \in Plates \ {b} : plate'[c] = plate[c]
      /\ IF Exists(b) THEN plate'[b].status = "done" ELSE plate'[b] = plate[b]
  <2>1. PICK x, row : x = plate[b] /\ row = [x EXCEPT !.status = "done", !.ran = TRUE] /\ SetPlate(b, row)
    BY DEF ClockSettle
  <2>2. row.status = "done"
    BY <1>1, <2>1, PlateIs DEF IsPlate
  <2> QED BY <1>1, <2>1, <2>2 DEF SetPlate, ShopInv, Rows, PlateRows
<1>7. \A p \in Pieces : SameFor(piece[p], piece'[p])
  BY ReleasedSame DEF ClockSettle
<1>8. Placed'
  <2>1. \A c \in Plates : Exists(c) => Exists(c)'
    BY <1>6 DEF Exists
  <2> QED BY <1>7, <2>1 DEF HistInv, Placed, Exists, SameFor
<1>9. Legal(piece)'
  BY <1>7 DEF HistInv, Legal, StandsAlone, SameFor
<1>10. b \notin astray => InStep(b)' /\ SweepStands(b)' /\ \A w \in Workers : req[w].b # b
  <2> SUFFICES ASSUME b \notin astray PROVE InStep(b)' /\ SweepStands(b)' /\ \A w \in Workers : req[w].b # b
    OBVIOUS
  <2>1. Sweeping(b)
    <3>1. <<b, printer>>[1] = b
      OBVIOUS
    <3> QED BY <1>1, <3>1 DEF Sweeping
  <2> QED BY <1>1, <1>3, <1>5, <1>6, <2>1, SweptAlone DEF InStep, SweepStands, Exists
<1>11. ASSUME NEW c \in Plates, c # b PROVE Passed(c)
  BY <1>5, <1>6, <1>7, <1>11 DEF Passed, SameFor
<1> QED BY <1>1, <1>4, <1>8, <1>9, <1>10, <1>11, SweepKeeps

LEMMA HistTells ==
  ASSUME ShopInv, HistInv, ClockTell, Shared' \subseteq astray', astray \subseteq astray'
  PROVE  HistInv'
<1>1. PICK b : b = clock.b
  OBVIOUS
<1>2. clock.pc = "tell" /\ b \in Plates /\ plate' = plate /\ req' = req
  BY <1>1 DEF ClockTell, HistInv, Listed
<1>3. IsSweep(clock') /\ clock'.pc \in {"orders", "idle", "settle"} /\ clock'.todo = clock.todo
  <2>1. CASE clock' = NextPlate(clock.todo)
    BY <2>1, RestingIs
  <2>2. CASE clock' = [clock EXCEPT !.pc = "orders"]
    <3>1. PICK x, y : x = clock /\ y = clock'
      OBVIOUS
    <3>2. y = [x EXCEPT !.pc = "orders"] /\ IsSweep(x)
      BY <2>2, <3>1 DEF HistInv, Listed
    <3>3. IsSweep(y) /\ y.pc = "orders" /\ y.todo = x.todo
      BY <3>2 DEF IsSweep
    <3> QED BY <3>1, <3>3
  <2> QED BY <2>1, <2>2 DEF ClockTell
<1>4. Listed'
  BY <1>3 DEF Listed, HistInv
<1>5. UntoldBySweep = {b} /\ UntoldBySweep' = {}
  BY <1>1, <1>2, <1>3 DEF UntoldBySweep
<1>6. ASSUME NEW p \in Pieces
      PROVE  /\ piece'[p].plate = piece[p].plate
             /\ piece[p].plate = b => piece'[p].status = "done"
             /\ piece[p].plate # b => piece'[p] = piece[p]
  <2>1. PICK x, y, st : x = piece[p] /\ y = piece'[p] /\ st = "done"
    OBVIOUS
  <2>2. IsPiece(x) /\ y = IF x.plate = b THEN [x EXCEPT !.status = st, !.stamped = TRUE] ELSE x
    BY <1>1, <2>1, PieceIs DEF ClockTell
  <2>3. y.plate = x.plate /\ (x.plate = b => y.status = st) /\ (x.plate # b => y = x)
    BY <2>2 DEF IsPiece
  <2> QED BY <2>1, <2>3
<1>7. Placed'
  BY <1>2, <1>6 DEF HistInv, Placed, Exists
<1>8. Legal(piece)'
  BY <1>2, <1>6 DEF HistInv, Legal
<1>9. b \notin astray => InStep(b)' /\ SweepStands(b)' /\ \A w \in Workers : req[w].b # b
  <2> SUFFICES ASSUME b \notin astray PROVE InStep(b)' /\ SweepStands(b)' /\ \A w \in Workers : req[w].b # b
    OBVIOUS
  <2>1. Sweeping(b)
    BY <1>1 DEF Sweeping
  <2>2. ~Exists(b) \/ plate[b].status = "done"
    BY <1>2, <1>5 DEF HistInv, SweepStands
  <2>3. Follows(b)'
    <3>1. CASE plate[b].status = "done"
      BY <1>2, <1>6, <3>1 DEF Follows, Planning
    <3>2. CASE ~Exists(b)
      <4>1. \A p \in Pieces : piece'[p].plate # b
        BY <1>2, <1>6, <3>2 DEF HistInv, Placed
      <4> QED BY <4>1 DEF Follows
    <3> QED BY <2>2, <3>1, <3>2
  <2> QED BY <1>2, <1>5, <2>1, <2>3, SweptAlone DEF InStep, SweepStands
<1>10. ASSUME NEW c \in Plates, c # b PROVE Passed(c)
  BY <1>2, <1>5, <1>6, <1>10 DEF Passed
<1> QED BY <1>2, <1>4, <1>7, <1>8, <1>9, <1>10, SweepKeeps

\* The steps of the sweep that neither write nor tell a plate.
LEMMA HistGoesOn ==
  ASSUME ShopInv, HistInv, Shared' \subseteq astray',
         \/ ClockLock /\ astray \subseteq astray'
         \/ ClockSelect /\ astray \subseteq astray'
         \/ (\E o \in Orders : ClockOrder(o)) /\ astray \subseteq astray'
         \/ TickFails /\ astray \cup UntoldBySweep \subseteq astray'
         \/ clock' = clock /\ plate' = plate /\ piece' = piece /\ req' = req /\ astray \subseteq astray'
  PROVE  HistInv'
<1>1. plate' = plate /\ piece' = piece /\ req' = req /\ astray \subseteq astray'
  BY DEF ClockLock, ClockSelect, ClockOrder, TickFails, world
<1>2. Listed' /\ \A b \in Plates \ astray' : /\ b \in UntoldBySweep' <=> b \in UntoldBySweep
                                             /\ \/ clock' = clock
                                                \/ b \in UntoldBySweep => clock.pc # "tell" /\ clock'.pc # "tell"
  <2>1. CASE ClockLock
    <3>1. PICK todo, pc, x, y : /\ todo = clock.todo /\ pc = (IF todo = {} THEN "select" ELSE "follow")
                                /\ x = Resting /\ y = clock' /\ y = [x EXCEPT !.pc = pc, !.todo = todo]
      BY <2>1 DEF ClockLock
    <3>2. IsSweep(y) /\ y.pc = pc /\ y.todo = todo
      BY <3>1, RestingIs DEF IsSweep
    <3>3. clock.pc = "lock" /\ IsSweep(clock') /\ clock'.pc = pc /\ clock'.todo = clock.todo /\ pc \in {"select", "follow"}
      BY <2>1, <3>1, <3>2 DEF ClockLock
    <3>4. Listed'
      BY <3>3 DEF Listed, HistInv
    <3>5. UntoldBySweep = {d[1] : d \in clock.todo} /\ UntoldBySweep' = {d[1] : d \in clock.todo}
      BY <3>1, <3>3 DEF UntoldBySweep
    <3> QED BY <3>3, <3>4, <3>5
  <2>2. CASE ClockSelect
    <3>0. PICK due : due = {b \in Plates : Elapsed(b)}
      OBVIOUS
    <3>1. PICK todo, pc, x, y :
            /\ due \subseteq Plates /\ todo = {<<b, plate[b].printer>> : b \in due}
            /\ pc = (IF due = {} THEN "idle" ELSE "settle")
            /\ x = Resting /\ y = clock' /\ y = [x EXCEPT !.pc = pc, !.todo = todo]
      BY <2>2, <3>0 DEF ClockSelect
    <3>2. IsSweep(y) /\ y.pc = pc /\ y.todo = todo
      BY <3>1, RestingIs DEF IsSweep
    <3>3. ASSUME NEW d \in todo PROVE d[1] \in Plates /\ d = <<d[1], plate[d[1]].printer>>
      <4>1. PICK b \in due : d = <<b, plate[b].printer>>
        BY <3>1
      <4>2. d[1] = b
        BY <4>1
      <4> QED BY <3>1, <4>1, <4>2
    <3>4. Listed'
      BY <3>1, <3>2, <3>3 DEF Listed
    <3>5. UntoldBySweep = {} /\ UntoldBySweep' = {}
      BY <2>2, <3>1, <3>2 DEF ClockSelect, UntoldBySweep
    <3> QED BY <3>4, <3>5
  <2>3. CASE \E o \in Orders : ClockOrder(o)
    <3>1. clock.pc = "orders" /\ IsSweep(clock') /\ clock'.pc \in {"orders", "idle", "settle"} /\ clock'.todo = clock.todo
      <4>1. CASE clock' = NextPlate(clock.todo)
        BY <2>3, <4>1, RestingIs DEF ClockOrder
      <4>2. CASE \E o : clock' = [clock EXCEPT !.orders = @ \ {o}]
        <5>1. PICK x, y, os : x = clock /\ y = clock' /\ y = [x EXCEPT !.orders = os] /\ x.pc = "orders"
          BY <2>3, <4>2 DEF ClockOrder
        <5>2. IsSweep(x)
          BY <5>1 DEF HistInv, Listed
        <5>3. IsSweep(y) /\ y.pc = x.pc /\ y.todo = x.todo
          BY <5>1, <5>2 DEF IsSweep
        <5> QED BY <5>1, <5>3
      <4> QED BY <2>3, <4>1, <4>2 DEF ClockOrder
    <3>2. Listed'
      BY <3>1 DEF Listed, HistInv
    <3>3. UntoldBySweep = {} /\ UntoldBySweep' = {}
      BY <3>1 DEF UntoldBySweep
    <3> QED BY <3>2, <3>3
  <2>4. CASE TickFails /\ astray \cup UntoldBySweep \subseteq astray'
    <3>1. clock' = Resting
      BY <2>4 DEF TickFails
    <3>2. Listed' /\ UntoldBySweep' = {}
      BY <3>1, RestingIs DEF Listed, UntoldBySweep
    <3> QED BY <2>4, <3>2
  <2>5. CASE clock' = clock
    BY <2>5 DEF HistInv, Listed, IsSweep, UntoldBySweep
  <2> QED BY <2>1, <2>2, <2>3, <2>4, <2>5
<1>3. Placed' /\ Legal(piece)'
  BY <1>1 DEF HistInv, Placed, Exists, Legal, StandsAlone
<1>4. CASE clock' = clock
  <2>1. ASSUME NEW b \in Plates \ astray' PROVE InStep(b)' /\ SweepStands(b)'
    <3>1. InStep(b) /\ SweepStands(b)
      BY <1>1 DEF HistInv
    <3> QED BY <1>1, <1>4, <3>1 DEF InStep, SweepStands, UntoldBySweep, UntoldBy, Follows, Exists
  <2>2. \A w \in Workers : /\ req'[w].op \in Tells => req'[w].b \in Plates
                           /\ req'[w].b \in Plates \ astray' => Stands(req[w])'
    BY <1>1 DEF HistInv, Stands, Exists
  <2> QED BY <1>2, <1>3, <2>1, <2>2 DEF HistInv
<1>5. CASE clock' # clock
  <2>1. \A b \in Plates \ astray' : Passed(b)
    BY <1>1, <1>2, <1>5 DEF Passed
  <2> QED BY <1>1, <1>2, <1>3, <2>1, SweepKeeps
<1> QED BY <1>4, <1>5

LEMMA HistStep ==
  ASSUME ShopInv, HistInv, [TracedNext]_<<vars, history>>
  PROVE  HistInv'
<1>1. ASSUME NEW w \in Workers, RequestSteps(w) PROVE HistInv'
  <2>1. CASE Call(w)
    BY <1>1, <2>1, CallIs, HistOpens, HistReleases
  <2>2. CASE Proceed(w)
    BY <1>1, <2>2, HistProceeds
  <2> QED BY <1>1, <2>1, <2>2 DEF RequestSteps
<1>2. ASSUME ClockSteps PROVE HistInv'
  <2>1. Shared' \subseteq astray' /\ astray \subseteq astray'
    BY <1>2 DEF ClockSteps
  <2>2. TimePasses => clock' = clock /\ plate' = plate /\ piece' = piece /\ req' = req
    BY DEF TimePasses, world
  <2> QED BY <1>2, <2>1, <2>2, HistAdvances, HistFollows, HistSettles, HistTells, HistGoesOn
          DEF ClockSteps, Tick, FollowOne, SettleOne
<1>3. ASSUME ClockStops PROVE HistInv'
  <2>1. clock' = Resting /\ req' = req /\ piece' = piece /\ astray \cup UntoldBySweep \subseteq astray'
    BY <1>3 DEF ClockStops, TickFails, world
  <2>2. \A b \in Plates : WorkingOn(b)' = WorkingOn(b) /\ ~Sweeping(b)'
    BY <2>1, RestingIs DEF WorkingOn, Sweeping
  <2>3. Shared' \subseteq astray'
    BY <2>1, <2>2 DEF Shared, HistInv
  <2> QED BY <1>3, <2>1, <2>3, HistGoesOn DEF ClockStops
<1>4. ASSUME UNCHANGED <<vars, history>> PROVE HistInv'
  <2>1. clock' = clock /\ plate' = plate /\ piece' = piece /\ req' = req /\ astray' = astray
    BY <1>4 DEF vars, history
  <2>2. Shared' \subseteq astray'
    <3>1. \A b \in Plates : WorkingOn(b)' = WorkingOn(b) /\ (Sweeping(b)' <=> Sweeping(b))
      BY <2>1 DEF WorkingOn, Sweeping
    <3> QED BY <2>1, <3>1 DEF Shared, HistInv
  <2> QED BY <2>1, <2>2, HistGoesOn
<1> QED BY <1>1, <1>2, <1>3, <1>4, HistStops DEF TracedNext

LEMMA HistInit ==
  ASSUME TracedInit
  PROVE  HistInv
<1>1. /\ \A p \in Pieces : piece[p] = Loose
      /\ \A w \in Workers : req[w] = Idle
      /\ clock = Resting /\ astray = {}
  BY DEF TracedInit, Init
<1>2. Placed /\ \A p \in Pieces : piece[p].plate = None
  BY <1>1, LooseIs DEF Placed
<1>3. Legal(piece)
  BY <1>1, LooseIs DEF Legal, StandsAlone, Busy
<1>4. Listed /\ UntoldBySweep = {}
  BY <1>1, RestingIs DEF Listed, UntoldBySweep
<1>5. \A b \in Plates : WorkingOn(b) = {}
  BY <1>1, IdleStands, IdleDoesNothing DEF WorkingOn
<1>6. Shared = {}
  BY <1>5 DEF Shared
<1>7. \A b \in Plates : InStep(b) /\ SweepStands(b)
  BY <1>2, <1>4 DEF InStep, SweepStands, Follows
<1> QED BY <1>1, <1>2, <1>3, <1>4, <1>6, <1>7, IdleStands DEF HistInv

LEMMA HistAlways == TracedSpec => [](ShopInv /\ HistInv)
<1>1. TracedInit => ShopInv /\ HistInv
  BY ShopInit, HistInit DEF TracedInit
<1>2. ShopInv /\ HistInv /\ [TracedNext]_<<vars, history>> => (ShopInv /\ HistInv)'
  BY TracedIsNext, ShopStep, HistStep
<1> QED BY <1>1, <1>2, PTL DEF TracedSpec

\* The pieces on a plate nobody is working on say what the plate says, unless
\* two requests, or a request and the sweep, worked on it at a time, or one
\* failed between the plate's statement and propagatePieceStatus, and no
\* request had it to itself since.
THEOREM PartsFollow == TracedSpec => []PartsFollowTheirPlate
<1>1. ASSUME ShopInv, HistInv PROVE PartsFollowTheirPlate
  <2> SUFFICES ASSUME NEW p \in Pieces, NEW b, b = piece[p].plate, b # None, b \notin astray,
                      WorkingOn(b) = {}, ~Sweeping(b)
               PROVE  IF plate[b].status \in Planning THEN piece[p].status \in Planning
                      ELSE piece[p].status = plate[b].status
    BY DEF PartsFollowTheirPlate
  <2>1. b \in Plates
    BY <1>1 DEF HistInv, Placed
  <2>2. b \notin UntoldBySweep
    BY DEF UntoldBySweep, Sweeping
  <2>3. \A w \in Workers : b \notin UntoldBy(w)
    BY DEF UntoldBy, WorkingOn
  <2>4. Follows(b)
    BY <1>1, <2>1, <2>2, <2>3 DEF HistInv, InStep
  <2> QED BY <2>4 DEF Follows
<1> QED BY <1>1, HistAlways, PTL

\* A survivor carries out the evidence of its status.
LEMMA DetachedIs ==
  ASSUME NEW x, IsPiece(x), x.status # "printing"
  PROVE  StandsAlone(Detached(x))
<1>1. PICK st, y : /\ st = (IF x.status \in {"cancelled", "done", "failed", "printing"} THEN x.status ELSE "pending")
                   /\ y = [x EXCEPT !.plate = None, !.status = st, !.stamped = x.stamped \/ x.status = "done"]
                   /\ y = Detached(x)
  BY DEF Detached
<1>2. y.status = st /\ (x.status = "done" => y.stamped)
  BY <1>1 DEF IsPiece
<1>3. st \in {"cancelled", "done", "failed", "pending"} /\ (st = "done" => x.status = "done")
  BY <1>1
<1> QED BY <1>1, <1>2, <1>3 DEF StandsAlone, Busy

\* Taking a piece off a plate that does not print is never refused by the
\* constraints of order_pieces, unless the plate is astray: the survivors
\* carry out what their status requires (reevaluateBedAfterPieceRemoval).
THEOREM PlatesComeApart == TracedSpec => []SettledPlatesComeApart
<1>1. ASSUME ShopInv, HistInv PROVE SettledPlatesComeApart
  <2> SUFFICES ASSUME NEW w \in Workers, NEW r, r = req[w], NEW b, b = PlateOfRemoval(r),
                      At(w, "remove", "tx"), b # None, b \notin astray, plate[b].status # "printing"
               PROVE  Legal(Reevaluated(b, Removed(r)).rows)
    BY DEF SettledPlatesComeApart, Removable
  <2>1. PICK rows : rows = Removed(r)
    OBVIOUS
  <2>2. /\ Whole(rows)
        /\ \A p \in Pieces : \/ rows[p] = piece[p] \/ rows[p] = Deleted
                             \/ IsPiece(rows[p]) /\ rows[p].plate = piece[p].plate /\ rows[p].status = "cancelled"
    BY <1>1, <2>1, GoneFrom DEF Whole
  <2>3. ASSUME NEW p \in Pieces, rows[p].plate = None PROVE StandsAlone(rows[p])
    BY <1>1, <2>2, <2>3, LooseIs DEF HistInv, Legal, StandsAlone, Busy
  <2>4. ASSUME NEW p \in Pieces, rows[p].plate = b PROVE StandsAlone(Detached(rows[p]))
    <3>1. /\ IsPiece(rows[p]) /\ piece[p].plate = b
          /\ rows[p] = piece[p] \/ rows[p].status = "cancelled"
      BY <1>1, <2>2, <2>4, LooseIs, PieceIs
    <3>2. b \in Plates
      BY <1>1, <3>1 DEF HistInv, Placed
    <3>3. w \in WorkingOn(b) /\ UntoldBy(w) = {}
      BY DEF WorkingOn, PlateOfRemoval, At, UntoldBy, Telling
    <3>4. WorkingOn(b) = {w} /\ ~Sweeping(b)
      <4>1. b \notin Shared /\ WorkingOn(b) \subseteq Workers
        BY <1>1 DEF HistInv, WorkingOn
      <4> QED BY <3>2, <3>3, <4>1 DEF Shared
    <3>5. b \notin UntoldBySweep /\ \A u \in Workers : b \notin UntoldBy(u)
      BY <3>3, <3>4 DEF UntoldBySweep, Sweeping, UntoldBy, WorkingOn
    <3>6. Follows(b)
      BY <1>1, <3>2, <3>5 DEF HistInv, InStep
    <3>7. piece[p].status # "printing"
      BY <3>1, <3>6 DEF Follows, Planning
    <3> QED BY <3>1, <3>7, DetachedIs
  <2>5. PICK after : after = Reevaluated(b, rows)
    OBVIOUS
  <2>6. WhatIsLeft(b, rows, after)
    BY <2>2, <2>5, ReevaluatedIs
  <2>7. CASE after.rows = rows
    BY <2>1, <2>3, <2>5, <2>7 DEF Legal
  <2>8. CASE after.rows = [p \in Pieces |-> IF rows[p].plate = b THEN Detached(rows[p]) ELSE rows[p]]
    <3>1. PICK g : g = after.rows
      OBVIOUS
    <3>2. \A p \in Pieces : g[p] = IF rows[p].plate = b THEN Detached(rows[p]) ELSE rows[p]
      BY <2>8, <3>1
    <3>3. Legal(g)
      BY <2>3, <2>4, <3>2 DEF Legal
    <3> QED BY <2>1, <2>5, <3>1, <3>3
  <2> QED BY <2>6, <2>7, <2>8 DEF WhatIsLeft
<1> QED BY <1>1, HistAlways, PTL
=============================================================================
