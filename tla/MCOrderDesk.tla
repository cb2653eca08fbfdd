----------------------------- MODULE MCOrderDesk -----------------------------
(* Runs of OrderDesk, scene by scene as in MCBooks: a run draws the desks    *)
(* that are staffed and how the switches are set, and only they act.         *)
EXTENDS OrderDesk, TLC, SequencesExt
CONSTANT Scenes
VARIABLE scene

MCWorkers == Requests \cup {Sweeper}
MCSymmetry == Permutations(Requests)

MCOn  == [sweep |-> TRUE, delete |-> TRUE]
MCDry == [sweep |-> TRUE, delete |-> FALSE]

\* The n-th of S, in some order.
Nth(S, n) == SetToSeq(S)[n]

\* Two draft pieces, copies of each other, on a plate with a file of its own;
\* a fulfilled order whose piece is another copy; and its model, attached.
MCStocked ==
  LET o == Nth(Orders, 1)  p == Nth(Orders, 2)
      x == Nth(Pieces, 1)  y == Nth(Pieces, 2)  z == Nth(Pieces, 3)
      k == Nth(Keys, 1)  l == Nth(Keys, 2)  m == Nth(Keys, 3)
      a == Nth(Attachments, 1)  b == Nth(Plates, 1) IN
  \E ran \in (IF "plate" \in scene THEN BOOLEAN ELSE {FALSE}) :
    /\ bucket = {k, l, m} /\ minted = {k, l, m}
    /\ armed \in (IF "sweep" \in scene THEN {MCOn, MCDry} ELSE {MCOn})
    /\ order = [NoOrders EXCEPT ![o] = [NoOrder EXCEPT !.there = TRUE],
                                ![p] = [NoOrder EXCEPT !.there = TRUE, !.status = "fulfilled"]]
    /\ piece = [v \in Pieces |->
                  CASE v \in {x, y} -> [NoPiece EXCEPT !.there = TRUE, !.order = o, !.plate = b, !.key = k]
                    [] v = z -> [NoPiece EXCEPT !.there = TRUE, !.order = p, !.key = k,
                                                !.status = "done", !.fulfilment = "fulfilled"]
                    [] OTHER -> NoPiece]
    /\ plate = [v \in Plates |-> IF v = b THEN [NoPlate EXCEPT !.there = TRUE, !.key = l, !.ran = ran] ELSE NoPlate]
    /\ attachment = [v \in Attachments |-> IF v = a /\ "file" \notin scene THEN [there |-> TRUE, order |-> p, kind |-> "stl", key |-> m]
                                           ELSE NoAttachment]

\* An empty book, but for an order to work on.
MCEmpty ==
  /\ bucket = {} /\ minted = {} /\ armed = MCOn
  /\ order = [NoOrders EXCEPT ![Nth(Orders, 1)].there = "piece" \in scene]
  /\ piece = NoPieces /\ attachment = NoAttachments /\ plate = NoPlates

\* Bounds on the scene in which orders get their owners.
MCFewOrders ==
  /\ counter' <= 1 /\ Cardinality(There(order')) <= IF scene = {"place", "owner"} THEN 2 ELSE 1
  /\ \A c \in Customers : customer'[c].total <= 2

\* And on the scene in which rows come to share a file.
MCNewFiles ==
  /\ \A a \in There(attachment') : attachment'[a].kind = "stl" /\ attachment'[a].key \in PieceKeys(Pieces) \cup {attachment[a].key}
  /\ Cardinality(There(piece') \ There(piece)) <= 1
  /\ \A x \in There(piece') \ There(piece) : piece'[x].key # None

MCOneByOne == "file" \in scene => /\ \A r \in Requests : Cardinality(req'[r].xs) <= 1
                                   /\ spilled' = spilled

MCInit ==
  /\ scene \in Scenes
  /\ DeskInit
  /\ IF "remove" \in scene THEN MCStocked ELSE MCEmpty
MCNext ==
  /\ \/ "place" \in scene /\ PlaceNext
     \/ "mint" \in scene /\ MintNext
     \/ "type" \in scene /\ TypeNext
     \/ "erase" \in scene /\ EraseNext
     \/ "owner" \in scene /\ OwnerNext /\ MCFewOrders
     \/ "customer" \in scene /\ CustomerNext
     \/ "piece" \in scene /\ PieceNext /\ Cardinality(There(piece')) <= 1 /\ Cardinality(minted') <= 2
     \/ "patch" \in scene /\ PatchNext
     \/ "file" \in scene /\ FileNext /\ MCNewFiles
     \/ "detach" \in scene /\ DetachNext
     \/ "remove" \in scene /\ RemoveNext /\ MCOneByOne
     \/ "plate" \in scene /\ PlateNext
     \/ "sweep" \in scene /\ SweepNext
     \/ "shop" \in scene /\ ShopNext
     \/ scene \cap {"file", "owner"} = {} /\ Crash
  /\ UNCHANGED scene
MCSpec == MCInit /\ [][MCNext]_<<deskVars, scene>>
=============================================================================
