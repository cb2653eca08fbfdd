-------------------------- MODULE MCPlateLifecycle --------------------------
(* Model values and bounds for PlateLifecycle: every piece belongs to one    *)
(* order, a plate takes one unit of material and one of time, and each spool *)
(* or tank holds enough for one plate.  One operator triages, the other has  *)
(* every route that plans, ends or deletes a plate.                          *)
EXTENDS PlateLifecycle

MCOrderOf  == [p \in Pieces |-> CHOOSE o \in Orders : TRUE]
MCWhole    == {Pieces}
MCScarce   == [s \in Stocks |-> 1]
Raced      == {"create", "assign", "files", "release", "schedule", "complete", "cancel", "triage", "delete"}
MCRoutes   == [w \in Workers |-> Raced]

Asks(w) == IF w = CHOOSE v \in Workers : TRUE THEN {"triage"} ELSE Raced

InRace == \A w \in Workers : req[w] = Idle /\ req'[w] # Idle => req'[w].op \in Asks(w)

MCNext == Next /\ InRace
MCSpec == Init /\ [][MCNext]_vars /\ Fairness
=============================================================================
