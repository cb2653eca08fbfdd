--------------------------- MODULE MCPlateHistory ---------------------------
(* Model values, bounds and scenes for PlateHistory.  Two pieces of one      *)
(* order, one machine, one spool that is enough for one plate:               *)
(*   shop    one operator with every route, and the clock;                   *)
(*   pair    a plate planned, booked and picked apart while another operator *)
(*           completes, cancels and triages it;                              *)
(*   board   two plates, one after the other on the machine, and the clock;  *)
(*   rivals  two plates booked by two operators, ahead of the clock.         *)
EXTENDS PlateHistory, TLC

VARIABLE scene

MCOrderOf == [p \in Pieces |-> CHOOSE o \in Orders : TRUE]
MCBatches == {{p} : p \in Pieces} \cup {Pieces}
MCScarce  == [s \in Stocks |-> 1]
Planned   == {"create", "assign", "reserve", "schedule", "unschedule", "complete", "cancel",
              "restore", "reprint", "triage", "disassemble", "delete", "remove"}
MCRoutes  == [w \in Workers |-> Planned]

First(w) == w = CHOOSE v \in Workers : TRUE

Asks(w) ==
  CASE scene = "shop"   -> IF First(w) THEN Planned ELSE {}
    [] scene = "pair"   -> IF First(w) THEN {"create", "assign", "schedule", "remove"} ELSE {"complete", "cancel", "triage"}
    [] scene = "board"  -> IF First(w) THEN {"create", "assign", "schedule", "cancel"} ELSE {}
    [] scene = "rivals" -> IF First(w) THEN {"create", "assign", "schedule"} ELSE {"schedule"}

TwoPlates == scene \in {"board", "rivals"}

\* A plate for every piece, or one with all of them.
Makes(r) == IF TwoPlates THEN r.ids # Pieces
            ELSE r.ids = Pieces /\ \A c \in Plates \ {r.b} : plate[c].status = "absent"

InScene ==
  /\ scene = "rivals" => clock' = clock /\ now' = now
  /\ \A w \in Workers : req'[w] # Idle /\ req'[w] # req[w] =>
       /\ req'[w].op \in Asks(w)
       /\ req'[w].op = "create" => Makes(req'[w])
       /\ req'[w].op = "schedule" /\ ~TwoPlates => req'[w].at = 0

MCInit == TracedInit /\ scene \in {"shop", "pair", "board", "rivals"}
MCNext == TracedNext /\ InScene /\ now' <= 1 /\ UNCHANGED scene
MCSpec == MCInit /\ [][MCNext]_<<vars, history, scene>>
Symmetry == Permutations(Plates)
=============================================================================
