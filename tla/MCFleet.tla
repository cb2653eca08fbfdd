------------------------------- MODULE MCFleet -------------------------------
(* Runs of Fleet, scene by scene as in MCBooks: a run draws the desks that   *)
(* are staffed, and only they act.                                           *)
EXTENDS Fleet, TLC
CONSTANT Scenes
VARIABLE scene

MCOrderOf == [p \in Pieces |-> CHOOSE o \in Orders : TRUE]
MCOne     == [p \in Pieces |-> 1]
MCInStock == [s \in Stocks |-> IF s \in Owned THEN 2 ELSE 0]

\* What is not there yet is interchangeable, and so are the desks.
MCSymmetry == Permutations(Desks) \cup Permutations(Printers \ Owned)
                \cup Permutations(Spools \ Owned) \cup Permutations(Tanks \ Owned)

\* Bound: one container is split in a run, by one desk or by both.
OneIsSplit == Cardinality({s \in Stocks : asset[s].split}
                            \cup {desk[d].on : d \in {e \in Desks : desk[e].op = "split"}}) <= 1

MCInit == FleetInit /\ scene \in Scenes
MCNext ==
  /\ \/ "shop" \in scene /\ ShopNext
     \/ "create" \in scene /\ CreateNext
     \/ "printer" \in scene /\ PrinterNext
     \/ "nozzle" \in scene /\ NozzleNext
     \/ "lot" \in scene /\ LotNext
     \/ "split" \in scene /\ SplitNext
     \/ "delete" \in scene /\ DeleteNext
     \/ "correct" \in scene /\ CorrectNext
  /\ Straying /\ OneIsSplit' /\ UNCHANGED scene
MCSpec == MCInit /\ [][MCNext]_<<fleetVars, scene>>
=============================================================================
