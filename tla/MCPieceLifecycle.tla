-------------------------- MODULE MCPieceLifecycle --------------------------
(* Model values and bounds for PieceLifecycle: every piece takes one unit of *)
(* material and one unit of time, and all belong to one order.              *)
EXTENDS PieceLifecycle, TLC

MCOrderOf  == [p \in Pieces |-> CHOOSE o \in Orders : TRUE]
MCNeed     == [p \in Pieces |-> 1]
MCMinutes  == [p \in Pieces |-> 1]
MCInStock  == [s \in Stocks |-> MaxTime]
Symmetry   == Permutations(Printers)
=============================================================================
