------------------------------- MODULE MCBooks -------------------------------
(* Runs of Books.  To keep the instance small the work of one company is    *)
(* explored desk by desk: a run draws the desks that are staffed, and only  *)
(* they act.  Every action is at a desk of some scene.                      *)
EXTENDS Books, TLC
CONSTANTS shop, s1, s2, s3, Scenes
VARIABLE scene

MCUserType == [a \in {shop} |-> "expense"]
\* s1 was bought for 5 cents and held 2, s2 is a part of it, s3 has no kin.
MCStock == [s \in {s1, s2, s3} |->
  [price |-> IF s = s1 THEN 5 ELSE 0, held |-> IF s = s2 THEN 1 ELSE 2,
   material |-> IF s = s3 THEN "petg" ELSE "pla", whole |-> s # s2]]
MCRuined == {[s \in {s1, s2} |-> 1], [s \in {s3} |-> 1], [s \in {s1, s3} |-> 1]}

MCSymmetry == Permutations(Payments)

MCInit == Init /\ scene \in Scenes
MCNext ==
  /\ \/ "chart" \in scene /\ ChartNext
     \/ "draft" \in scene /\ DraftNext
     \/ "terms" \in scene /\ TermsNext
     \/ "issue" \in scene /\ IssueNext
     \/ "pay" \in scene /\ PayNext
     \/ "spend" \in scene /\ SpendNext
     \/ "request" \in scene /\ RequestNext
  /\ UNCHANGED scene
MCSpec == MCInit /\ [][MCNext]_<<vars, scene>>
=============================================================================
