------------------------------ MODULE MCTenancy ------------------------------
(* Runs of Members and the Licences under it, scene by scene as in MCBooks.  *)
EXTENDS Members, TLC
CONSTANT Scenes
VARIABLE scene

MCPlanCap == [pl \in Plans |-> IF pl \in Priced THEN 1 ELSE None]
MCSymmetry == Permutations(Desks) \cup Permutations(Companies) \cup Permutations(People)

Busy == {d \in Desks : desk'[d] # AtRest}

\* Bounds: one company, one request at a time; and the plans of two scenes.
MCOneCompany == {"notice", "deal", "status"} \cap scene # {} => Cardinality({c \in Companies : sub'[c] # NoSub}) <= 1
MCOneDesk    == {"notice", "one"} \cap scene # {} => Cardinality(Busy) <= 1
MCPlans      ==
  /\ "notice" \in scene => \A c \in Companies : sub'[c].plan \in {None, Trial} \cup Priced
  /\ {"assign", "notice"} \subseteq scene => \A c \in Companies : sub'[c] # NoSub =>
       /\ sub'[c].ends # None
       /\ sub[c].source = "manual" /\ sub' # sub => sub[c].status = "active" /\ sub'[c].status = "canceled"
  /\ {"assign", "issue"} \subseteq scene => \A c \in Companies : sub'[c] # NoSub => sub'[c].ends = None /\ sub'[c].status = "active"
  /\ "notice" \in scene => Cardinality({x[3] : x \in settled'} \cup {x.anchor : x \in mailed'}) <= 2
MCRecords == scene = {"notice", "day", "crash"} \/ blotted' = {}

MCInit ==
  /\ scene \in Scenes
  /\ MembersInit
  /\ Cardinality(Open) = IF "member" \in scene THEN 1 ELSE Cardinality(Companies)
  /\ "hold" \in scene \/ \A c \in Companies : ~company[c].deleted
  /\ "deal" \in scene \/ tiers = Plans
  /\ Cardinality(Licensed) = IF scene \cap {"notice", "term"} = {} THEN 0 ELSE 1
MCNext ==
  /\ \/ /\ \/ "status" \in scene /\ StatusNext
           \/ "hold" \in scene /\ HoldNext
           \/ "grant" \in scene /\ GrantNext
           \/ "assign" \in scene /\ ("notice" \in scene => day <= 1) /\ AssignNext
           \/ "term" \in scene /\ TermNext
           \/ "deal" \in scene /\ DealNext
           \/ "issue" \in scene /\ IssueNext
           \/ "invoice" \in scene /\ InvoiceNext
           \/ "notice" \in scene /\ NoticeNext
           \/ "day" \in scene /\ ("member" \in scene => day <= 1) /\ Tick
           \/ "crash" \in scene /\ Crash
        /\ UNCHANGED people
     \/ "member" \in scene /\ MembersNext
     \/ "purge" \in scene /\ PurgeNext
  /\ MCOneCompany /\ MCOneDesk /\ MCPlans /\ MCRecords
  /\ UNCHANGED scene
MCSpec == MCInit /\ [][MCNext]_<<memberVars, scene>>
=============================================================================
