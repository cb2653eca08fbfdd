---------------------------- MODULE RunContract ----------------------------
(***************************************************************************)
(* What a batch run promises the client that polls it, without executor,   *)
(* throttle, heartbeat or process: only the row as it is shown, and the    *)
(* work as it really happened.                                             *)
(***************************************************************************)
EXTENDS Naturals

CONSTANT Runs

VARIABLES
  shown,  \* shown[r]: the status, counts and stop flag the client reads
  real    \* real[r]: what stands on the board, and the plan's two lists

Init ==
  /\ shown = [r \in Runs |-> [status |-> "absent", succeeded |-> 0,
                              failed |-> 0, cancel |-> FALSE]]
  /\ real = [r \in Runs |-> [committed |-> 0, placed |-> 0, skipped |-> 0]]

\* A run opens running, with nothing counted.
Open(r) ==
  /\ shown[r].status = "absent"
  /\ shown' = [shown EXCEPT ![r].status = "running"]
  /\ UNCHANGED real

\* Work happens only while the row says running: nothing is listed as placed
\* that is not on the board, but what is on the board may be listed as skipped.
Work(r) ==
  /\ shown[r].status = "running"
  /\ \/ real' = [real EXCEPT ![r].committed = @ + 1, ![r].placed = @ + 1]
     \/ real' = [real EXCEPT ![r].skipped = @ + 1]
     \/ real' = [real EXCEPT ![r].committed = @ + 1, ![r].skipped = @ + 1]
  /\ UNCHANGED shown

\* The counts shown advance towards the work done and never past it.
Publish(r) ==
  /\ shown[r].status = "running"
  /\ \E s \in shown[r].succeeded..real[r].placed,
        f \in shown[r].failed..real[r].skipped :
       shown' = [shown EXCEPT ![r].succeeded = s, ![r].failed = f]
  /\ UNCHANGED real

\* Only a running run can be asked to stop.
Ask(r) ==
  /\ shown[r].status = "running"
  /\ shown' = [shown EXCEPT ![r].cancel = TRUE]
  /\ UNCHANGED real

\* A run ends done or cancelled with everything counted.
End(r) ==
  /\ shown[r].status = "running"
  /\ shown[r].succeeded = real[r].placed
  /\ shown[r].failed = real[r].skipped
  /\ \E s \in {"done", "cancelled"} : 
       /\ s = "cancelled" => shown[r].cancel
       /\ shown' = [shown EXCEPT ![r].status = s]
  /\ UNCHANGED real

\* A run may fail as long as it exists, also when the answer to the write
\* that ended it was lost; the counts shown stay what they were.
Fail(r) ==
  /\ shown[r].status # "absent"
  /\ shown' = [shown EXCEPT ![r].status = "failed"]
  /\ UNCHANGED real

\* A boot settles any number of rows at once.
FailMany ==
  /\ \E S \in SUBSET {r \in Runs : shown[r].status = "running"} :
       shown' = [r \in Runs |-> IF r \in S
                                THEN [shown[r] EXCEPT !.status = "failed"]
                                ELSE shown[r]]
  /\ UNCHANGED real

Next == \/ \E r \in Runs : \/ Open(r) \/ Work(r) \/ Publish(r)
                           \/ Ask(r) \/ End(r) \/ Fail(r)
        \/ FailMany

Spec == Init /\ [][Next]_<<shown, real>>
============================================================================
