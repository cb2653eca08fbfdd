---------------------------- MODULE PlateHistory ----------------------------
(***************************************************************************)
(* PlateLifecycle with a memory.  Nothing in the code makes the requests   *)
(* on one plate take turns, or finishes what a dead request began, so its  *)
(* promises hold only of the plates to which neither happened: the memory  *)
(* says which, and the properties that nothing else goes wrong.            *)
(***************************************************************************)
EXTENDS PlateLifecycle

VARIABLES
  stale,    \* the requests to schedule whose plate or board moved since they asked
  unasked,  \* the plates booked by such a request
  astray    \* the plates that more than one worked on, or one left half-way

history == <<stale, unasked, astray>>

----------------------------------------------------------------------------

\* w moves plates under request v: it books one after v's conflict queries, or
\* takes v's plate to another machine.
Overtakes(w, v) ==
  \/ At(w, "schedule", "write") /\ At(v, "schedule", "write")
  \/ At(w, "assign", "write") /\ req[v].b = req[w].b

\* The requests, and whether the sweep, that have to do with plate b.
WorkingOn(b) == {w \in Workers : \/ req[w].b = b
                                 \/ req[w].op = "remove" /\ piece[req[w].p].plate = b}
Sweeping(b) == clock.b = b \/ \E d \in clock.todo : d[1] = b

\* The plate is written, its pieces are not told.
Telling == {"release", "ledger", "draw", "pour", "free", "clear", "follow"}
UntoldBy(w) == IF req[w].pc \in Telling THEN {req[w].b} ELSE {}
UntoldBySweep == IF clock.pc \in {"follow", "lock"} THEN {d[1] : d \in clock.todo}
                 ELSE IF clock.pc = "tell" THEN {clock.b} ELSE {}

Shared == {b \in Plates : \/ \E v, w \in WorkingOn(b) : v # w
                          \/ Sweeping(b) /\ WorkingOn(b) # {}}

\* Requests that end by telling the pieces.
Tells == {"schedule", "unschedule", "complete", "cancel", "restore", "reprint"}

\* w has the plate to itself, and is about to write it and tell its pieces.
Mends(w) == {b \in Plates : /\ req[w].op \in Tells /\ req[w].pc = "write" /\ req[w].b = b
                            /\ WorkingOn(b) = {w} /\ ~Sweeping(b)}

RequestSteps(w) ==
  /\ Call(w) \/ Proceed(w)
  /\ stale' = {v \in Workers : /\ req'[v] # Idle
                               /\ v \in stale \/ (v # w /\ Overtakes(w, v))}
  /\ unasked' = IF ~At(w, "schedule", "write") THEN unasked
                ELSE IF w \in stale THEN unasked \cup {req[w].b} ELSE unasked \ {req[w].b}
  /\ astray' = (astray \ Mends(w)) \cup Shared'

RequestStops(w) ==
  /\ RequestFails(w)
  /\ stale' = stale \ {w} /\ unasked' = unasked
  /\ astray' = astray \cup UntoldBy(w)

ClockSteps ==
  /\ Tick \/ TimePasses
  /\ UNCHANGED <<stale, unasked>> /\ astray' = astray \cup Shared'

ClockStops ==
  /\ TickFails
  /\ UNCHANGED <<stale, unasked>> /\ astray' = astray \cup UntoldBySweep

TracedInit == Init /\ stale = {} /\ unasked = {} /\ astray = {}

TracedNext == ClockSteps \/ ClockStops \/ \E w \in Workers : RequestSteps(w) \/ RequestStops(w)

TracedSpec == TracedInit /\ [][TracedNext]_<<vars, history>>

----------------------------------------------------------------------------

\* Two plates hold overlapping windows on one machine only if one was booked by
\* a request that another overtook between its conflict queries and its UPDATE:
\* print_beds has no exclusion constraint, the queries of schedule are all there is.
PlatesNeverShareAMachine ==
  \A b, c \in Plates :
    (b # c /\ plate[b].status \in Busy /\ plate[c].status \in Busy
           /\ plate[b].printer = plate[c].printer /\ plate[b].printer # None)
      => {b, c} \cap unasked # {} \/ ~Meets(plate[b], plate[c].from, plate[c].to)

\* The pieces on a plate nobody is working on say what the plate says, though
\* each handler and the clock copy it in a statement of their own
\* (propagatePieceStatus, "so the order pages reflect the bed's commitment"):
\* only a plate that two worked on at a time, or that was left between the
\* two statements, may be out of step, until a request has it to itself again.
PartsFollowTheirPlate ==
  \A p \in Pieces :
    LET b == piece[p].plate
        st == plate[b].status
    IN  b # None /\ b \notin astray /\ WorkingOn(b) = {} /\ ~Sweeping(b)
          => IF st \in Planning THEN piece[p].status \in Planning ELSE piece[p].status = st

\* The transaction of a removal under way is not refused by the constraints.
Removable(r) ==
  LET b == PlateOfRemoval(r)
  IN b # None => Legal(Reevaluated(b, Removed(r)).rows)

\* Taking one piece off a plate that is neither printing nor out of step is
\* never refused by the constraints of order_pieces: the survivors "carry OUT
\* the evidence" their status requires (reevaluateBedAfterPieceRemoval).
SettledPlatesComeApart ==
  \A w \in Workers :
    LET b == PlateOfRemoval(req[w])
    IN  At(w, "remove", "tx") /\ b # None /\ b \notin astray /\ plate[b].status # "printing"
          => Removable(req[w])
=============================================================================
