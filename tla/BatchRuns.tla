----------------------------- MODULE BatchRuns -----------------------------
(***************************************************************************)
(* Batch runs: long work executed inside the API process, reported into    *)
(* one batch_runs row per run and polled by the client.                    *)
(*                                                                         *)
(*   row[r]   the batch_runs row: what survives a crash and what the       *)
(*            client is shown;                                             *)
(*   mem[r]   the detached executor of run r and the counters its progress *)
(*            throttle keeps in memory: lost with the process;             *)
(*   work[r]  what the executor (the fleet auto-schedule) has done to the  *)
(*            shop floor, committed item by item and never unwound, and    *)
(*            the two lists of its plan: placed, and skipped with a reason;*)
(*   up       whether the API process is running.                          *)
(*                                                                         *)
(* askedAt is a history variable: how many items run r had attempted when  *)
(* its cancel was requested.  No action reads it.                          *)
(*                                                                         *)
(* Every statement a run issues may be rejected, or may be applied and     *)
(* have its answer lost with the connection.  Wall-clock time is a choice: *)
(* the throttle's 1500 ms may or may not have elapsed, and a heartbeat may *)
(* grow older than STALE_AFTER_MS at any moment.                           *)
(***************************************************************************)
EXTENDS Naturals

CONSTANTS
  Runs,            \* the runs a client may start
  PROGRESS_EVERY,  \* a progress write at least every so many items
  MaxItems         \* bound: the largest pack explored

ASSUME RunAssumption == /\ PROGRESS_EVERY \in Nat \ {0}
                        /\ MaxItems \in Nat

VARIABLES up, row, mem, work, askedAt

vars == <<up, row, mem, work, askedAt>>

Terminal == {"done", "cancelled", "failed"}
Status   == {"absent", "running"} \cup Terminal
Working  == {"setup", "loop", "flush", "check", "finish"}
Alive    == Working \cup {"failing"}
Pc       == Alive \cup {"gone"}

NoRow  == [status |-> "absent", total |-> 0, succeeded |-> 0, failed |-> 0,
           cancel |-> FALSE, fresh |-> FALSE]

\* The row as insertRun leaves it: running, at zero, heartbeat now().
NewRow == [NoRow EXCEPT !.status = "running", !.fresh = TRUE]

NoMem  == [pc |-> "gone", succeeded |-> 0, failed |-> 0, sinceWrite |-> 0,
           written |-> FALSE, cancelKnown |-> FALSE, verdict |-> "done"]

NoWork == [items |-> 0, tried |-> 0, committed |-> 0, placed |-> 0, skipped |-> 0, stopped |-> 0]

Init == /\ up = TRUE
        /\ row = [r \in Runs |-> NoRow]
        /\ mem = [r \in Runs |-> NoMem]
        /\ work = [r \in Runs |-> NoWork]
        /\ askedAt = [r \in Runs |-> 0]

----------------------------------------------------------------------------
(* One statement of run r: `write` is the row it produces, `next` the      *)
(* executor when it is acknowledged.  An error lands in the catch block.   *)

Failing(r) == [mem[r] EXCEPT !.pc = "failing"]

Issue(r, write, next) ==
  \E applied, acked \in BOOLEAN :
    /\ acked => applied
    /\ row' = IF applied THEN [row EXCEPT ![r] = write] ELSE row
    /\ mem' = [mem EXCEPT ![r] = IF acked THEN next ELSE Failing(r)]

Reported(r) == mem[r].succeeded + mem[r].failed
Recorded(r) == work[r].placed + work[r].skipped

\* POST .../auto-schedule as a run: the row is inserted, the executor detached.
Start(r) ==
  /\ up
  /\ row[r].status = "absent"
  /\ \E n \in 0..MaxItems : work' = [work EXCEPT ![r] = [NoWork EXCEPT !.items = n]]
  /\ row' = [row EXCEPT ![r] = NewRow]
  /\ mem' = [mem EXCEPT ![r] = [NoMem EXCEPT !.pc = "setup"]]
  /\ UNCHANGED <<up, askedAt>>

\* The pack loads and orders its candidates and reports the total ...
SetTotal(r) ==
  /\ mem[r].pc = "setup"
  /\ Issue(r, [row[r] EXCEPT !.total = work[r].items, !.fresh = TRUE],
              [mem[r] EXCEPT !.pc = "loop"])
  /\ UNCHANGED <<up, work, askedAt>>

----------------------------------------------------------------------------
(* The candidate loop: report the previous candidate, ask whether to stop, *)
(* then place this one, skip it, or name it as never reached.              *)

\* The counters after reporting the candidate still unreported.
Counted(r) ==
  IF mem[r].succeeded < work[r].placed
  THEN [mem[r] EXCEPT !.succeeded = @ + 1]
  ELSE [mem[r] EXCEPT !.failed = @ + 1]

Pending(r) == mem[r].pc = "loop" /\ Reported(r) < Recorded(r)

\* Mutant: the 25-item threshold forgotten, only elapsed time flushes.
AdvanceQuietlyUnbounded(r) ==
  /\ Pending(r)
  /\ mem[r].written
  /\ mem' = [mem EXCEPT ![r] = [Counted(r) EXCEPT !.sinceWrite = @ + 1]]
  /\ UNCHANGED <<up, row, work, askedAt>>

\* advance(): below both thresholds the count stays in memory.
AdvanceQuietly(r) ==
  /\ Pending(r)
  /\ mem[r].written
  /\ mem[r].sinceWrite + 1 < PROGRESS_EVERY
  /\ mem' = [mem EXCEPT ![r] = [Counted(r) EXCEPT !.sinceWrite = @ + 1]]
  /\ UNCHANGED <<up, row, work, askedAt>>

\* writeProgress: the counts, the heartbeat, and the cancel flag read back.
ProgressRow(r, m) ==
  [row[r] EXCEPT !.succeeded = m.succeeded, !.failed = m.failed, !.fresh = TRUE]

Flushed(r, m) ==
  [m EXCEPT !.sinceWrite = 0, !.written = TRUE, !.cancelKnown = row[r].cancel]

\* advance(): 25 items, 1500 ms, or the very first report (lastWriteAt = 0).
AdvanceAndFlush(r) ==
  /\ Pending(r)
  /\ Issue(r, ProgressRow(r, Counted(r)), Flushed(r, Counted(r)))
  /\ UNCHANGED <<up, work, askedAt>>

AllReported(r) == mem[r].pc = "loop" /\ Reported(r) = Recorded(r)

\* A candidate is put on the board by the guarded schedule(), or refused and
\* skipped.  What comes after the UPDATE that commits it may fail too, or the
\* answer be lost: then it stands on the board and is in the list of the skipped.
Attempt(r) ==
  /\ AllReported(r)
  /\ Recorded(r) < work[r].items
  /\ ~mem[r].cancelKnown
  /\ work[r].stopped = 0
  /\ \/ work' = [work EXCEPT ![r].tried = @ + 1, ![r].committed = @ + 1, ![r].placed = @ + 1]
     \/ work' = [work EXCEPT ![r].tried = @ + 1, ![r].skipped = @ + 1]
     \/ work' = [work EXCEPT ![r].tried = @ + 1, ![r].committed = @ + 1, ![r].skipped = @ + 1]
  /\ UNCHANGED <<up, row, mem, askedAt>>

\* "the run was stopped before this one was reached"
SkipStopped(r) ==
  /\ AllReported(r)
  /\ Recorded(r) < work[r].items
  /\ mem[r].cancelKnown \/ work[r].stopped > 0
  /\ work' = [work EXCEPT ![r].skipped = @ + 1, ![r].stopped = @ + 1]
  /\ UNCHANGED <<up, row, mem, askedAt>>

\* Mutant: the pack returns only once every candidate found a place.
ReturnIfAllPlaced(r) ==
  /\ AllReported(r)
  /\ work[r].placed = work[r].items
  /\ mem' = [mem EXCEPT ![r].pc = "flush"]
  /\ UNCHANGED <<up, row, work, askedAt>>

\* The pack returns its plan.
Return(r) ==
  /\ AllReported(r)
  /\ Recorded(r) = work[r].items
  /\ mem' = [mem EXCEPT ![r].pc = "flush"]
  /\ UNCHANGED <<up, row, work, askedAt>>

----------------------------------------------------------------------------
(* The terminal state.                                                     *)

\* Mutant: the final flush left out.
FlushNowUnwritten(r) ==
  /\ mem[r].pc = "flush"
  /\ mem' = [mem EXCEPT ![r].pc = "check"]
  /\ UNCHANGED <<up, row, work, askedAt>>

\* The last partial batch of progress.
FlushNow(r) ==
  /\ mem[r].pc = "flush"
  /\ Issue(r, ProgressRow(r, mem[r]), [Flushed(r, mem[r]) EXCEPT !.pc = "check"])
  /\ UNCHANGED <<up, work, askedAt>>

CheckCancel(r) ==
  /\ mem[r].pc = "check"
  /\ Issue(r, row[r],
           [mem[r] EXCEPT !.pc = "finish",
              !.verdict = IF row[r].cancel THEN "cancelled" ELSE "done"])
  /\ UNCHANGED <<up, work, askedAt>>

FinishedRow(r, status) == [row[r] EXCEPT !.status = status, !.fresh = TRUE]

FinishRun(r) ==
  /\ mem[r].pc = "finish"
  /\ Issue(r, FinishedRow(r, mem[r].verdict), [mem[r] EXCEPT !.pc = "gone"])
  /\ UNCHANGED <<up, work, askedAt>>

\* The catch block: the counts are not flushed, and an error is swallowed.
FinishQuietly(r) ==
  /\ mem[r].pc = "failing"
  /\ \/ row' = [row EXCEPT ![r] = FinishedRow(r, "failed")]
     \/ row' = row
  /\ mem' = [mem EXCEPT ![r].pc = "gone"]
  /\ UNCHANGED <<up, work, askedAt>>

----------------------------------------------------------------------------
(* The operator, the clock and the process.                                *)

\* POST /runs/:id/cancel: only a running row can be flagged.
RequestCancel(r) ==
  /\ up
  /\ row[r].status = "running"
  /\ ~row[r].cancel
  /\ row' = [row EXCEPT ![r].cancel = TRUE]
  /\ askedAt' = [askedAt EXCEPT ![r] = work[r].tried]
  /\ UNCHANGED <<up, mem, work>>

\* More than STALE_AFTER_MS pass without a write to the row.
HeartbeatAges(r) ==
  /\ row[r].fresh
  /\ row' = [row EXCEPT ![r].fresh = FALSE]
  /\ UNCHANGED <<up, mem, work, askedAt>>

Crash ==
  /\ up
  /\ up' = FALSE
  /\ mem' = [r \in Runs |-> [mem[r] EXCEPT !.pc = "gone"]]
  /\ UNCHANGED <<row, work, askedAt>>

\* Mutant: a swept run forgets what it committed.
SweptToZero(r) ==
  IF row[r].status = "running" /\ ~row[r].fresh
  THEN [row[r] EXCEPT !.status = "failed", !.succeeded = 0, !.failed = 0]
  ELSE row[r]

\* sweepStaleRuns: running and stale becomes failed; the counts are kept.
Swept(r) ==
  IF row[r].status = "running" /\ ~row[r].fresh
  THEN [row[r] EXCEPT !.status = "failed"]
  ELSE row[r]

BootAndSweep ==
  /\ ~up
  /\ up' = TRUE
  /\ row' = [r \in Runs |-> Swept(r)]
  /\ UNCHANGED <<mem, work, askedAt>>

\* A sweep that fails must not stop the API from starting.
BootWithoutSweep ==
  /\ ~up
  /\ up' = TRUE
  /\ UNCHANGED <<row, mem, work, askedAt>>

----------------------------------------------------------------------------

Execute(r) ==
  \/ SetTotal(r)
  \/ AdvanceQuietly(r)
  \/ AdvanceAndFlush(r)
  \/ Attempt(r)
  \/ SkipStopped(r)
  \/ Return(r)
  \/ FlushNow(r)
  \/ CheckCancel(r)
  \/ FinishRun(r)
  \/ FinishQuietly(r)

Process == Crash \/ BootAndSweep \/ BootWithoutSweep

Next ==
  \/ \E r \in Runs : \/ Start(r)
                     \/ Execute(r)
                     \/ RequestCancel(r)
                     \/ HeartbeatAges(r)
  \/ Process

Spec == Init /\ [][Next]_vars

(* The event loop keeps running the executor while the process lives, and  *)
(* time passes.  Nobody has to cancel, and nothing has to crash.           *)
Fairness == \A r \in Runs : WF_vars(Execute(r)) /\ WF_vars(HeartbeatAges(r))

FairSpec == Spec /\ Fairness

----------------------------------------------------------------------------
(* Properties.                                                             *)

RowType  == [status : Status, total : Nat, succeeded : Nat, failed : Nat,
             cancel : BOOLEAN, fresh : BOOLEAN]
MemType  == [pc : Pc, succeeded : Nat, failed : Nat, sinceWrite : Nat,
             written : BOOLEAN, cancelKnown : BOOLEAN,
             verdict : {"done", "cancelled"}]
WorkType == [items : Nat, tried : Nat, committed : Nat, placed : Nat, skipped : Nat, stopped : Nat]

\* Every variable has its type: counts are naturals, statuses and program
\* counters are the ones the code uses.
TypeOK ==
  /\ up \in BOOLEAN
  /\ row \in [Runs -> RowType]
  /\ mem \in [Runs -> MemType]
  /\ work \in [Runs -> WorkType]
  /\ askedAt \in [Runs -> Nat]

\* A run that ends done or cancelled shows the lengths of its plan's two lists,
\* which make up the total: nothing the throttle held back in memory is
\* missing.  Of what it committed it counts nothing twice and invents nothing,
\* and what it misses is among the attempts it counts as failed, never among
\* the candidates a stop left out.
FinishedCountsAddUp ==
  \A r \in Runs : row[r].status \in {"done", "cancelled"} =>
    /\ row[r].succeeded = work[r].placed
    /\ row[r].failed = work[r].skipped
    /\ row[r].succeeded + row[r].failed = row[r].total
    /\ row[r].succeeded <= work[r].committed
    /\ work[r].committed + work[r].stopped <= row[r].total

\* At every moment, also after a crash, the row counts at most what has been
\* committed: the client is never shown a placement that did not happen.
RowNeverOverstates ==
  \A r \in Runs : /\ row[r].succeeded <= work[r].committed
                  /\ row[r].failed <= work[r].skipped

\* A run recorded as done attempted every candidate: a stop seen by the loop
\* is still seen by the last read of the flag, so a pack that was cut short
\* is recorded as cancelled.
DoneWasNotCutShort ==
  \A r \in Runs : row[r].status = "done" => work[r].stopped = 0

\* Nothing is left out for a stop nobody asked for.
StopsOnlyIfAsked ==
  \A r \in Runs : work[r].stopped > 0 \/ row[r].status = "cancelled"
                    => row[r].cancel

\* "A cancel is noticed within one PROGRESS_EVERY window": after the request
\* at most PROGRESS_EVERY further candidates are attempted.
CancelWithinOneWindow ==
  \A r \in Runs : row[r].cancel => work[r].tried <= askedAt[r] + PROGRESS_EVERY

\* A run whose executor is alive ends: its row becomes terminal, unless the
\* process dies or the write of the failure is itself lost.
LiveRunEnds ==
  \A r \in Runs : (mem[r].pc \in Alive) ~> (mem[r].pc = "gone")

\* The row and the work behind it, as the client's contract sees them.
Shown == [r \in Runs |-> [status |-> row[r].status, succeeded |-> row[r].succeeded,
                          failed |-> row[r].failed, cancel |-> row[r].cancel]]
Real  == [r \in Runs |-> [committed |-> work[r].committed, placed |-> work[r].placed,
                          skipped |-> work[r].skipped]]

Contract == INSTANCE RunContract WITH shown <- Shown, real <- Real

\* Executor, throttle, crashes and sweeps together keep the contract of
\* RunContract: in particular no work happens behind a row that has ended,
\* and a run ends done or cancelled only with every candidate of its plan counted.
KeepsContract == Contract!Spec

----------------------------------------------------------------------------
(* The inductive invariant behind them.                                    *)

\* A run not yet started has nothing; an executor exists only behind a row
\* that runs, except in the catch block, where the row may have ended.
LifeInv(r) ==
  /\ row[r].status = "absent" =>
       row[r] = NoRow /\ work[r] = NoWork /\ mem[r].pc = "gone"
  /\ mem[r].pc \in Working => row[r].status = "running"

\* Shown <= counted in memory <= really done, with at most one candidate
\* unreported, and equality from the end of the loop on.
CountInv(r) ==
  /\ row[r].succeeded <= work[r].placed
  /\ row[r].failed <= work[r].skipped
  /\ work[r].tried + work[r].stopped = Recorded(r)
  /\ work[r].placed <= work[r].committed
  /\ work[r].committed <= work[r].tried
  /\ mem[r].pc = "setup" => Recorded(r) = 0
  /\ mem[r].pc \in Working =>
       /\ row[r].succeeded <= mem[r].succeeded
       /\ row[r].failed <= mem[r].failed
       /\ mem[r].succeeded <= work[r].placed
       /\ mem[r].failed <= work[r].skipped
       /\ Recorded(r) <= Reported(r) + 1
  /\ mem[r].pc \in {"loop", "flush", "check", "finish"} => row[r].total = work[r].items
  /\ mem[r].pc \in {"flush", "check", "finish"} =>
       /\ Reported(r) = Recorded(r)
       /\ Recorded(r) = work[r].items
  /\ mem[r].pc \in {"check", "finish"} =>
       /\ row[r].succeeded = mem[r].succeeded
       /\ row[r].failed = mem[r].failed
  /\ row[r].status \in {"done", "cancelled"} =>
       /\ row[r].succeeded = work[r].placed
       /\ row[r].failed = work[r].skipped
       /\ Recorded(r) = row[r].total

\* The flag is only ever raised, so what was seen of it stays true.
StopInv(r) ==
  /\ work[r].stopped > 0 => row[r].cancel
  /\ mem[r].pc \in Working /\ mem[r].cancelKnown => row[r].cancel
  /\ mem[r].pc = "finish" /\ mem[r].verdict = "cancelled" => row[r].cancel
  /\ mem[r].pc = "finish" /\ mem[r].verdict = "done" => work[r].stopped = 0
  /\ row[r].status = "cancelled" => row[r].cancel
  /\ row[r].status = "done" => work[r].stopped = 0

\* Until the flag is read back, what was reported since the request is at
\* most what the throttle counts since its last write.
WindowInv(r) ==
  /\ mem[r].pc \in Working => mem[r].sinceWrite < PROGRESS_EVERY
  /\ row[r].cancel => work[r].tried <= askedAt[r] + PROGRESS_EVERY
  /\ row[r].cancel /\ mem[r].pc = "loop" /\ ~mem[r].cancelKnown =>
       Reported(r) <= askedAt[r] + mem[r].sinceWrite

RunInv(r) == LifeInv(r) /\ CountInv(r) /\ StopInv(r) /\ WindowInv(r)

\* No executor outlives its process.
ProcessInv == ~up => \A r \in Runs : mem[r].pc = "gone"

\* The inductive invariant: the type, and the relations above for every run.
IInv == TypeOK /\ ProcessInv /\ \A r \in Runs : RunInv(r)
============================================================================
