--------------------------- MODULE SchedulingProofs ---------------------------
(***************************************************************************)
(* Theorems about BatchRuns and the packs it runs.                         *)
(*                                                                         *)
(* BatchRuns, for every set of runs, every PROGRESS_EVERY and every pack   *)
(* size: the inductive invariant IInv, the properties that follow from it, *)
(* and the implementation of RunContract.  Packer, for every shop: what    *)
(* the requests of packs and operators leave true of the board, and that a *)
(* job gets the earliest start its plan knows of.  Packing, for any        *)
(* timelines: the earliest fit is the earliest.                            *)
(***************************************************************************)
EXTENDS BatchRuns, Packer, FiniteSetTheorems, SequenceTheorems, WellFoundedInduction, TLAPS

USE RunAssumption

\* A run none of whose state changes keeps its part of the invariant.
LEMMA Frame ==
  ASSUME NEW s \in Runs, RunInv(s),
         row'[s] = row[s], mem'[s] = mem[s], work'[s] = work[s],
         askedAt'[s] = askedAt[s]
  PROVE  RunInv(s)'
BY DEF RunInv, LifeInv, CountInv, StopInv, WindowInv, Recorded, Reported

\* A statement has three outcomes: applied and acknowledged, applied and its
\* answer lost, rejected; only the first goes on to `next`.
LEMMA IssueCases ==
  ASSUME NEW r \in Runs, NEW write, NEW next, TypeOK, Issue(r, write, next)
  PROVE  /\ \A s \in Runs \ {r} : row'[s] = row[s] /\ mem'[s] = mem[s]
         /\ \/ row'[r] = write /\ mem'[r] = next
            \/ row'[r] \in {write, row[r]} /\ mem'[r] = Failing(r)
BY DEF Issue, TypeOK

LEMMA IssueType ==
  ASSUME NEW r \in Runs, NEW write \in RowType, NEW next \in MemType, TypeOK,
         Issue(r, write, next)
  PROVE  row' \in [Runs -> RowType] /\ mem' \in [Runs -> MemType]
<1>1. Failing(r) \in MemType
  BY DEF Failing, TypeOK, MemType, Pc, Alive
<1> QED
  BY <1>1 DEF Issue, TypeOK

LEMMA CountedType ==
  ASSUME NEW r \in Runs, TypeOK
  PROVE  Counted(r) \in MemType
BY DEF Counted, TypeOK, MemType

LEMMA FlushType ==
  ASSUME NEW r \in Runs, TypeOK, NEW m \in MemType
  PROVE  ProgressRow(r, m) \in RowType /\ Flushed(r, m) \in MemType
<1>1. row[r] \in RowType
  BY DEF TypeOK
<1>2. ProgressRow(r, m) \in RowType
  BY <1>1 DEF ProgressRow, RowType, MemType
<1>3. row[r].cancel \in BOOLEAN
  BY <1>1 DEF RowType
<1>4. Flushed(r, m) \in MemType
  BY <1>3 DEF Flushed, MemType
<1> QED BY <1>2, <1>4

LEMMA InitInv == Init => IInv
BY DEF Init, IInv, ProcessInv, TypeOK, RunInv, LifeInv, CountInv, StopInv, WindowInv,
       NoRow, NoMem, NoWork, RowType, MemType, WorkType, Status, Terminal, Pc,
       Working, Alive, Recorded, Reported

LEMMA TypeStep == TypeOK /\ [Next]_vars => TypeOK'
<1> SUFFICES ASSUME TypeOK, [Next]_vars PROVE TypeOK'
  OBVIOUS
<1>1. ASSUME NEW r \in Runs, Start(r) PROVE TypeOK'
  <2>1. /\ NewRow \in RowType
        /\ [NoMem EXCEPT !.pc = "setup"] \in MemType
        /\ \A n \in Nat : [NoWork EXCEPT !.items = n] \in WorkType
    BY DEF NewRow, NoRow, NoMem, NoWork, RowType, MemType, WorkType, Status,
       Pc, Working, Alive
  <2>2. PICK n \in 0..MaxItems : work' = [work EXCEPT ![r] = [NoWork EXCEPT !.items = n]]
    BY <1>1 DEF Start
  <2>3. n \in Nat
    OBVIOUS
  <2> QED BY <1>1, <2>1, <2>2, <2>3 DEF Start, TypeOK
<1>2. ASSUME NEW r \in Runs, SetTotal(r) PROVE TypeOK'
  <2>1. /\ [row[r] EXCEPT !.total = work[r].items, !.fresh = TRUE] \in RowType
        /\ [mem[r] EXCEPT !.pc = "loop"] \in MemType
    <3>1. row[r] \in RowType /\ work[r].items \in Nat
      BY DEF TypeOK, WorkType
    <3>2. mem[r] \in MemType
      BY DEF TypeOK
    <3>3. [row[r] EXCEPT !.total = work[r].items, !.fresh = TRUE] \in RowType
      BY <3>1 DEF RowType
    <3>4. [mem[r] EXCEPT !.pc = "loop"] \in MemType
      BY <3>2 DEF MemType, Pc, Working, Alive
    <3> QED BY <3>3, <3>4
  <2> QED BY <1>2, <2>1, IssueType DEF SetTotal, TypeOK
<1>3. ASSUME NEW r \in Runs, AdvanceQuietly(r) PROVE TypeOK'
  <2>1. [Counted(r) EXCEPT !.sinceWrite = @ + 1] \in MemType
    BY CountedType DEF MemType
  <2> QED BY <1>3, <2>1 DEF AdvanceQuietly, TypeOK
<1>4. ASSUME NEW r \in Runs, AdvanceAndFlush(r) PROVE TypeOK'
  BY <1>4, CountedType, FlushType, IssueType DEF AdvanceAndFlush, TypeOK
<1>5. ASSUME NEW r \in Runs, Attempt(r) PROVE TypeOK'
  BY <1>5 DEF Attempt, TypeOK, WorkType
<1>6. ASSUME NEW r \in Runs, SkipStopped(r) PROVE TypeOK'
  BY <1>6 DEF SkipStopped, TypeOK, WorkType
<1>7. ASSUME NEW r \in Runs, Return(r) PROVE TypeOK'
  BY <1>7 DEF Return, TypeOK, MemType, Pc, Working, Alive
<1>8. ASSUME NEW r \in Runs, FlushNow(r) PROVE TypeOK'
  <2>1. Flushed(r, mem[r]) \in MemType /\ ProgressRow(r, mem[r]) \in RowType
    BY FlushType DEF TypeOK
  <2>2. [Flushed(r, mem[r]) EXCEPT !.pc = "check"] \in MemType
    BY <2>1 DEF MemType, Pc, Working, Alive
  <2> QED BY <1>8, <2>1, <2>2, IssueType DEF FlushNow, TypeOK
<1>9. ASSUME NEW r \in Runs, CheckCancel(r) PROVE TypeOK'
  <2>1. [mem[r] EXCEPT !.pc = "finish",
           !.verdict = IF row[r].cancel THEN "cancelled" ELSE "done"] \in MemType
    BY DEF TypeOK, MemType, Pc, Working, Alive
  <2> QED BY <1>9, <2>1, IssueType DEF CheckCancel, TypeOK
<1>10. ASSUME NEW r \in Runs, FinishRun(r) PROVE TypeOK'
  <2>1. /\ FinishedRow(r, mem[r].verdict) \in RowType
        /\ [mem[r] EXCEPT !.pc = "gone"] \in MemType
    BY DEF FinishedRow, TypeOK, RowType, MemType, Status, Terminal, Pc
  <2> QED BY <1>10, <2>1, IssueType DEF FinishRun, TypeOK
<1>11. ASSUME NEW r \in Runs, FinishQuietly(r) PROVE TypeOK'
  <2>1. /\ FinishedRow(r, "failed") \in RowType
        /\ [mem[r] EXCEPT !.pc = "gone"] \in MemType
    BY DEF FinishedRow, TypeOK, RowType, MemType, Status, Terminal, Pc
  <2>2. mem' = [mem EXCEPT ![r] = [mem[r] EXCEPT !.pc = "gone"]]
    BY <1>11 DEF FinishQuietly
  <2> QED BY <1>11, <2>1, <2>2 DEF FinishQuietly, TypeOK
<1>12. ASSUME NEW r \in Runs, RequestCancel(r) PROVE TypeOK'
  <2>1. /\ [row[r] EXCEPT !.cancel = TRUE] \in RowType
        /\ work[r].tried \in Nat
    BY DEF TypeOK, RowType, WorkType
  <2> QED BY <1>12, <2>1 DEF RequestCancel, TypeOK
<1>13. ASSUME NEW r \in Runs, HeartbeatAges(r) PROVE TypeOK'
  <2>1. [row[r] EXCEPT !.fresh = FALSE] \in RowType
    BY DEF TypeOK, RowType
  <2> QED BY <1>13, <2>1 DEF HeartbeatAges, TypeOK
<1>14. CASE Crash
  BY <1>14 DEF Crash, TypeOK, MemType, Pc
<1>15. CASE BootAndSweep
  BY <1>15 DEF BootAndSweep, Swept, TypeOK, RowType, Status, Terminal
<1>16. CASE BootWithoutSweep
  BY <1>16 DEF BootWithoutSweep, TypeOK
<1>17. CASE UNCHANGED vars
  BY <1>17 DEF vars, TypeOK
<1> QED
  BY <1>1, <1>2, <1>3, <1>4, <1>5, <1>6, <1>7, <1>8, <1>9, <1>10, <1>11,
     <1>12, <1>13, <1>14, <1>15, <1>16, <1>17 DEF Next, Execute, Process

LEMMA RunStep ==
  ASSUME IInv, [Next]_vars, NEW s \in Runs
  PROVE  RunInv(s)'
<1> USE DEF IInv
<1>1. ASSUME NEW r \in Runs, Start(r) PROVE RunInv(s)'
  BY <1>1 DEF Start, NewRow, NoRow, NoMem, NoWork, Working, Alive, TypeOK, RowType, MemType, WorkType,
     RunInv, LifeInv, CountInv, StopInv, WindowInv, Recorded, Reported
<1>2. ASSUME NEW r \in Runs, SetTotal(r) PROVE RunInv(s)'
  <2>1. CASE s # r
    BY <1>2, <2>1, Frame DEF SetTotal, Issue, TypeOK
  <2>2. CASE s = r
    <3>1. /\ work'[r] = work[r] /\ askedAt'[r] = askedAt[r]
          /\ mem[r].pc = "setup" /\ row[r].status = "running"
      BY <1>2 DEF SetTotal, RunInv, LifeInv, Working
    <3>2. row[r] \in RowType /\ mem[r] \in MemType /\ work[r] \in WorkType
      BY DEF TypeOK
    <3>3. /\ row'[r] \in {row[r], [row[r] EXCEPT !.total = work[r].items, !.fresh = TRUE]}
          /\ \/ mem'[r] = Failing(r)
             \/ /\ mem'[r] = [mem[r] EXCEPT !.pc = "loop"]
                /\ row'[r] = [row[r] EXCEPT !.total = work[r].items, !.fresh = TRUE]
      BY <1>2, IssueCases DEF SetTotal
    <3>4. LifeInv(r)'
      BY <3>1, <3>2, <3>3 DEF LifeInv, Failing, RowType, MemType, Working
    <3>5. CountInv(r)'
      <4>1. /\ row'[r].succeeded = row[r].succeeded /\ row'[r].failed = row[r].failed
            /\ row'[r].status = "running"
            /\ mem'[r].succeeded = mem[r].succeeded /\ mem'[r].failed = mem[r].failed
            /\ mem'[r].pc \in {"loop", "failing"}
            /\ mem'[r].pc = "loop" => row'[r].total = work[r].items
        BY <3>1, <3>2, <3>3 DEF Failing, RowType, MemType
      <4> QED
        BY <3>1, <3>2, <4>1 DEF RunInv, CountInv, Working, Recorded, Reported
    <3>6. StopInv(r)'
      BY <3>1, <3>2, <3>3 DEF RunInv, StopInv, Failing, RowType, MemType, Working
    <3>7. WindowInv(r)'
      <4>1. askedAt[r] \in Nat /\ Recorded(r) = 0 /\ Reported(r) = 0
        BY <3>1, <3>2 DEF TypeOK, RunInv, CountInv, Working, MemType, WorkType,
           Recorded, Reported
      <4>2. /\ Reported(r)' = 0 /\ mem'[r].sinceWrite = mem[r].sinceWrite
            /\ row'[r].cancel = row[r].cancel
        BY <3>2, <3>3, <4>1 DEF Failing, RowType, MemType, Reported
      <4>3. mem[r].sinceWrite \in Nat /\ mem[r].sinceWrite < PROGRESS_EVERY
        BY <3>1, <3>2 DEF RunInv, WindowInv, MemType, Working
      <4> QED
        BY <3>1, <4>1, <4>2, <4>3 DEF RunInv, WindowInv
    <3> QED BY <2>2, <3>4, <3>5, <3>6, <3>7 DEF RunInv
  <2> QED BY <2>1, <2>2
<1>3. ASSUME NEW r \in Runs, AdvanceQuietly(r) PROVE RunInv(s)'
  <2>1. CASE s # r
    BY <1>3, <2>1, Frame DEF AdvanceQuietly, TypeOK
  <2>2. CASE s = r
    BY <1>3, <2>2 DEF AdvanceQuietly, Counted, Pending, Working, Alive, TypeOK, RowType, MemType, WorkType,
       RunInv, LifeInv, CountInv, StopInv, WindowInv, Recorded, Reported
  <2> QED BY <2>1, <2>2
<1>4. ASSUME NEW r \in Runs, AdvanceAndFlush(r) PROVE RunInv(s)'
  <2>1. CASE s # r
    BY <1>4, <2>1, Frame DEF AdvanceAndFlush, Issue, TypeOK
  <2>2. CASE s = r
    BY <1>4, <2>2 DEF AdvanceAndFlush, Counted, Pending, Issue, Failing, ProgressRow,
       Flushed, Working, Alive, TypeOK, RowType, MemType, WorkType, NoRow,
       RunInv, LifeInv, CountInv, StopInv, WindowInv, Recorded, Reported
  <2> QED BY <2>1, <2>2
<1>5. ASSUME NEW r \in Runs, Attempt(r) PROVE RunInv(s)'
  <2>1. CASE s # r
    BY <1>5, <2>1, Frame DEF Attempt, TypeOK
  <2>2. CASE s = r
    <3>1. /\ row'[r] = row[r] /\ mem'[r] = mem[r] /\ askedAt'[r] = askedAt[r]
          /\ mem[r].pc = "loop" /\ Reported(r) = Recorded(r)
          /\ ~mem[r].cancelKnown /\ work[r].stopped = 0
      BY <1>5 DEF Attempt, AllReported
    <3>2. row[r] \in RowType /\ mem[r] \in MemType /\ work[r] \in WorkType
      BY DEF TypeOK
    <3>3. \/ work'[r] = [work[r] EXCEPT !.tried = @ + 1, !.committed = @ + 1, !.placed = @ + 1]
          \/ work'[r] = [work[r] EXCEPT !.tried = @ + 1, !.skipped = @ + 1]
          \/ work'[r] = [work[r] EXCEPT !.tried = @ + 1, !.committed = @ + 1, !.skipped = @ + 1]
      BY <1>5 DEF Attempt, TypeOK
    <3>4. LifeInv(r)'
      BY <3>1 DEF RunInv, LifeInv, Working
    <3>5. row[r].status = "running"
      BY <3>1 DEF RunInv, LifeInv, Working
    <3>6. CountInv(r)'
      <4>1. /\ work'[r].items = work[r].items
            /\ work'[r].stopped = work[r].stopped
            /\ work'[r].tried = work[r].tried + 1
            /\ \/ /\ work'[r].placed = work[r].placed + 1
                  /\ work'[r].skipped = work[r].skipped
                  /\ work'[r].committed = work[r].committed + 1
               \/ /\ work'[r].placed = work[r].placed
                  /\ work'[r].skipped = work[r].skipped + 1
                  /\ work'[r].committed \in {work[r].committed, work[r].committed + 1}
        BY <3>2, <3>3 DEF WorkType
      <4> QED
        BY <3>1, <3>2, <3>5, <4>1 DEF RunInv, CountInv, RowType, MemType, WorkType,
           Working, Recorded, Reported
    <3>7. StopInv(r)'
      BY <3>1, <3>2, <3>3, <3>5 DEF RunInv, StopInv, WorkType, Working
    <3>8. askedAt[r] \in Nat
      BY DEF TypeOK
    <3>9. WindowInv(r)'
      <4>1. work'[r].tried = work[r].tried + 1
        BY <3>2, <3>3 DEF WorkType
      <4>2. work[r].tried = Reported(r)
        BY <3>1, <3>2 DEF RunInv, CountInv, WorkType, MemType, Recorded, Reported
      <4>3. Reported(r)' = Reported(r)
        BY <3>1 DEF Reported
      <4> QED
        BY <3>1, <3>2, <3>8, <4>1, <4>2, <4>3 DEF RunInv, WindowInv, MemType, WorkType, Working
    <3> QED BY <2>2, <3>4, <3>6, <3>7, <3>9 DEF RunInv
  <2> QED BY <2>1, <2>2
<1>6. ASSUME NEW r \in Runs, SkipStopped(r) PROVE RunInv(s)'
  <2>1. CASE s # r
    BY <1>6, <2>1, Frame DEF SkipStopped, TypeOK
  <2>2. CASE s = r
    BY <1>6, <2>2 DEF SkipStopped, AllReported, Working, Alive, TypeOK, RowType, MemType, WorkType,
       RunInv, LifeInv, CountInv, StopInv, WindowInv, Recorded, Reported
  <2> QED BY <2>1, <2>2
<1>7. ASSUME NEW r \in Runs, Return(r) PROVE RunInv(s)'
  <2>1. CASE s # r
    BY <1>7, <2>1, Frame DEF Return, TypeOK
  <2>2. CASE s = r
    BY <1>7, <2>2 DEF Return, AllReported, Working, Alive, TypeOK, RowType, MemType, WorkType,
       RunInv, LifeInv, CountInv, StopInv, WindowInv, Recorded, Reported
  <2> QED BY <2>1, <2>2
<1>8. ASSUME NEW r \in Runs, FlushNow(r) PROVE RunInv(s)'
  <2>1. CASE s # r
    BY <1>8, <2>1, Frame DEF FlushNow, Issue, TypeOK
  <2>2. CASE s = r
    BY <1>8, <2>2 DEF FlushNow, Issue, Failing, ProgressRow, Flushed, Working, Alive, TypeOK, RowType, MemType, WorkType,
       RunInv, LifeInv, CountInv, StopInv, WindowInv, Recorded, Reported, NoRow
  <2> QED BY <2>1, <2>2
<1>9. ASSUME NEW r \in Runs, CheckCancel(r) PROVE RunInv(s)'
  <2>1. CASE s # r
    BY <1>9, <2>1, Frame DEF CheckCancel, Issue, TypeOK
  <2>2. CASE s = r
    BY <1>9, <2>2 DEF CheckCancel, Issue, Failing, Working, Alive, TypeOK, RowType, MemType, WorkType,
       RunInv, LifeInv, CountInv, StopInv, WindowInv, Recorded, Reported, NoRow
  <2> QED BY <2>1, <2>2
<1>10. ASSUME NEW r \in Runs, FinishRun(r) PROVE RunInv(s)'
  <2>1. CASE s # r
    BY <1>10, <2>1, Frame DEF FinishRun, Issue, TypeOK
  <2>2. CASE s = r
    <3>1. /\ work'[r] = work[r] /\ askedAt'[r] = askedAt[r]
          /\ mem[r].pc = "finish" /\ row[r].status = "running"
      BY <1>10 DEF FinishRun, RunInv, LifeInv, Working
    <3>2. row[r] \in RowType /\ mem[r] \in MemType /\ work[r] \in WorkType
      BY DEF TypeOK
    <3>3. /\ row'[r] \in {row[r], FinishedRow(r, mem[r].verdict)}
          /\ mem'[r] \in {Failing(r), [mem[r] EXCEPT !.pc = "gone"]}
      BY <1>10, IssueCases DEF FinishRun
    <3>4. LifeInv(r)'
      BY <3>1, <3>2, <3>3 DEF LifeInv, Failing, FinishedRow, RowType, MemType, Working
    <3>5. CountInv(r)'
      <4>1. /\ row'[r].succeeded = row[r].succeeded /\ row'[r].failed = row[r].failed
            /\ row'[r].total = row[r].total
            /\ mem'[r].pc \notin Working /\ mem'[r].pc # "setup"
        BY <3>2, <3>3 DEF FinishedRow, Failing, RowType, MemType, Working
      <4>2. /\ row[r].succeeded = work[r].placed /\ row[r].failed = work[r].skipped
            /\ Recorded(r) = row[r].total
        BY <3>1, <3>2 DEF RunInv, CountInv, MemType, WorkType, RowType, Working,
           Recorded, Reported
      <4>3. Recorded(r)' = Recorded(r)
        BY <3>1 DEF Recorded
      <4> QED
        BY <3>1, <3>2, <4>1, <4>2, <4>3 DEF RunInv, CountInv, Working
    <3>6. StopInv(r)'
      BY <3>1, <3>2, <3>3 DEF RunInv, StopInv, Failing, FinishedRow, RowType, MemType, Working
    <3>7. WindowInv(r)'
      BY <3>1, <3>2, <3>3 DEF RunInv, WindowInv, Failing, FinishedRow, RowType, MemType, Working
    <3> QED BY <2>2, <3>4, <3>5, <3>6, <3>7 DEF RunInv
  <2> QED BY <2>1, <2>2
<1>11. ASSUME NEW r \in Runs, FinishQuietly(r) PROVE RunInv(s)'
  <2>1. CASE s # r
    BY <1>11, <2>1, Frame DEF FinishQuietly, TypeOK
  <2>2. CASE s = r
    <3>1. work'[r] = work[r] /\ askedAt'[r] = askedAt[r] /\ mem[r].pc = "failing"
      BY <1>11 DEF FinishQuietly
    <3>2. row[r] \in RowType /\ mem[r] \in MemType /\ work[r] \in WorkType
      BY DEF TypeOK
    <3>3. /\ row'[r] \in {row[r], FinishedRow(r, "failed")}
          /\ mem'[r] = [mem[r] EXCEPT !.pc = "gone"]
      BY <1>11 DEF FinishQuietly, TypeOK
    <3>4. LifeInv(r)'
      BY <3>1, <3>2, <3>3 DEF RunInv, LifeInv, FinishedRow, RowType, MemType, Working
    <3>5. CountInv(r)'
      BY <3>1, <3>2, <3>3, ZenonT(40) DEF RunInv, CountInv, FinishedRow, RowType, MemType, WorkType,
         Working, Recorded, Reported
    <3>6. StopInv(r)'
      BY <3>1, <3>2, <3>3 DEF RunInv, StopInv, FinishedRow, RowType, MemType, Working
    <3>7. WindowInv(r)'
      BY <3>1, <3>2, <3>3 DEF RunInv, WindowInv, FinishedRow, RowType, MemType, Working
    <3> QED BY <2>2, <3>4, <3>5, <3>6, <3>7 DEF RunInv
  <2> QED BY <2>1, <2>2
<1>12. ASSUME NEW r \in Runs, RequestCancel(r) PROVE RunInv(s)'
  <2>1. CASE s # r
    BY <1>12, <2>1, Frame DEF RequestCancel, TypeOK
  <2>2. CASE s = r
    BY <1>12, <2>2 DEF RequestCancel, Working, Alive, TypeOK, RowType, MemType, WorkType,
       RunInv, LifeInv, CountInv, StopInv, WindowInv, Recorded, Reported
  <2> QED BY <2>1, <2>2
<1>13. ASSUME NEW r \in Runs, HeartbeatAges(r) PROVE RunInv(s)'
  <2>1. CASE s # r
    BY <1>13, <2>1, Frame DEF HeartbeatAges, TypeOK
  <2>2. CASE s = r
    BY <1>13, <2>2 DEF HeartbeatAges, Working, Alive, TypeOK, RowType, MemType, WorkType, NoRow,
       RunInv, LifeInv, CountInv, StopInv, WindowInv, Recorded, Reported
  <2> QED BY <2>1, <2>2
<1>14. CASE Crash
  BY <1>14 DEF Crash, Working, Alive, TypeOK, RowType, MemType, WorkType,
     RunInv, LifeInv, CountInv, StopInv, WindowInv, Recorded, Reported
<1>15. CASE BootAndSweep
  <2>1. /\ work'[s] = work[s] /\ askedAt'[s] = askedAt[s] /\ mem'[s] = mem[s]
        /\ row'[s] = Swept(s)
    BY <1>15 DEF BootAndSweep
  <2>2. row[s] \in RowType
    BY DEF TypeOK
  <2>3. CASE row'[s] = row[s]
    BY <2>1, <2>3, Frame
  <2>4. CASE row[s].status = "running" /\ row'[s] = [row[s] EXCEPT !.status = "failed"]
    <3>1. mem[s].pc = "gone" /\ "gone" \notin Working
      BY <1>15 DEF BootAndSweep, ProcessInv, Working
    <3>2. LifeInv(s)'
      BY <2>1, <2>2, <2>4, <3>1 DEF LifeInv, RowType
    <3>3. CountInv(s)'
      BY <2>1, <2>2, <2>4 DEF RunInv, CountInv, RowType, Recorded, Reported
    <3>4. StopInv(s)'
      BY <2>1, <2>2, <2>4 DEF RunInv, StopInv, RowType
    <3>5. WindowInv(s)'
      BY <2>1, <2>2, <2>4 DEF RunInv, WindowInv, RowType, Reported
    <3> QED BY <3>2, <3>3, <3>4, <3>5 DEF RunInv
  <2> QED BY <2>1, <2>3, <2>4 DEF Swept
<1>16. CASE BootWithoutSweep
  BY <1>16, Frame DEF BootWithoutSweep
<1>17. CASE UNCHANGED vars
  BY <1>17, Frame DEF vars
<1> QED
  BY <1>1, <1>2, <1>3, <1>4, <1>5, <1>6, <1>7, <1>8, <1>9, <1>10, <1>11,
     <1>12, <1>13, <1>14, <1>15, <1>16, <1>17 DEF Next, Execute, Process

LEMMA ProcessStep == IInv /\ [Next]_vars => ProcessInv'
<1> SUFFICES ASSUME IInv, [Next]_vars PROVE ProcessInv'
  OBVIOUS
<1>1. ASSUME NEW r \in Runs, Start(r) PROVE ProcessInv'
  BY <1>1 DEF Start, ProcessInv
<1>2. ASSUME NEW r \in Runs, Execute(r) PROVE ProcessInv'
  <2>1. up' = up /\ mem[r].pc # "gone"
    BY <1>2 DEF Execute, SetTotal, AdvanceQuietly, AdvanceAndFlush, Pending, Attempt,
       SkipStopped, Return, AllReported, FlushNow, CheckCancel, FinishRun, FinishQuietly
  <2> QED BY <2>1 DEF ProcessInv, IInv
<1>3. ASSUME NEW r \in Runs, RequestCancel(r) \/ HeartbeatAges(r) PROVE ProcessInv'
  BY <1>3 DEF RequestCancel, HeartbeatAges, ProcessInv, IInv
<1>4. CASE Crash
  BY <1>4 DEF Crash, ProcessInv, IInv, TypeOK, MemType
<1>5. CASE BootAndSweep \/ BootWithoutSweep
  BY <1>5 DEF BootAndSweep, BootWithoutSweep, ProcessInv
<1>6. CASE UNCHANGED vars
  BY <1>6 DEF vars, ProcessInv, IInv
<1> QED BY <1>1, <1>2, <1>3, <1>4, <1>5, <1>6 DEF Next, Process

\* The relations of IInv hold in every reachable state.
THEOREM Invariance == Spec => []IInv
<1>1. IInv /\ [Next]_vars => IInv'
  BY TypeStep, RunStep, ProcessStep DEF IInv
<1> QED
  BY InitInv, <1>1, PTL DEF Spec

\* Every variable keeps its type.
THEOREM TypeCorrect == Spec => []TypeOK
<1>1. IInv => TypeOK
  BY DEF IInv
<1> QED BY Invariance, <1>1, PTL

\* A run that ended done or cancelled shows its plan's two lists in full, and
\* misses of what it committed only attempts it counts as failed, however the
\* throttle, lost answers and rejected statements fell.
THEOREM CountsAddUp == Spec => []FinishedCountsAddUp
<1>1. IInv => FinishedCountsAddUp
  <2> SUFFICES ASSUME IInv, NEW r \in Runs, row[r].status \in {"done", "cancelled"}
               PROVE  /\ row[r].succeeded = work[r].placed
                      /\ row[r].failed = work[r].skipped
                      /\ row[r].succeeded + row[r].failed = row[r].total
                      /\ row[r].succeeded <= work[r].committed
                      /\ work[r].committed + work[r].stopped <= row[r].total
    BY DEF FinishedCountsAddUp
  <2>1. work[r] \in WorkType /\ row[r] \in RowType
    BY DEF IInv, TypeOK
  <2> QED BY <2>1 DEF IInv, RunInv, CountInv, Recorded, WorkType, RowType
<1> QED BY Invariance, <1>1, PTL

\* The client is never shown a placement that did not happen.
THEOREM NeverOverstates == Spec => []RowNeverOverstates
<1>1. IInv => RowNeverOverstates
  <2> SUFFICES ASSUME IInv, NEW r \in Runs
               PROVE  row[r].succeeded <= work[r].committed /\ row[r].failed <= work[r].skipped
    BY DEF RowNeverOverstates
  <2>1. work[r] \in WorkType /\ row[r] \in RowType
    BY DEF IInv, TypeOK
  <2> QED BY <2>1 DEF IInv, RunInv, CountInv, WorkType, RowType
<1> QED BY Invariance, <1>1, PTL

\* A pack that was cut short is not recorded as done.
THEOREM NotCutShort == Spec => []DoneWasNotCutShort
<1>1. IInv => DoneWasNotCutShort
  BY DEF IInv, RunInv, StopInv, DoneWasNotCutShort
<1> QED BY Invariance, <1>1, PTL

\* Nothing is left out for a stop nobody asked for.
THEOREM StopsAsked == Spec => []StopsOnlyIfAsked
<1>1. IInv => StopsOnlyIfAsked
  BY DEF IInv, RunInv, StopInv, StopsOnlyIfAsked
<1> QED BY Invariance, <1>1, PTL

\* At most PROGRESS_EVERY candidates are attempted after a cancel.
THEOREM CancelWindow == Spec => []CancelWithinOneWindow
<1>1. IInv => CancelWithinOneWindow
  BY DEF IInv, RunInv, WindowInv, CancelWithinOneWindow
<1> QED BY Invariance, <1>1, PTL

----------------------------------------------------------------------------
(* The contract of RunContract.                                            *)

\* What the client is shown of one row.
Show(w) == [status |-> w.status, succeeded |-> w.succeeded, failed |-> w.failed, cancel |-> w.cancel]
Done(w) == [committed |-> w.committed, placed |-> w.placed, skipped |-> w.skipped]

\* A step on run r alone is a step on what is shown of r alone.
LEMMA ShownOf ==
  ASSUME NEW r \in Runs, \A s \in Runs \ {r} : row'[s] = row[s] /\ work'[s] = work[s]
  PROVE  /\ Shown[r] = Show(row[r]) /\ Real[r] = Done(work[r])
         /\ Shown' = [Shown EXCEPT ![r] = Show(row'[r])]
         /\ Real' = [Real EXCEPT ![r] = Done(work'[r])]
         /\ Show(row'[r]) = Show(row[r]) => Shown' = Shown
         /\ Done(work'[r]) = Done(work[r]) => Real' = Real
BY DEF Shown, Real, Show, Done

LEMMA ShownFields ==
  ASSUME NEW r \in Runs
  PROVE  /\ Shown[r].status = row[r].status /\ Shown[r].cancel = row[r].cancel
         /\ Shown[r].succeeded = row[r].succeeded /\ Shown[r].failed = row[r].failed
         /\ Real[r].placed = work[r].placed /\ Real[r].skipped = work[r].skipped
BY DEF Shown, Real

LEMMA ShownWith ==
  ASSUME NEW r \in Runs, NEW st, NEW stop
  PROVE  /\ [Shown[r] EXCEPT !.status = st] =
              [status |-> st, succeeded |-> row[r].succeeded, failed |-> row[r].failed, cancel |-> row[r].cancel]
         /\ [Shown[r] EXCEPT !.cancel = stop] =
              [status |-> row[r].status, succeeded |-> row[r].succeeded, failed |-> row[r].failed, cancel |-> stop]
<1>1. PICK a, b, c, d : a = row[r].status /\ b = row[r].succeeded /\ c = row[r].failed /\ d = row[r].cancel
  OBVIOUS
<1>2. Shown[r] = [status |-> a, succeeded |-> b, failed |-> c, cancel |-> d]
  BY <1>1 DEF Shown
<1>3. PICK v : v = [status |-> a, succeeded |-> b, failed |-> c, cancel |-> d]
  OBVIOUS
<1>4. [v EXCEPT !.status = st] = [status |-> st, succeeded |-> b, failed |-> c, cancel |-> d]
  BY <1>3
<1>5. [v EXCEPT !.cancel = stop] = [status |-> a, succeeded |-> b, failed |-> c, cancel |-> stop]
  BY <1>3
<1> QED
  BY <1>1, <1>2, <1>3, <1>4, <1>5, Zenon

LEMMA Stutters ==
  ASSUME NEW r \in Runs, \A s \in Runs \ {r} : row'[s] = row[s] /\ work'[s] = work[s],
         Show(row'[r]) = Show(row[r]), work'[r] = work[r]
  PROVE  [Contract!Next]_<<Shown, Real>>
BY ShownOf DEF Contract!Next

LEMMA Publishes ==
  ASSUME NEW r \in Runs, \A s \in Runs \ {r} : row'[s] = row[s], work' = work,
         row[r].status = "running", NEW m \in MemType,
         row' = row \/ row'[r] = ProgressRow(r, m), TypeOK,
         row[r].succeeded <= m.succeeded, m.succeeded <= work[r].placed,
         row[r].failed <= m.failed, m.failed <= work[r].skipped
  PROVE  [Contract!Next]_<<Shown, Real>>
<1>1. row[r] \in RowType /\ work[r] \in WorkType
  BY DEF TypeOK
<1>2. CASE row'[r] = ProgressRow(r, m)
  <2>1. Show(row'[r]) = [Shown[r] EXCEPT !.succeeded = m.succeeded, !.failed = m.failed]
    <3>1. Show(row'[r]) = [status |-> row[r].status, succeeded |-> m.succeeded, failed |-> m.failed,
                           cancel |-> row[r].cancel]
      BY <1>1, <1>2 DEF Show, ProgressRow, RowType
    <3>2. PICK n, k : n = m.succeeded /\ k = m.failed
      OBVIOUS
    <3>3. PICK v, w : v = Shown[r] /\ w = [v EXCEPT !.succeeded = n]
      OBVIOUS
    <3>4. w = [status |-> row[r].status, succeeded |-> n, failed |-> row[r].failed, cancel |-> row[r].cancel]
      BY <3>3 DEF Shown
    <3>5. [w EXCEPT !.failed = k] = [status |-> row[r].status, succeeded |-> n, failed |-> k, cancel |-> row[r].cancel]
      BY <3>4
    <3>6. [v EXCEPT !.succeeded = n, !.failed = k] = [w EXCEPT !.failed = k]
      BY <3>3
    <3> QED
      BY <3>1, <3>2, <3>3, <3>5, <3>6
  <2>2. Shown' = [Shown EXCEPT ![r].succeeded = m.succeeded, ![r].failed = m.failed]
    BY <2>1, ShownOf, SMTT(30) DEF Shown
  <2>3. /\ Shown[r].status = "running" /\ Real' = Real
        /\ m.succeeded \in Shown[r].succeeded..Real[r].placed
        /\ m.failed \in Shown[r].failed..Real[r].skipped
    <3>1. Real' = Real
      BY DEF Real
    <3>2. /\ row[r].succeeded \in Nat /\ row[r].failed \in Nat /\ work[r].placed \in Nat /\ work[r].skipped \in Nat
          /\ m.succeeded \in Nat /\ m.failed \in Nat
      BY <1>1 DEF RowType, WorkType, MemType
    <3> QED
      BY <3>1, <3>2, ShownFields
  <2> QED
    BY <2>2, <2>3 DEF Contract!Next, Contract!Publish
<1>3. CASE row' = row
  BY <1>3, Stutters
<1> QED
  BY <1>2, <1>3

\* What one attempt, or one candidate left out, adds to what is counted of a run.
LEMMA DoneMore ==
  ASSUME NEW w \in WorkType
  PROVE  /\ Done([w EXCEPT !.tried = @ + 1, !.committed = @ + 1, !.placed = @ + 1])
              = [Done(w) EXCEPT !.committed = @ + 1, !.placed = @ + 1]
         /\ Done([w EXCEPT !.tried = @ + 1, !.committed = @ + 1, !.skipped = @ + 1])
              = [Done(w) EXCEPT !.committed = @ + 1, !.skipped = @ + 1]
         /\ Done([w EXCEPT !.tried = @ + 1, !.skipped = @ + 1]) = [Done(w) EXCEPT !.skipped = @ + 1]
         /\ Done([w EXCEPT !.skipped = @ + 1, !.stopped = @ + 1]) = [Done(w) EXCEPT !.skipped = @ + 1]
<1>1. PICK i, t, c, p, k, h : w = [items |-> i, tried |-> t, committed |-> c, placed |-> p, skipped |-> k, stopped |-> h]
  BY DEF WorkType
<1>2. PICK d : d = Done(w)
  OBVIOUS
<1>3. d = [committed |-> c, placed |-> p, skipped |-> k]
  BY <1>1, <1>2 DEF Done
<1>4. /\ [d EXCEPT !.committed = @ + 1, !.placed = @ + 1] = [committed |-> c + 1, placed |-> p + 1, skipped |-> k]
      /\ [d EXCEPT !.committed = @ + 1, !.skipped = @ + 1] = [committed |-> c + 1, placed |-> p, skipped |-> k + 1]
      /\ [d EXCEPT !.skipped = @ + 1] = [committed |-> c, placed |-> p, skipped |-> k + 1]
  <2>1. PICK x : x = [d EXCEPT !.committed = @ + 1]
    OBVIOUS
  <2>2. x = [committed |-> c + 1, placed |-> p, skipped |-> k]
    BY <1>3, <2>1
  <2>3. /\ [x EXCEPT !.placed = @ + 1] = [committed |-> c + 1, placed |-> p + 1, skipped |-> k]
        /\ [x EXCEPT !.skipped = @ + 1] = [committed |-> c + 1, placed |-> p, skipped |-> k + 1]
    BY <2>2
  <2>4. /\ [d EXCEPT !.committed = @ + 1, !.placed = @ + 1] = [x EXCEPT !.placed = @ + 1]
        /\ [d EXCEPT !.committed = @ + 1, !.skipped = @ + 1] = [x EXCEPT !.skipped = @ + 1]
    BY <2>1
  <2>5. [d EXCEPT !.skipped = @ + 1] = [committed |-> c, placed |-> p, skipped |-> k + 1]
    BY <1>3
  <2> QED
    BY <2>3, <2>4, <2>5
<1>5. /\ Done([w EXCEPT !.tried = @ + 1, !.committed = @ + 1, !.placed = @ + 1])
           = [committed |-> c + 1, placed |-> p + 1, skipped |-> k]
      /\ Done([w EXCEPT !.tried = @ + 1, !.committed = @ + 1, !.skipped = @ + 1])
           = [committed |-> c + 1, placed |-> p, skipped |-> k + 1]
      /\ Done([w EXCEPT !.tried = @ + 1, !.skipped = @ + 1]) = [committed |-> c, placed |-> p, skipped |-> k + 1]
      /\ Done([w EXCEPT !.skipped = @ + 1, !.stopped = @ + 1]) = [committed |-> c, placed |-> p, skipped |-> k + 1]
  BY <1>1 DEF Done
<1> QED
  BY <1>2, <1>4, <1>5

LEMMA ExecutorKeepsContract ==
  ASSUME IInv, NEW r \in Runs, Execute(r)
  PROVE  [Contract!Next]_<<Shown, Real>>
<1>0. /\ row \in [Runs -> RowType] /\ mem \in [Runs -> MemType] /\ work \in [Runs -> WorkType] /\ TypeOK
      /\ row[r] \in RowType /\ mem[r] \in MemType /\ work[r] \in WorkType
      /\ LifeInv(r) /\ CountInv(r) /\ StopInv(r)
  BY DEF IInv, TypeOK, RunInv
<1>1. CASE SetTotal(r)
  <2>1. /\ work' = work /\ \A s \in Runs \ {r} : row'[s] = row[s]
        /\ row'[r] \in {row[r], [row[r] EXCEPT !.total = work[r].items, !.fresh = TRUE]}
    BY <1>0, <1>1, IssueCases DEF SetTotal
  <2> QED
    BY <1>0, <2>1, Stutters DEF Show, RowType
<1>2. CASE AdvanceQuietly(r)
  BY <1>2, Stutters DEF AdvanceQuietly
<1>3. CASE AdvanceAndFlush(r)
  <2>1. PICK m : m = Counted(r)
    OBVIOUS
  <2>2. /\ work' = work /\ \A s \in Runs \ {r} : row'[s] = row[s]
        /\ row'[r] \in {row[r], ProgressRow(r, m)} /\ Pending(r) /\ mem[r].pc = "loop"
    BY <1>0, <1>3, <2>1, IssueCases DEF AdvanceAndFlush, Pending
  <2>3. /\ m \in MemType
        /\ row[r].succeeded <= m.succeeded /\ m.succeeded <= work[r].placed
        /\ row[r].failed <= m.failed /\ m.failed <= work[r].skipped
    <3>1. /\ mem[r].succeeded \in Nat /\ mem[r].failed \in Nat /\ work[r].placed \in Nat /\ work[r].skipped \in Nat
          /\ row[r].succeeded \in Nat /\ row[r].failed \in Nat
      BY <1>0 DEF MemType, WorkType, RowType
    <3>2. /\ row[r].succeeded <= mem[r].succeeded /\ mem[r].succeeded <= work[r].placed
          /\ row[r].failed <= mem[r].failed /\ mem[r].failed <= work[r].skipped
          /\ mem[r].succeeded + mem[r].failed < work[r].placed + work[r].skipped
      BY <1>0, <2>2 DEF CountInv, Pending, Working, Reported, Recorded
    <3>3. \/ m = [mem[r] EXCEPT !.succeeded = mem[r].succeeded + 1] /\ mem[r].succeeded < work[r].placed
          \/ m = [mem[r] EXCEPT !.failed = mem[r].failed + 1] /\ ~(mem[r].succeeded < work[r].placed)
      BY <2>1 DEF Counted
    <3> QED
      BY <1>0, <3>1, <3>2, <3>3 DEF MemType
  <2>4. row' = row \/ row'[r] = ProgressRow(r, m)
    BY <1>3, <2>1, <1>0 DEF AdvanceAndFlush, Issue
  <2>5. row[r].status = "running"
    BY <1>0, <2>2 DEF LifeInv, Working
  <2> QED
    BY <1>0, <2>2, <2>3, <2>4, <2>5, Publishes
<1>4. ASSUME Attempt(r) \/ SkipStopped(r) PROVE [Contract!Next]_<<Shown, Real>>
  <2>1. /\ row' = row /\ mem[r].pc = "loop"
        /\ \/ \E w : /\ work' = [work EXCEPT ![r] = w]
                     /\ Done(w) = [Done(work[r]) EXCEPT !.committed = @ + 1, !.placed = @ + 1]
           \/ \E w : work' = [work EXCEPT ![r] = w] /\ Done(w) = [Done(work[r]) EXCEPT !.skipped = @ + 1]
           \/ \E w : /\ work' = [work EXCEPT ![r] = w]
                     /\ Done(w) = [Done(work[r]) EXCEPT !.committed = @ + 1, !.skipped = @ + 1]
    <3>1. /\ Done([work[r] EXCEPT !.tried = @ + 1, !.committed = @ + 1, !.placed = @ + 1])
               = [Done(work[r]) EXCEPT !.committed = @ + 1, !.placed = @ + 1]
          /\ Done([work[r] EXCEPT !.tried = @ + 1, !.committed = @ + 1, !.skipped = @ + 1])
               = [Done(work[r]) EXCEPT !.committed = @ + 1, !.skipped = @ + 1]
          /\ Done([work[r] EXCEPT !.tried = @ + 1, !.skipped = @ + 1]) = [Done(work[r]) EXCEPT !.skipped = @ + 1]
          /\ Done([work[r] EXCEPT !.skipped = @ + 1, !.stopped = @ + 1]) = [Done(work[r]) EXCEPT !.skipped = @ + 1]
      BY <1>0, DoneMore
    <3>2. \/ work' = [work EXCEPT ![r] = [work[r] EXCEPT !.tried = @ + 1, !.committed = @ + 1, !.placed = @ + 1]]
          \/ work' = [work EXCEPT ![r] = [work[r] EXCEPT !.tried = @ + 1, !.skipped = @ + 1]]
          \/ work' = [work EXCEPT ![r] = [work[r] EXCEPT !.tried = @ + 1, !.committed = @ + 1, !.skipped = @ + 1]]
          \/ work' = [work EXCEPT ![r] = [work[r] EXCEPT !.skipped = @ + 1, !.stopped = @ + 1]]
      BY <1>4 DEF Attempt, SkipStopped
    <3> QED
      BY <1>4, <3>1, <3>2 DEF Attempt, SkipStopped, AllReported
  <2>2. \A s \in Runs \ {r} : work'[s] = work[s]
    BY <1>0, <2>1
  <2>3. Shown' = Shown /\ Shown[r].status = "running" /\ Real[r] = Done(work[r])
    <3>1. row[r].status = "running"
      BY <1>0, <2>1 DEF LifeInv, Working
    <3>2. Shown' = Shown
      BY <2>1 DEF Shown
    <3> QED
      BY <3>1, <3>2, ShownFields DEF Real, Done
  <2>4. \/ Real' = [Real EXCEPT ![r].committed = @ + 1, ![r].placed = @ + 1]
        \/ Real' = [Real EXCEPT ![r].skipped = @ + 1]
        \/ Real' = [Real EXCEPT ![r].committed = @ + 1, ![r].skipped = @ + 1]
    <3>1. PICK w : /\ work' = [work EXCEPT ![r] = w]
                   /\ \/ Done(w) = [Real[r] EXCEPT !.committed = @ + 1, !.placed = @ + 1]
                      \/ Done(w) = [Real[r] EXCEPT !.skipped = @ + 1]
                      \/ Done(w) = [Real[r] EXCEPT !.committed = @ + 1, !.skipped = @ + 1]
      BY <2>1, <2>3
    <3>2. Real' = [Real EXCEPT ![r] = Done(w)]
      BY <1>0, <2>1, <2>2, <3>1, ShownOf
    <3>3. Real = [x \in Runs |-> Real[x]]
      BY DEF Real
    <3>4. /\ [Real EXCEPT ![r].committed = @ + 1, ![r].placed = @ + 1]
               = [Real EXCEPT ![r] = [Real[r] EXCEPT !.committed = @ + 1, !.placed = @ + 1]]
          /\ [Real EXCEPT ![r].committed = @ + 1, ![r].skipped = @ + 1]
               = [Real EXCEPT ![r] = [Real[r] EXCEPT !.committed = @ + 1, !.skipped = @ + 1]]
      BY <3>3
    <3> QED
      BY <3>1, <3>2, <3>4
  <2> QED
    BY <2>3, <2>4 DEF Contract!Next, Contract!Work
<1>5. CASE Return(r)
  BY <1>5, Stutters DEF Return
<1>6. CASE FlushNow(r)
  <2>1. /\ work' = work /\ \A s \in Runs \ {r} : row'[s] = row[s]
        /\ row' = row \/ row'[r] = ProgressRow(r, mem[r])
        /\ mem[r].pc = "flush"
    BY <1>0, <1>6 DEF FlushNow, Issue
  <2> QED
    BY <1>0, <2>1, Publishes DEF LifeInv, CountInv, Working
<1>7. CASE CheckCancel(r)
  BY <1>0, <1>7, Stutters, IssueCases DEF CheckCancel
<1>8. ASSUME \A s \in Runs \ {r} : row'[s] = row[s], work' = work, NEW st,
             row'[r] = FinishedRow(r, st),
             \/ st = "failed" /\ row[r].status # "absent"
             \/ /\ st \in {"done", "cancelled"} /\ row[r].status = "running"
                /\ st = "cancelled" => row[r].cancel
                /\ row[r].succeeded = work[r].placed /\ row[r].failed = work[r].skipped
      PROVE  [Contract!Next]_<<Shown, Real>>
  <2>1. Show(row'[r]) = [Shown[r] EXCEPT !.status = st]
    <3>1. Show(row'[r]) = [status |-> st, succeeded |-> row[r].succeeded, failed |-> row[r].failed,
                           cancel |-> row[r].cancel]
      BY <1>0, <1>8 DEF Show, FinishedRow, RowType
    <3> QED
      BY <3>1, ShownWith
  <2>2. Shown' = [Shown EXCEPT ![r].status = st] /\ Real' = Real
    BY <1>8, <2>1, ShownOf
  <2>3. /\ Shown[r].status = row[r].status /\ Shown[r].cancel = row[r].cancel
        /\ Shown[r].succeeded = row[r].succeeded /\ Shown[r].failed = row[r].failed
        /\ Real[r].placed = work[r].placed /\ Real[r].skipped = work[r].skipped
    BY DEF Shown, Real
  <2> QED
    BY <1>8, <2>2, <2>3 DEF Contract!Next, Contract!End, Contract!Fail
<1>9. CASE FinishRun(r)
  <2>1. /\ work' = work /\ \A s \in Runs \ {r} : row'[s] = row[s]
        /\ row' = row \/ row'[r] = FinishedRow(r, mem[r].verdict)
        /\ mem[r].pc = "finish"
    BY <1>0, <1>9 DEF FinishRun, Issue
  <2>2. /\ row[r].status = "running" /\ mem[r].verdict \in {"done", "cancelled"}
        /\ mem[r].verdict = "cancelled" => row[r].cancel
        /\ row[r].succeeded = work[r].placed /\ row[r].failed = work[r].skipped
    <3>1. mem[r].pc \in Working /\ mem[r].pc \in {"check", "finish"} /\ mem[r].pc \in {"flush", "check", "finish"}
      BY <2>1 DEF Working
    <3>2. /\ row[r].status = "running" /\ mem[r].verdict \in {"done", "cancelled"}
          /\ mem[r].verdict = "cancelled" => row[r].cancel
      BY <1>0, <2>1, <3>1 DEF LifeInv, StopInv, MemType
    <3>3. /\ row[r].succeeded = mem[r].succeeded /\ row[r].failed = mem[r].failed
          /\ mem[r].succeeded <= work[r].placed /\ mem[r].failed <= work[r].skipped
          /\ mem[r].succeeded + mem[r].failed = work[r].placed + work[r].skipped
      BY <1>0, <3>1 DEF CountInv, Reported, Recorded
    <3>4. /\ mem[r].succeeded \in Nat /\ mem[r].failed \in Nat
          /\ work[r].placed \in Nat /\ work[r].skipped \in Nat
      BY <1>0 DEF MemType, WorkType
    <3> QED
      BY <3>2, <3>3, <3>4
  <2> QED
    BY <1>8, <2>1, <2>2, Stutters
<1>10. CASE FinishQuietly(r)
  <2>1. /\ work' = work /\ \A s \in Runs \ {r} : row'[s] = row[s]
        /\ row' = row \/ row'[r] = FinishedRow(r, "failed")
        /\ mem[r].pc = "failing"
    BY <1>0, <1>10 DEF FinishQuietly
  <2>2. row[r].status # "absent"
    BY <1>0, <2>1 DEF LifeInv
  <2> QED
    BY <1>8, <2>1, <2>2, Stutters
<1> QED
  BY <1>1, <1>2, <1>3, <1>4, <1>5, <1>6, <1>7, <1>9, <1>10 DEF Execute

LEMMA ContractStep == IInv /\ [Next]_vars => [Contract!Next]_<<Shown, Real>>
<1> SUFFICES ASSUME IInv, [Next]_vars PROVE [Contract!Next]_<<Shown, Real>>
  OBVIOUS
<1>0. row \in [Runs -> RowType] /\ work \in [Runs -> WorkType] /\ \A r \in Runs : LifeInv(r)
  BY DEF IInv, TypeOK, RunInv
<1>1. ASSUME NEW r \in Runs, Start(r) PROVE [Contract!Next]_<<Shown, Real>>
  <2>1. row[r] = NoRow /\ work[r] = NoWork
    BY <1>0, <1>1 DEF Start, LifeInv
  <2>2. /\ \A s \in Runs \ {r} : row'[s] = row[s] /\ work'[s] = work[s]
        /\ row'[r] = NewRow /\ Done(work'[r]) = Done(work[r])
    BY <1>0, <1>1, <2>1 DEF Start, NoWork, Done
  <2>3. Show(row'[r]) = [Shown[r] EXCEPT !.status = "running"] /\ Shown[r].status = "absent"
    <3>1. Shown[r].status = "absent" /\ Show(NewRow) = [Shown[r] EXCEPT !.status = "running"]
      <4>1. Shown[r].status = "absent"
        BY <2>1, ShownFields DEF NoRow
      <4>2. Show(NewRow) = [status |-> "running", succeeded |-> 0, failed |-> 0, cancel |-> FALSE]
        BY DEF Show, NewRow, NoRow
      <4>3. row[r].succeeded = 0 /\ row[r].failed = 0 /\ row[r].cancel = FALSE
        BY <2>1 DEF NoRow
      <4>4. [Shown[r] EXCEPT !.status = "running"] =
              [status |-> "running", succeeded |-> row[r].succeeded, failed |-> row[r].failed, cancel |-> row[r].cancel]
        BY ShownWith
      <4> QED
        BY <4>1, <4>2, <4>3, <4>4
    <3> QED
      BY <2>2, <3>1
  <2>4. Shown' = [Shown EXCEPT ![r].status = "running"] /\ Real' = Real
    BY <2>2, <2>3, ShownOf
  <2> QED
    BY <2>3, <2>4 DEF Contract!Next, Contract!Open
<1>2. ASSUME NEW r \in Runs, RequestCancel(r) PROVE [Contract!Next]_<<Shown, Real>>
  <2>1. /\ \A s \in Runs \ {r} : row'[s] = row[s] /\ work'[s] = work[s]
        /\ row'[r] = [row[r] EXCEPT !.cancel = TRUE] /\ work'[r] = work[r] /\ row[r].status = "running"
    BY <1>0, <1>2 DEF RequestCancel
  <2>2. Show(row'[r]) = [Shown[r] EXCEPT !.cancel = TRUE] /\ Shown[r].status = "running"
    <3>1. Show(row'[r]) = [status |-> row[r].status, succeeded |-> row[r].succeeded, failed |-> row[r].failed,
                           cancel |-> TRUE]
      BY <1>0, <2>1, ZenonT(40) DEF Show, RowType
    <3> QED
      BY <2>1, <3>1, ShownFields, ShownWith
  <2>3. Shown' = [Shown EXCEPT ![r].cancel = TRUE] /\ Real' = Real
    BY <2>1, <2>2, ShownOf
  <2> QED
    BY <2>2, <2>3 DEF Contract!Next, Contract!Ask
<1>3. ASSUME NEW r \in Runs, HeartbeatAges(r) PROVE [Contract!Next]_<<Shown, Real>>
  BY <1>0, <1>3, Stutters DEF HeartbeatAges, Show, RowType
<1>4. CASE BootAndSweep
  <2> DEFINE S == {r \in Runs : row[r].status = "running" /\ ~row[r].fresh}
  <2>1. \A r \in Runs : Show(Swept(r)) = IF r \in S THEN [Show(row[r]) EXCEPT !.status = "failed"] ELSE Show(row[r])
    BY <1>0 DEF Swept, Show, RowType
  <2>2. row' = [r \in Runs |-> Swept(r)] /\ work' = work
    BY <1>4 DEF BootAndSweep
  <2>3. Shown = [r \in Runs |-> Show(row[r])] /\ Shown' = [r \in Runs |-> Show(Swept(r))] /\ Real' = Real
    BY <2>2 DEF Shown, Show, Real
  <2>4. /\ S \in SUBSET {r \in Runs : Shown[r].status = "running"}
        /\ Shown' = [r \in Runs |-> IF r \in S THEN [Shown[r] EXCEPT !.status = "failed"] ELSE Shown[r]]
    BY <2>1, <2>3 DEF Show
  <2> QED
    BY <2>3, <2>4 DEF Contract!Next, Contract!FailMany
<1>5. CASE Crash \/ BootWithoutSweep \/ UNCHANGED vars
  BY <1>5 DEF Crash, BootWithoutSweep, vars, Shown, Real
<1> QED
  BY <1>1, <1>2, <1>3, <1>4, <1>5, ExecutorKeepsContract DEF Next, Process

\* Executor, throttle, lost answers, crashes and sweeps together implement
\* the contract a polling client is given: no work happens behind a row that
\* has ended, the counts shown never pass the work done, and a run ends done
\* or cancelled only with every candidate counted (BatchRunsService.execute).
THEOREM ImplementsContract == Spec => KeepsContract
<1>1. Init => Contract!Init
  BY DEF Init, NoRow, NoWork, Shown, Real, Contract!Init
<1> QED
  BY <1>1, ContractStep, Invariance, PTL DEF Spec, KeepsContract, Contract!Spec

-----------------------------------------------------------------------------
(* The board: double bookings.                                             *)

HIDE RunAssumption

\* Rows and requests have the fields of theirs.
IsRow(x) == x = [status |-> x.status, printer |-> x.printer, nozzle |-> x.nozzle,
                 s |-> x.s, e |-> x.e, take |-> x.take]

IsDesk(d) ==
  /\ d = [at |-> d.at, job |-> d.job, s |-> d.s, nozzle |-> d.nozzle, fresh |-> d.fresh,
          todo |-> d.todo, later |-> d.later, last |-> d.last, jobs |-> d.jobs]
  /\ d.fresh \in BOOLEAN

ShapesOK ==
  /\ job = [j \in Jobs |-> job[j]] /\ \A j \in Jobs : IsRow(job[j])
  /\ desk = [a \in Actors |-> desk[a]] /\ \A a \in Actors : IsDesk(desk[a])
  /\ pack = [r \in Packs |-> pack[r]]

\* A pack writes only while it switches a nozzle or commits a start.
PacksWriteInTurn ==
  \A r \in Packs : desk[r].at # "idle" => pack[r].at \in {"switch", "commit"}

\* The window [s, e) is free for j, but for the nozzle.
Free(j, n, s, e) == ~Collides(j, s, e) /\ (n # None => ~NozzleTaken(n, j, s, e))

\* What a request has checked holds until somebody else writes.
FreshChecksHold ==
  \A a \in Actors :
    LET j == desk[a].job
    IN  desk[a].fresh = TRUE /\ j \in Jobs =>
          /\ desk[a].at = "book" => Free(j, BookedNozzle(a), desk[a].s, desk[a].s + Fact(j).len)
          /\ desk[a].at = "nozzle" /\ j \in OnBoard =>
               ~NozzleTaken(desk[a].nozzle, j, job[j].s, job[j].e)

BoardInv == ShapesOK /\ PacksWriteInTurn /\ FreshChecksHold /\ StalePlansNeverDoubleBook

\* What a step that writes nothing may do to the requests.
Asks(a) ==
  \/ desk'[a] = desk[a]
  \/ IsDesk(desk'[a]) /\ desk'[a].at \notin {"book", "nozzle"}
  \/ \E j, s : Bookable(j, s) /\ desk'[a] = Judged(a, j, s)
  \/ \E j, n : MaySwap(j, n) /\ desk'[a] = SwapJudged(a, j, n)

\* What a step that writes does to them: all that was checked is stale.
Writes(a) ==
  /\ \A b \in Actors \ {a} : desk'[b] = [desk[b] EXCEPT !.fresh = FALSE]
  /\ IsDesk(desk'[a]) /\ desk'[a].at \notin {"book", "nozzle"}

\* The rows of the jobs in `off` leave the board.
TakesOff(off) ==
  /\ job' = [j \in Jobs |-> job'[j]]
  /\ \A j \in Jobs : IsRow(job'[j]) /\ (j \in off => j \notin OnBoard') /\ (j \notin off => job'[j] = job[j])
  /\ \A j \in Jobs \cap off : /\ job'[j].s = 0 /\ job'[j].e = 0
                               /\ job'[j].printer \in {None, job[j].printer}
                               /\ job'[j].nozzle \in {None, job[j].nozzle}
  /\ unchecked' = unchecked \ off

\* A job takes other spools, and is seen to have done so while on the board.
Takes(j, take) ==
  /\ job' = [job EXCEPT ![j].take = take]
  /\ unchecked' = IF j \in OnBoard THEN unchecked \cup {j} ELSE unchecked

\* A set of naturals has a least member.
LEMMA LeastNatural ==
  ASSUME NEW S, S \subseteq Nat, S # {}
  PROVE  \E x \in S : \A y \in S : x <= y
<1>1. PICK x \in S : \A y \in S : ~(<<y, x>> \in OpToRel(<, Nat))
  BY NatLessThanWellFounded, WFMin
<1>2. ASSUME NEW y \in S PROVE x <= y
  BY <1>1, x \in Nat, y \in Nat, ~(y < x) DEF OpToRel
<1> QED BY <1>2

\* The nozzle a commit falls back on is among those it looked at.
LEMMA TwinIsFree ==
  ASSUME NEW assigned, NEW printer, NEW options, options \subseteq Nat, NEW free
  PROVE  LET n == Twin(assigned, printer, options, Kind, Fitted, free)
         IN  n = None \/ n \in free
<1> DEFINE twins == {n \in (options \ {assigned}) \cap free : Kind[n] = Kind[assigned]}
           rank(n) == HandlingRank(Fitted[n], printer)
<1> SUFFICES ASSUME twins # {}
             PROVE  Twin(assigned, printer, options, Kind, Fitted, free) \in twins
  BY DEF Twin
<1>0. \A n : rank(n) \in Nat
  BY DEF HandlingRank
<1> HIDE DEF rank
<1>1. PICK x \in twins : \A y \in twins : rank(x) <= rank(y)
  <2> DEFINE R == {rank(n) : n \in twins}
  <2>1. R \subseteq Nat /\ R # {}
    BY <1>0
  <2> HIDE DEF R
  <2>2. PICK q \in R : \A y \in R : q <= y
    BY <2>1, LeastNatural
  <2> QED BY <2>2 DEF R
<1>2. PICK n \in twins : rank(n) = rank(x) /\ \A y \in twins : rank(y) = rank(x) => n <= y
  <2> DEFINE R == {n \in twins : rank(n) = rank(x)}
  <2>1. R \subseteq Nat /\ R # {}
    OBVIOUS
  <2> HIDE DEF R
  <2>2. PICK q \in R : \A y \in R : q <= y
    BY <2>1, LeastNatural
  <2> QED BY <2>2 DEF R
<1>3. ASSUME NEW y \in twins PROVE ~Precedes(<<rank(y), y>>, <<rank(n), n>>)
  <2>1. y \in Nat /\ n \in Nat /\ rank(y) \in Nat /\ rank(n) \in Nat
    BY <1>0
  <2>2. rank(n) <= rank(y) /\ (rank(y) = rank(n) => n <= y)
    BY <1>1, <1>2
  <2>3. ASSUME NEW i \in {1, 2}, <<rank(y), y>>[i] < <<rank(n), n>>[i],
               \A h \in 1 .. i - 1 : <<rank(y), y>>[h] = <<rank(n), n>>[h]
        PROVE  FALSE
    BY <2>1, <2>2, <2>3
  <2> QED BY <2>3 DEF Precedes
<1>4. Least(twins, LAMBDA m : <<rank(m), m>>) \in twins
  BY <1>3 DEF Least
<1> QED BY <1>4 DEF Twin, rank

\* A window that may be booked is free, for the nozzle it will be booked on.
LEMMA BookableIsFree ==
  ASSUME ShapesOK, NEW j \in Jobs, NEW s, Bookable(j, s), NEW a \in Actors, desk'[a] = Judged(a, j, s)
  PROVE  /\ desk'[a].at = "book" /\ desk'[a].job = j /\ desk'[a].s = s
         /\ Free(j, IF desk'[a].nozzle # None THEN desk'[a].nozzle ELSE job[j].nozzle, s, s + Fact(j).len)
         /\ IsDesk(desk'[a])
<1> DEFINE e == s + Fact(j).len
           n == NozzleFor(j, s, e)
           free == {m \in Nozzles : ~NozzleTaken(m, j, s, e)}
<1>1. IsDesk(desk[a])
  BY DEF ShapesOK
<1> HIDE DEF e
<1>2. desk'[a] = [desk[a] EXCEPT !.at = "book", !.job = j, !.s = s, !.fresh = TRUE,
                                 !.nozzle = IF n = job[j].nozzle THEN None ELSE n]
  BY DEF Judged, e
<1>3. n = None \/ n \in free \/ job[j].nozzle = None
  <2>1. Options(job[j].printer) \subseteq Nat
    BY PackerAssumption DEF Options
  <2>2. LET t == Twin(job[j].nozzle, job[j].printer, Options(job[j].printer), Kind, Fitted, free)
        IN  t = None \/ t \in free
    <3> HIDE DEF free
    <3> QED BY <2>1, TwinIsFree
  <2> QED BY <2>2 DEF NozzleFor
<1>4. job[j].nozzle = None => n = None
  BY DEF NozzleFor
<1>5. job[j].nozzle # None => n # None
  BY DEF Bookable, e
<1>6. ~Collides(j, s, e)
  BY DEF Bookable, e
<1>7. \A m \in free : ~NozzleTaken(m, j, s, e)
  OBVIOUS
<1> HIDE DEF n, free
<1>8. /\ desk'[a].at = "book" /\ desk'[a].job = j /\ desk'[a].s = s
      /\ desk'[a].nozzle = IF n = job[j].nozzle THEN None ELSE n
      /\ IsDesk(desk'[a])
  BY <1>1, <1>2 DEF IsDesk
<1> QED BY <1>3, <1>4, <1>5, <1>6, <1>7, <1>8 DEF Free, e

\* Every step asks, writes a row, or is none of the board's business.
Booked(a) == desk[a].at = "book" /\ Book(a)

Kinds ==
  \/ job' = job /\ unchecked' = unchecked /\ \A a \in Actors : Asks(a)
  \/ \E a \in Actors :
       /\ Writes(a)
       /\ \/ Booked(a)
          \/ Swap(a)
          \/ \E j, take : Takes(j, take)
          \/ \E off : TakesOff(off)
          \/ \E j \in Jobs : /\ job[j].status = "scheduled" /\ unchecked' = unchecked
                             /\ job' = [job EXCEPT ![j] = [@ EXCEPT !.status = "printing"]]
          \/ \E j \in Jobs : /\ job[j].status = "printing" /\ unchecked' = unchecked
                             /\ job' = [job EXCEPT ![j] = [@ EXCEPT !.status = "done", !.take = NoTake]]

\* The board of a shop goes on being the shop's.
NextInTurn == floor' = floor /\ PacksWriteInTurn' /\ pack' = [r \in Packs |-> pack'[r]]
                /\ desk' = [a \in Actors |-> desk'[a]]

LEMMA AskingIsQuiet ==
  ASSUME ShapesOK, NEW a \in Actors, NEW d, desk' = [desk EXCEPT ![a] = d]
  PROVE  /\ desk'[a] = d /\ \A b \in Actors \ {a} : desk'[b] = desk[b]
         /\ desk' = [b \in Actors |-> desk'[b]]
         /\ Asks(a) => \A b \in Actors : Asks(b)
BY DEF ShapesOK, Asks

LEMMA WritingIsNot ==
  ASSUME ShapesOK, NEW a \in Actors, NEW d, Outdate(a, d)
  PROVE  /\ desk'[a] = d /\ \A b \in Actors \ {a} : desk'[b] = [desk[b] EXCEPT !.fresh = FALSE]
         /\ desk' = [b \in Actors |-> desk'[b]]
         /\ IsDesk(d) /\ d.at \notin {"book", "nozzle"} => Writes(a)
BY DEF ShapesOK, Outdate, Writes

LEMMA DesksAreDesks ==
  /\ IsDesk(NoDesk) /\ NoDesk.at = "idle"
  /\ \A items, last : IsDesk([NoDesk EXCEPT !.todo = items, !.last = last])
                      /\ [NoDesk EXCEPT !.todo = items, !.last = last].at = "idle"
  /\ \A js : IsDesk([NoDesk EXCEPT !.at = "clear", !.jobs = js])
             /\ [NoDesk EXCEPT !.at = "clear", !.jobs = js].at = "clear"
  /\ \A d, again : IsDesk(d) => IsDesk(Onwards(d, again)) /\ Onwards(d, again).at = "idle"
<1>1. IsDesk(NoDesk) /\ NoDesk.at = "idle"
  BY DEF IsDesk, NoDesk
<1>2. ASSUME NEW items, NEW last, NEW d, d = [NoDesk EXCEPT !.todo = items, !.last = last]
      PROVE  IsDesk(d) /\ d.at = "idle"
  BY <1>2 DEF IsDesk, NoDesk
<1>3. ASSUME NEW js, NEW d, d = [NoDesk EXCEPT !.at = "clear", !.jobs = js]
      PROVE  IsDesk(d) /\ d.at = "clear"
  BY <1>3 DEF IsDesk, NoDesk
<1>4. ASSUME NEW d, NEW again, IsDesk(d) PROVE IsDesk(Onwards(d, again)) /\ Onwards(d, again).at = "idle"
  <2>1. ASSUME NEW todo, NEW later, NEW x, x = [d EXCEPT !.at = "idle", !.todo = todo, !.later = later]
        PROVE  IsDesk(x) /\ x.at = "idle"
    BY <1>4, <2>1 DEF IsDesk
  <2> QED BY <1>2, <2>1 DEF Onwards
<1> QED BY <1>1, <1>2, <1>3, <1>4

LEMMA StillInTurn ==
  ASSUME ShapesOK, PacksWriteInTurn, NEW a \in Actors,
         \A b \in Actors \ {a} : desk'[b] = desk[b] \/ desk'[b] = [desk[b] EXCEPT !.fresh = FALSE],
         \/ pack' = pack /\ (a \in Hands \/ desk'[a].at = "idle")
         \/ \E x : /\ a \in Packs /\ pack' = [pack EXCEPT ![a] = x]
                   /\ desk'[a].at = "idle" \/ x.at \in {"switch", "commit"}
  PROVE  PacksWriteInTurn' /\ pack' = [r \in Packs |-> pack'[r]]
<1>1. \A b \in Actors \ {a} : desk'[b].at = desk[b].at
  <2> SUFFICES ASSUME NEW b \in Actors \ {a} PROVE desk'[b].at = desk[b].at
    OBVIOUS
  <2>1. IsDesk(desk[b])
    BY DEF ShapesOK
  <2> QED BY <2>1 DEF IsDesk
<1>2. Packs \cap Hands = {} /\ Packs \subseteq Actors
  BY PackerAssumption DEF Actors
<1> QED BY <1>1, <1>2 DEF PacksWriteInTurn, ShapesOK

LEMMA HandsAsk ==
  ASSUME ShapesOK, PacksWriteInTurn, NEW h \in Hands,
         \/ \E items : HandSchedule(h, items)
         \/ HandCheck(h)
         \/ \E j \in Jobs, n \in Nozzles : HandNozzle(h, j, n)
         \/ \E ps : HandClear(h, ps)
  PROVE  Kinds /\ NextInTurn
<1>0. h \in Actors /\ IsDesk(desk[h])
  BY DEF Actors, ShapesOK
<1>1. floor' = floor /\ job' = job /\ unchecked' = unchecked /\ pack' = pack
  BY DEF HandSchedule, HandCheck, HandNozzle, HandClear
<1>2. \E d : desk' = [desk EXCEPT ![h] = d] /\ Asks(h)
  <2>1. ASSUME NEW items, HandSchedule(h, items) PROVE \E d : desk' = [desk EXCEPT ![h] = d] /\ Asks(h)
    <3>1. PICK d : d = [NoDesk EXCEPT !.todo = items, !.last = Len(items) = 1]
      OBVIOUS
    <3>2. desk' = [desk EXCEPT ![h] = d] /\ desk'[h] = d
      BY <1>0, <2>1, <3>1 DEF HandSchedule, ShapesOK
    <3>3. IsDesk(d) /\ d.at = "idle"
      BY <3>1 DEF IsDesk, NoDesk
    <3> QED BY <3>2, <3>3 DEF Asks
  <2>2. ASSUME HandCheck(h) PROVE \E d : desk' = [desk EXCEPT ![h] = d] /\ Asks(h)
    <3> DEFINE item == Head(desk[h].todo)
               again == IF desk[h].last \/ ~Complete(item.job) \/ item.s < now THEN <<>> ELSE <<item>>
    <3>1. PICK d : d = IF Bookable(item.job, item.s) THEN Judged(h, item.job, item.s) ELSE Onwards(desk[h], again)
      OBVIOUS
    <3>2. desk' = [desk EXCEPT ![h] = d] /\ desk'[h] = d
      BY <1>0, <2>2, <3>1 DEF HandCheck, ShapesOK
    <3>3. CASE Bookable(item.job, item.s)
      BY <3>1, <3>2, <3>3 DEF Asks
    <3>4. CASE ~Bookable(item.job, item.s)
      <4>1. IsDesk(d) /\ d.at = "idle"
        BY <1>0, <3>1, <3>4, DesksAreDesks
      <4> QED BY <3>2, <4>1 DEF Asks
    <3> QED BY <3>3, <3>4
  <2>3. ASSUME NEW j \in Jobs, NEW n \in Nozzles, HandNozzle(h, j, n)
        PROVE \E d : desk' = [desk EXCEPT ![h] = d] /\ Asks(h)
    <3>1. desk' = [desk EXCEPT ![h] = SwapJudged(h, j, n)] /\ desk'[h] = SwapJudged(h, j, n) /\ MaySwap(j, n)
      BY <1>0, <2>3 DEF HandNozzle, ShapesOK
    <3> QED BY <3>1 DEF Asks
  <2>4. ASSUME NEW ps, HandClear(h, ps) PROVE \E d : desk' = [desk EXCEPT ![h] = d] /\ Asks(h)
    <3> DEFINE found == {j \in Jobs : /\ ~IsBed(j) /\ job[j].printer \in ps
                             /\ job[j].status \in {"assigned", "ready", "scheduled"}}
    <3>1. PICK d : d = [NoDesk EXCEPT !.at = "clear", !.jobs = found]
      OBVIOUS
    <3>2. desk' = [desk EXCEPT ![h] = d] /\ desk'[h] = d
      BY <1>0, <2>4, <3>1 DEF HandClear, ShapesOK
    <3>3. IsDesk(d) /\ d.at = "clear"
      BY <3>1, DesksAreDesks
    <3> QED BY <3>2, <3>3 DEF Asks
  <2> QED BY <2>1, <2>2, <2>3, <2>4
<1>3. PICK d : desk' = [desk EXCEPT ![h] = d] /\ Asks(h)
  BY <1>2
<1>4. /\ desk'[h] = d /\ \A b \in Actors \ {h} : desk'[b] = desk[b]
      /\ desk' = [b \in Actors |-> desk'[b]] /\ \A b \in Actors : Asks(b)
  BY <1>0, <1>3, AskingIsQuiet
<1> QED BY <1>0, <1>1, <1>4, StillInTurn DEF Kinds, NextInTurn

LEMMA HandsWrite ==
  ASSUME ShapesOK, PacksWriteInTurn, NEW h \in Hands,
         \/ HandBook(h) \/ HandSwap(h) \/ HandCleared(h)
         \/ \E j \in Jobs, s \in Spools : HandReserve(h, j, s)
         \/ \E js : HandUnschedule(h, js)
         \/ \E j \in Jobs : ShopRuns(h, j)
  PROVE  Kinds /\ NextInTurn
<1>0. h \in Actors /\ IsDesk(desk[h]) /\ Packs \cap Hands = {}
  BY PackerAssumption DEF Actors, ShapesOK
<1>1. floor' = floor /\ pack' = pack
  BY DEF HandBook, HandSwap, HandCleared, HandReserve, HandUnschedule, ShopRuns
<1>2. \A d : Disturb(h, d) /\ IsDesk(d) /\ d.at = "idle" => Writes(h) /\ NextInTurn
  <2> SUFFICES ASSUME NEW d, Disturb(h, d), IsDesk(d), d.at = "idle" PROVE Writes(h) /\ NextInTurn
    OBVIOUS
  <2>1. /\ desk'[h] = d /\ \A b \in Actors \ {h} : desk'[b] = [desk[b] EXCEPT !.fresh = FALSE]
        /\ desk' = [b \in Actors |-> desk'[b]] /\ Writes(h)
    BY <1>0, WritingIsNot DEF Disturb
  <2> QED BY <1>0, <1>1, <2>1, StillInTurn DEF NextInTurn
<1>3. Disturb(h, NoDesk) => Writes(h) /\ NextInTurn
  BY <1>2, DesksAreDesks
<1>4. Disturb(h, Onwards(desk[h], <<>>)) => Writes(h) /\ NextInTurn
  BY <1>0, <1>2, DesksAreDesks
<1>5. CASE HandBook(h)
  <2>1. CASE Book(h) /\ Disturb(h, Onwards(desk[h], <<>>))
    BY <1>0, <1>4, <1>5, <2>1 DEF Kinds, Booked, HandBook
  <2>2. CASE desk' = [desk EXCEPT ![h] = Onwards(@, <<>>)] /\ UNCHANGED <<job, calm, unchecked>>
    <3>1. PICK d : d = Onwards(desk[h], <<>>)
      OBVIOUS
    <3>2. desk' = [desk EXCEPT ![h] = d] /\ IsDesk(d) /\ d.at = "idle"
      BY <1>0, <2>2, <3>1, DesksAreDesks
    <3>3. /\ desk'[h] = d /\ \A b \in Actors \ {h} : desk'[b] = desk[b]
          /\ desk' = [b \in Actors |-> desk'[b]] /\ (Asks(h) => \A b \in Actors : Asks(b))
      BY <1>0, <3>2, AskingIsQuiet
    <3>4. Asks(h)
      BY <3>2, <3>3 DEF Asks
    <3> QED BY <1>0, <1>1, <2>2, <3>3, <3>4, StillInTurn DEF Kinds, NextInTurn
  <2> QED BY <1>5, <2>1, <2>2 DEF HandBook
<1>6. CASE HandSwap(h)
  BY <1>0, <1>3, <1>6 DEF HandSwap, Kinds
<1>7. CASE HandCleared(h)
  <2> DEFINE off == desk[h].jobs
             Gone == [status |-> "pending", printer |-> None, nozzle |-> None, s |-> 0, e |-> 0, take |-> NoTake]
  <2>1. IsRow(Gone) /\ Gone.status = "pending" /\ Gone.printer = None /\ Gone.nozzle = None /\ Gone.s = 0 /\ Gone.e = 0
    BY DEF IsRow
  <2>2. job' = [j \in Jobs |-> IF j \notin off THEN job[j] ELSE Gone] /\ unchecked' = unchecked \ off
    BY <1>7 DEF HandCleared
  <2>3. TakesOff(off)
    BY <2>1, <2>2 DEF TakesOff, ShapesOK, OnBoard
  <2> QED BY <1>0, <1>3, <1>7, <2>3 DEF HandCleared, Kinds
<1>8. ASSUME NEW j \in Jobs, NEW s \in Spools, HandReserve(h, j, s) PROVE Kinds /\ NextInTurn
  <2>1. Takes(j, [NoTake EXCEPT ![s] = Fact(j).grams])
    BY <1>8 DEF HandReserve, Takes
  <2> QED BY <1>0, <1>3, <1>8, <2>1 DEF HandReserve, Kinds
<1>9. ASSUME NEW js, HandUnschedule(h, js) PROVE Kinds /\ NextInTurn
  <2> DEFINE off == {j \in js : job[j].status = "scheduled"}
             Lost(j) == [job[j] EXCEPT !.status = "ready", !.s = 0, !.e = 0, !.take = IF IsBed(j) THEN NoTake ELSE @]
  <2>1. ASSUME NEW j \in Jobs
        PROVE  /\ IsRow(Lost(j)) /\ Lost(j).status = "ready" /\ Lost(j).s = 0 /\ Lost(j).e = 0
               /\ Lost(j).printer = job[j].printer /\ Lost(j).nozzle = job[j].nozzle
    <3>1. IsRow(job[j])
      BY DEF ShapesOK
    <3>2. ASSUME NEW take, NEW x, x = [job[j] EXCEPT !.status = "ready", !.s = 0, !.e = 0, !.take = take]
          PROVE  /\ IsRow(x) /\ x.status = "ready" /\ x.s = 0 /\ x.e = 0
                 /\ x.printer = job[j].printer /\ x.nozzle = job[j].nozzle
      BY <3>1, <3>2 DEF IsRow
    <3>3. PICK take, x : /\ x = [job[j] EXCEPT !.status = "ready", !.s = 0, !.e = 0, !.take = take]
                         /\ x = Lost(j)
      OBVIOUS
    <3>4. /\ IsRow(x) /\ x.status = "ready" /\ x.s = 0 /\ x.e = 0
          /\ x.printer = job[j].printer /\ x.nozzle = job[j].nozzle
      BY <3>2, <3>3
    <3> HIDE DEF Lost
    <3> QED BY <3>3, <3>4
  <2>2. job' = [j \in Jobs |-> IF j \notin off THEN job[j] ELSE Lost(j)] /\ unchecked' = unchecked \ off
    BY <1>9 DEF HandUnschedule
  <2> HIDE DEF off, Lost
  <2>3. TakesOff(off)
    BY <2>1, <2>2 DEF TakesOff, ShapesOK, OnBoard
  <2> QED BY <1>0, <1>3, <1>9, <2>3 DEF HandUnschedule, Kinds
<1>10. ASSUME NEW j \in Jobs, ShopRuns(h, j) PROVE Kinds /\ NextInTurn
  <2>1. CASE job[j].status = "scheduled"
    <3>1. job' = [job EXCEPT ![j] = [@ EXCEPT !.status = "printing"]]
      BY <1>10, <2>1 DEF ShopRuns
    <3> QED BY <1>0, <1>3, <1>10, <2>1, <3>1 DEF ShopRuns, Kinds
  <2>2. CASE job[j].status = "printing"
    <3>1. job' = [job EXCEPT ![j] = [@ EXCEPT !.status = "done", !.take = NoTake]]
      BY <1>10, <2>2 DEF ShopRuns
    <3> QED BY <1>0, <1>3, <1>10, <2>2, <3>1 DEF ShopRuns, Kinds
  <2> QED BY <1>10, <2>1, <2>2 DEF ShopRuns
<1> QED BY <1>5, <1>6, <1>7, <1>8, <1>9, <1>10

\* The steps of a pack that leave the board alone.
LEMMA PacksAsk ==
  ASSUME ShapesOK, PacksWriteInTurn, NEW r \in Packs,
         \/ \E plan : StartPack(r, plan)
         \/ ReadPieces(r) \/ ReadPlates(r) \/ ReadMaterials(r) \/ LoadCandidates(r)
         \/ Consider(r) \/ PlanMaterial(r) \/ PlaceDry(r) \/ CheckCommit(r)
         \/ Report(r) \/ ReturnPack(r) \/ Stop(r) \/ LosePack(r)
  PROVE  Kinds /\ NextInTurn
<1>0. r \in Actors /\ IsDesk(desk[r]) /\ r \notin Hands
  BY PackerAssumption DEF Actors, ShapesOK
<1>1. floor' = floor /\ job' = job /\ unchecked' = unchecked
  BY DEF StartPack, ReadPieces, ReadPlates, ReadBlocks, ReadMaterials, LoadCandidates, Consider,
         PlanMaterial, PlaceDry, CheckCommit, Report, ReturnPack, Stop, LosePack, Steps
<1>2. \E x : pack' = [pack EXCEPT ![r] = x] \/ pack' = pack
  BY DEF StartPack, ReadPieces, ReadPlates, ReadBlocks, ReadMaterials, LoadCandidates, Consider,
         PlanMaterial, PlaceDry, CheckCommit, Report, ReturnPack, Stop, LosePack, Steps
<1>3. CASE CheckCommit(r)
  <2>1. CASE \E j, s : Bookable(j, s) /\ desk' = [desk EXCEPT ![r] = Judged(r, j, s)] /\ UNCHANGED pack
    <3>1. PICK j, s : Bookable(j, s) /\ desk' = [desk EXCEPT ![r] = Judged(r, j, s)] /\ UNCHANGED pack
      BY <2>1
    <3>2. pack[r].at = "commit"
      BY <1>3 DEF CheckCommit, Steps
    <3>3. /\ desk'[r] = Judged(r, j, s) /\ \A b \in Actors \ {r} : desk'[b] = desk[b]
          /\ desk' = [b \in Actors |-> desk'[b]] /\ (Asks(r) => \A b \in Actors : Asks(b))
      BY <1>0, <3>1, AskingIsQuiet
    <3>4. Asks(r)
      BY <3>1, <3>3 DEF Asks
    <3>5. pack' = [pack EXCEPT ![r] = pack[r]]
      BY <3>1 DEF ShapesOK
    <3>6. PacksWriteInTurn' /\ pack' = [q \in Packs |-> pack'[q]]
      BY <1>0, <3>2, <3>3, <3>5, StillInTurn
    <3> QED BY <1>1, <3>3, <3>4, <3>6 DEF Kinds, NextInTurn
  <2>2. CASE UNCHANGED desk /\ pack' = [pack EXCEPT ![r] = Skipped(pack[r])]
    <3>1. desk[r].at = "idle" /\ desk' = desk
      BY <1>3, <2>2 DEF CheckCommit
    <3>2. \A b \in Actors : Asks(b)
      BY <3>1 DEF Asks
    <3>3. PacksWriteInTurn' /\ pack' = [q \in Packs |-> pack'[q]]
      BY <1>0, <2>2, <3>1, StillInTurn
    <3> QED BY <1>1, <3>1, <3>2, <3>3 DEF Kinds, NextInTurn, ShapesOK
  <2> QED BY <1>3, <2>1, <2>2 DEF CheckCommit
<1>4. CASE ~CheckCommit(r) /\ ~LosePack(r)
  <2>1. desk' = desk /\ pack[r].at \notin {"switch", "commit"}
    BY <1>4 DEF StartPack, ReadPieces, ReadPlates, ReadBlocks, ReadMaterials, LoadCandidates, Consider,
         PlanMaterial, PlaceDry, Report, ReturnPack, Stop, Steps
  <2>2. desk[r].at = "idle"
    BY <2>1 DEF PacksWriteInTurn
  <2>3. \A b \in Actors : Asks(b)
    BY <2>1 DEF Asks
  <2>4. \E x : pack' = [pack EXCEPT ![r] = x]
    <3>1. pack = [pack EXCEPT ![r] = pack[r]]
      BY DEF ShapesOK
    <3> QED BY <1>2, <3>1
  <2>5. PacksWriteInTurn' /\ pack' = [q \in Packs |-> pack'[q]]
    BY <1>0, <2>1, <2>2, <2>4, StillInTurn
  <2> QED BY <1>1, <2>1, <2>3, <2>5 DEF Kinds, NextInTurn, ShapesOK
<1>5. CASE LosePack(r)
  <2>1. pack' = [pack EXCEPT ![r] = NoPack] /\ desk' = [desk EXCEPT ![r] = NoDesk]
    BY <1>5 DEF LosePack
  <2>2. /\ desk'[r] = NoDesk /\ \A b \in Actors \ {r} : desk'[b] = desk[b]
        /\ desk' = [b \in Actors |-> desk'[b]] /\ (Asks(r) => \A b \in Actors : Asks(b))
    BY <1>0, <2>1, AskingIsQuiet
  <2>3. Asks(r) /\ desk'[r].at = "idle"
    BY <2>2, DesksAreDesks DEF Asks
  <2>4. PacksWriteInTurn' /\ pack' = [q \in Packs |-> pack'[q]]
    BY <1>0, <2>1, <2>2, <2>3, StillInTurn
  <2> QED BY <1>1, <2>2, <2>3, <2>4 DEF Kinds, NextInTurn
<1> QED BY <1>3, <1>4, <1>5

\* The steps of a pack that write, or find that they may not.
LEMMA PacksWrite ==
  ASSUME ShapesOK, PacksWriteInTurn, NEW r \in Packs,
         ReserveMaterial(r) \/ SwitchNozzle(r) \/ Commit(r)
  PROVE  Kinds /\ NextInTurn
<1>0. r \in Actors /\ IsDesk(desk[r]) /\ r \notin Hands
  BY PackerAssumption DEF Actors, ShapesOK
<1>1. floor' = floor
  BY DEF ReserveMaterial, SwitchNozzle, Commit, Steps
<1>2. \A x, d : Outdate(r, d) /\ pack' = [pack EXCEPT ![r] = x] /\ IsDesk(d) /\ d.at = "idle"
                  => Writes(r) /\ NextInTurn
  <2> SUFFICES ASSUME NEW x, NEW d, Outdate(r, d), pack' = [pack EXCEPT ![r] = x], IsDesk(d), d.at = "idle"
               PROVE  Writes(r) /\ NextInTurn
    OBVIOUS
  <2>1. /\ desk'[r] = d /\ \A b \in Actors \ {r} : desk'[b] = [desk[b] EXCEPT !.fresh = FALSE]
        /\ desk' = [b \in Actors |-> desk'[b]] /\ Writes(r)
    BY <1>0, WritingIsNot
  <2>2. PacksWriteInTurn' /\ pack' = [q \in Packs |-> pack'[q]]
    BY <1>0, <2>1, StillInTurn
  <2> QED BY <1>1, <2>1, <2>2 DEF NextInTurn
<1>3. ASSUME NEW x, NEW d, desk' = [desk EXCEPT ![r] = d] \/ (desk' = desk /\ d = desk[r]),
             pack' = [pack EXCEPT ![r] = x], IsDesk(d), d.at = "idle",
             job' = job, unchecked' = unchecked
      PROVE  Kinds /\ NextInTurn
  <2>1. desk' = [desk EXCEPT ![r] = d]
    BY <1>3 DEF ShapesOK
  <2>2. /\ desk'[r] = d /\ \A b \in Actors \ {r} : desk'[b] = desk[b]
        /\ desk' = [b \in Actors |-> desk'[b]] /\ (Asks(r) => \A b \in Actors : Asks(b))
    BY <1>0, <2>1, AskingIsQuiet
  <2>3. Asks(r)
    BY <1>3, <2>2 DEF Asks
  <2>4. PacksWriteInTurn' /\ pack' = [q \in Packs |-> pack'[q]]
    BY <1>0, <1>3, <2>2, StillInTurn
  <2> QED BY <1>1, <1>3, <2>2, <2>3, <2>4 DEF Kinds, NextInTurn
<1>4. CASE ReserveMaterial(r)
  <2>0. desk[r].at = "idle"
    BY <1>4 DEF PacksWriteInTurn, ReserveMaterial, Steps
  <2>1. CASE \E x : pack' = [pack EXCEPT ![r] = x] /\ UNCHANGED <<job, desk, calm, unchecked>>
    BY <1>0, <1>3, <2>0, <2>1
  <2>2. CASE \E x, j, take : /\ pack' = [pack EXCEPT ![r] = x] /\ Outdate(r, desk[r]) /\ Takes(j, take)
    BY <1>0, <1>2, <2>0, <2>2 DEF Kinds
  <2> QED BY <1>4, <2>1, <2>2 DEF ReserveMaterial, Takes, Disturb
<1>5. CASE SwitchNozzle(r)
  <2>1. CASE \E x : /\ desk[r].at = "idle" /\ pack' = [pack EXCEPT ![r] = x]
                    /\ UNCHANGED <<job, desk, calm, unchecked>>
    BY <1>0, <1>3, <2>1
  <2>2. CASE \E j, n : /\ MaySwap(j, n) /\ desk' = [desk EXCEPT ![r] = SwapJudged(r, j, n)]
                       /\ UNCHANGED <<job, pack, calm, unchecked>>
    <3>1. PICK j, n : /\ MaySwap(j, n) /\ desk' = [desk EXCEPT ![r] = SwapJudged(r, j, n)]
                      /\ UNCHANGED <<job, pack, calm, unchecked>>
      BY <2>2
    <3>2. pack[r].at = "switch"
      BY <1>5 DEF SwitchNozzle, Steps
    <3>3. /\ desk'[r] = SwapJudged(r, j, n) /\ \A b \in Actors \ {r} : desk'[b] = desk[b]
          /\ desk' = [b \in Actors |-> desk'[b]] /\ (Asks(r) => \A b \in Actors : Asks(b))
      BY <1>0, <3>1, AskingIsQuiet
    <3>4. Asks(r)
      BY <3>1, <3>3 DEF Asks
    <3>5. pack' = [pack EXCEPT ![r] = pack[r]]
      BY <3>1 DEF ShapesOK
    <3>6. PacksWriteInTurn' /\ pack' = [q \in Packs |-> pack'[q]]
      BY <1>0, <3>2, <3>3, <3>5, StillInTurn
    <3> QED BY <1>1, <3>1, <3>3, <3>4, <3>6 DEF Kinds, NextInTurn
  <2>3. CASE \E x : Swap(r) /\ Outdate(r, NoDesk) /\ pack' = [pack EXCEPT ![r] = x]
    BY <1>0, <1>2, <2>3, DesksAreDesks DEF Kinds
  <2> QED BY <1>5, <2>1, <2>2, <2>3 DEF SwitchNozzle, Disturb
<1>6. CASE Commit(r)
  <2>1. CASE \E x : Booked(r) /\ Outdate(r, NoDesk) /\ pack' = [pack EXCEPT ![r] = x]
    BY <1>0, <1>2, <2>1, DesksAreDesks DEF Kinds
  <2>2. CASE \E x : /\ desk' = [desk EXCEPT ![r] = NoDesk] /\ pack' = [pack EXCEPT ![r] = x]
                    /\ UNCHANGED <<job, calm, unchecked>>
    BY <1>0, <1>3, <2>2, DesksAreDesks
  <2> QED BY <1>6, <2>1, <2>2 DEF Commit, Booked, Disturb
<1> QED BY <1>4, <1>5, <1>6

LEMMA KindsOfSteps ==
  ASSUME ShapesOK, PacksWriteInTurn, [PackerNext]_packerVars
  PROVE  Kinds /\ NextInTurn
<1>1. CASE UNCHANGED packerVars
  BY <1>1 DEF packerVars, Kinds, NextInTurn, Asks, PacksWriteInTurn, ShapesOK
<1>2. CASE Tick
  BY <1>2 DEF Tick, Kinds, NextInTurn, Asks, PacksWriteInTurn, ShapesOK
<1>3. CASE PackNext \/ PackEnds
  BY <1>3, PacksAsk, PacksWrite DEF PackNext, PackEnds
<1>4. CASE HandNext \/ EquipNext \/ ClearNext \/ ShopNext
  <2>1. PICK h \in Hands : \/ \/ \E items : HandSchedule(h, items)
                              \/ HandCheck(h)
                              \/ \E j \in Jobs, n \in Nozzles : HandNozzle(h, j, n)
                              \/ \E ps : HandClear(h, ps)
                           \/ \/ HandBook(h) \/ HandSwap(h) \/ HandCleared(h)
                              \/ \E j \in Jobs, s \in Spools : HandReserve(h, j, s)
                              \/ \E js : HandUnschedule(h, js)
                              \/ \E j \in Jobs : ShopRuns(h, j)
    BY <1>4 DEF HandNext, EquipNext, ClearNext, ShopNext
  <2> QED BY <2>1, HandsAsk, HandsWrite
<1> QED BY <1>1, <1>2, <1>3, <1>4 DEF PackerNext

LEMMA AnswersAreDesks ==
  ASSUME NEW a, IsDesk(desk[a]), NEW j, NEW s, NEW n
  PROVE  /\ IsDesk(Judged(a, j, s)) /\ Judged(a, j, s).at = "book" /\ Judged(a, j, s).job = j
         /\ IsDesk(SwapJudged(a, j, n)) /\ SwapJudged(a, j, n).at = "nozzle"
         /\ SwapJudged(a, j, n).job = j /\ SwapJudged(a, j, n).nozzle = n
<1>1. ASSUME NEW m, NEW d, d = [desk[a] EXCEPT !.at = "book", !.job = j, !.s = s, !.fresh = TRUE, !.nozzle = m]
      PROVE  IsDesk(d) /\ d.at = "book" /\ d.job = j
  BY <1>1 DEF IsDesk
<1>2. ASSUME NEW d, d = [desk[a] EXCEPT !.at = "nozzle", !.job = j, !.nozzle = n, !.fresh = TRUE]
      PROVE  IsDesk(d) /\ d.at = "nozzle" /\ d.job = j /\ d.nozzle = n
  BY <1>2 DEF IsDesk
<1> QED BY <1>1, <1>2 DEF Judged, SwapJudged

\* Steps that only ask: what they have just checked is so.
LEMMA AskingKeepsTheBoard ==
  ASSUME BoardInv, floor' = floor, NextInTurn, job' = job, unchecked' = unchecked, \A a \in Actors : Asks(a)
  PROVE  BoardInv'
<1>1. \A a \in Actors : IsDesk(desk'[a])
  <2> SUFFICES ASSUME NEW a \in Actors PROVE IsDesk(desk'[a])
    OBVIOUS
  <2>1. IsDesk(desk[a]) /\ Asks(a)
    BY DEF BoardInv, ShapesOK
  <2> QED BY <2>1, AnswersAreDesks DEF Asks
<1>2. ShapesOK'
  BY <1>1 DEF BoardInv, ShapesOK, NextInTurn, IsRow, IsDesk
<1>3. /\ OnBoard' = OnBoard
      /\ \A j, n, s, e : Free(j, n, s, e)' <=> Free(j, n, s, e)
      /\ \A j, n, s, e : NozzleTaken(n, j, s, e)' <=> NozzleTaken(n, j, s, e)
  BY DEF OnBoard, Free, NozzleTaken, Collides, Overlaps, SpoolsOf, SharesTank, Fact, IsBed
<1>4. FreshChecksHold'
  <2> SUFFICES ASSUME NEW a \in Actors, desk'[a].fresh = TRUE, desk'[a].job \in Jobs
               PROVE  /\ desk'[a].at = "book" =>
                           Free(desk'[a].job, BookedNozzle(a)', desk'[a].s, desk'[a].s + Fact(desk'[a].job).len)
                      /\ desk'[a].at = "nozzle" /\ desk'[a].job \in OnBoard =>
                           ~NozzleTaken(desk'[a].nozzle, desk'[a].job, job[desk'[a].job].s, job[desk'[a].job].e)
    BY <1>3 DEF FreshChecksHold, Fact
  <2>0. BookedNozzle(a)' = IF desk'[a].nozzle # None THEN desk'[a].nozzle ELSE job[desk'[a].job].nozzle
    BY DEF BookedNozzle
  <2>1. CASE desk'[a] = desk[a]
    BY <2>0, <2>1 DEF BoardInv, FreshChecksHold, BookedNozzle
  <2>2. CASE IsDesk(desk'[a]) /\ desk'[a].at \notin {"book", "nozzle"}
    BY <2>2
  <2>3. ASSUME NEW j, NEW s, Bookable(j, s), desk'[a] = Judged(a, j, s)
        PROVE  desk'[a].at = "book" /\ Free(desk'[a].job, BookedNozzle(a)', desk'[a].s, desk'[a].s + Fact(desk'[a].job).len)
    <3>1. j \in Jobs
      BY <2>3, AnswersAreDesks DEF BoardInv, ShapesOK
    <3> QED BY <2>0, <2>3, <3>1, BookableIsFree DEF BoardInv
  <2>4. ASSUME NEW j, NEW n, MaySwap(j, n), desk'[a] = SwapJudged(a, j, n)
        PROVE  /\ desk'[a].at = "nozzle" /\ desk'[a].job = j /\ desk'[a].nozzle = n
               /\ j \in OnBoard => ~NozzleTaken(n, j, job[j].s, job[j].e)
    <3>1. IsDesk(desk[a])
      BY DEF BoardInv, ShapesOK
    <3>2. desk'[a].at = "nozzle" /\ desk'[a].job = j /\ desk'[a].nozzle = n
      BY <2>4, <3>1, AnswersAreDesks
    <3> QED BY <2>4, <3>2 DEF MaySwap, OnBoard
  <2> QED BY <2>1, <2>2, <2>3, <2>4 DEF Asks
<1>5. StalePlansNeverDoubleBook'
  BY <1>3 DEF BoardInv, StalePlansNeverDoubleBook, Overlaps, ShareAResource, SpoolsOf, Fact, IsBed
<1> QED BY <1>2, <1>4, <1>5 DEF BoardInv, NextInTurn

\* Two jobs fight over something in one window, and somebody had looked.
Clash(i, j) ==
  /\ Overlaps(i, job[j].s, job[j].e)
  /\ \/ ShareAResource(i, j) /\ i \notin unchecked /\ j \notin unchecked
     \/ job[i].printer = job[j].printer /\ ~IsBed(i) /\ ~IsBed(j)

LEMMA NoClashes == StalePlansNeverDoubleBook <=> \A i, j \in OnBoard : i # j => ~Clash(i, j)
BY DEF StalePlansNeverDoubleBook, Clash, ShareAResource

LEMMA NoClashesThen == StalePlansNeverDoubleBook' <=> \A i, j \in OnBoard' : i # j => ~Clash(i, j)'
BY DEF StalePlansNeverDoubleBook, Clash, ShareAResource

LEMMA ClashesGoBothWays == \A i, j : Clash(i, j)' <=> Clash(j, i)'
BY DEF Clash, Overlaps, ShareAResource, IsBed

\* Where the rows of two jobs are as they were, they clash no more than before.
LEMMA SameRowsSameClash ==
  ASSUME floor' = floor, NEW i, NEW j, job'[i] = job[i], job'[j] = job[j],
         i \in unchecked => i \in unchecked', j \in unchecked => j \in unchecked'
  PROVE  Clash(i, j)' => Clash(i, j)
BY DEF Clash, Overlaps, ShareAResource, SpoolsOf, Fact, IsBed

LEMMA OneRowMoves ==
  ASSUME BoardInv, floor' = floor, NEW j \in Jobs, NEW x, job' = [job EXCEPT ![j] = x], IsRow(x),
         \A i \in Jobs \ {j} : i \in unchecked' <=> i \in unchecked,
         \A i \in OnBoard \ {j} : j \in OnBoard' => ~Clash(i, j)'
  PROVE  StalePlansNeverDoubleBook' /\ \A i \in Jobs : IsRow(job'[i])
<1>1. /\ job'[j] = x /\ \A i \in Jobs \ {j} : job'[i] = job[i]
      /\ \A i \in Jobs : IsRow(job'[i])
  BY DEF BoardInv, ShapesOK
<1>2. \A i \in OnBoard' \ {j} : i \in OnBoard \ {j}
  BY <1>1 DEF OnBoard
<1>3. ASSUME NEW i \in OnBoard', NEW k \in OnBoard', i # k PROVE ~Clash(i, k)'
  <2>1. CASE i = j
    BY <1>2, <1>3, <2>1, ClashesGoBothWays
  <2>2. CASE k = j
    BY <1>2, <1>3, <2>2
  <2>3. CASE i # j /\ k # j
    <3>1. i \in OnBoard /\ k \in OnBoard /\ i \in Jobs /\ k \in Jobs
      BY <1>2, <2>3 DEF OnBoard
    <3>2. ~Clash(i, k)
      BY <1>3, <3>1, NoClashes DEF BoardInv
    <3> QED BY <1>1, <2>3, <3>1, <3>2, SameRowsSameClash
  <2> QED BY <2>1, <2>2, <2>3
<1>4. StalePlansNeverDoubleBook'
  BY <1>3, NoClashesThen
<1> QED BY <1>1, <1>4

LEMMA BookingKeepsTheBoard ==
  ASSUME BoardInv, floor' = floor, NEW a \in Actors, Booked(a)
  PROVE  StalePlansNeverDoubleBook' /\ job' = [i \in Jobs |-> job'[i]] /\ \A i \in Jobs : IsRow(job'[i])
<1>0. PICK j, s, e, n : j = desk[a].job /\ s = desk[a].s /\ e = s + Fact(j).len /\ n = BookedNozzle(a)
  OBVIOUS
<1> DEFINE booked == [job[j] EXCEPT !.status = "scheduled", !.s = s, !.e = e, !.nozzle = n]
<1>1. /\ desk[a].at = "book" /\ ~Refused(a) /\ job' = [job EXCEPT ![j] = booked]
      /\ unchecked' = IF desk[a].fresh THEN unchecked \ {j} ELSE unchecked \cup {j}
      /\ desk[a].fresh \in BOOLEAN
  BY <1>0 DEF Booked, Book, BoardInv, ShapesOK, IsDesk
<1>2. job' = [i \in Jobs |-> job'[i]]
  BY <1>1 DEF BoardInv, ShapesOK
<1>3. CASE j \notin Jobs
  <2>1. job' = job
    BY <1>1, <1>3 DEF BoardInv, ShapesOK
  <2>2. ASSUME NEW i \in OnBoard', NEW k \in OnBoard', i # k PROVE ~Clash(i, k)'
    <3>1. i \in OnBoard /\ k \in OnBoard /\ i # j /\ k # j
      BY <1>3, <2>1 DEF OnBoard
    <3>2. ~Clash(i, k)
      BY <2>2, <3>1, NoClashes DEF BoardInv
    <3> QED BY <1>1, <2>1, <3>1, <3>2, SameRowsSameClash
  <2> QED BY <1>2, <2>1, <2>2, NoClashesThen DEF BoardInv, ShapesOK
<1>4. CASE j \in Jobs
  <2>1. IsRow(job[j])
    BY <1>4 DEF BoardInv, ShapesOK
  <2>2. PICK x : x = booked
    OBVIOUS
  <2>3. /\ IsRow(x) /\ x.status = "scheduled" /\ x.s = s /\ x.e = e /\ x.nozzle = n
        /\ x.printer = job[j].printer /\ x.take = job[j].take
    BY <2>1, <2>2 DEF IsRow
  <2>4. job' = [job EXCEPT ![j] = x] /\ job'[j] = x
    BY <1>1, <1>4, <2>2 DEF BoardInv, ShapesOK
  <2>5. ASSUME NEW i \in OnBoard \ {j} PROVE ~Clash(i, j)'
    <3>1. i \in Jobs /\ job'[i] = job[i]
      BY <2>4 DEF OnBoard, BoardInv, ShapesOK
    <3>2. SUFFICES ASSUME Clash(i, j)' PROVE FALSE
      OBVIOUS
    <3>3. Overlaps(i, s, e)
      BY <2>3, <2>4, <3>1, <3>2 DEF Clash, Overlaps
    <3>4. IsBed(i)' = IsBed(i) /\ IsBed(j)' = IsBed(j) /\ Fact(i)' = Fact(i) /\ Fact(j)' = Fact(j)
      BY DEF IsBed, Fact
    <3>5. CASE (job[i].printer = job[j].printer /\ ~IsBed(i) /\ ~IsBed(j))
      BY <1>0, <1>1, <3>3, <3>5 DEF Refused, IsBed, Fact
    <3>6. CASE ShareAResource(i, j)' /\ j \notin unchecked'
      <4>1. desk[a].fresh = TRUE
        BY <1>1, <3>6
      <4>2. Free(j, n, s, e)
        BY <1>0, <1>1, <1>4, <4>1 DEF BoardInv, FreshChecksHold
      <4>3. /\ job[i].printer # job[j].printer /\ SpoolsOf(i) \cap SpoolsOf(j) = {} /\ ~SharesTank(j, i)
        BY <3>3, <4>2 DEF Free, Collides
      <4>4. n # None => job[i].nozzle # n
        BY <3>3, <4>2 DEF Free, NozzleTaken
      <4>5. SpoolsOf(i)' = SpoolsOf(i) /\ SpoolsOf(j)' = SpoolsOf(j)
        BY <2>3, <2>4, <3>1 DEF SpoolsOf
      <4>6. \/ x.printer = job[i].printer
            \/ job[i].nozzle # None /\ job[i].nozzle = x.nozzle
            \/ SpoolsOf(i) \cap SpoolsOf(j) # {}
            \/ Fact(i).tank # None /\ Fact(i).tank = Fact(j).tank /\ IsBed(i) = IsBed(j)
        BY <2>4, <3>1, <3>4, <3>6, <4>5 DEF ShareAResource
      <4> QED BY <2>3, <4>3, <4>4, <4>6 DEF SharesTank
    <3> QED BY <2>3, <2>4, <3>1, <3>2, <3>4, <3>5, <3>6 DEF Clash
  <2>6. \A i \in Jobs \ {j} : i \in unchecked' <=> i \in unchecked
    BY <1>1
  <2> QED BY <1>2, <1>4, <2>3, <2>4, <2>5, <2>6, OneRowMoves
<1> QED BY <1>3, <1>4

\* A row written where there is no such job changes nothing, and books nothing.
LEMMA NoJobNoChange ==
  ASSUME BoardInv, floor' = floor, NEW j, j \notin Jobs, NEW x, job' = [job EXCEPT ![j] = x],
         \A i \in Jobs : i \in unchecked => i \in unchecked'
  PROVE  StalePlansNeverDoubleBook' /\ job' = [i \in Jobs |-> job'[i]] /\ \A i \in Jobs : IsRow(job'[i])
<1>1. job' = job
  BY DEF BoardInv, ShapesOK
<1>2. ASSUME NEW i \in OnBoard', NEW k \in OnBoard', i # k PROVE ~Clash(i, k)'
  <2>1. i \in OnBoard /\ k \in OnBoard /\ i \in Jobs /\ k \in Jobs
    BY <1>1 DEF OnBoard
  <2>2. ~Clash(i, k)
    BY <1>2, <2>1, NoClashes DEF BoardInv
  <2> QED BY <1>1, <2>1, <2>2, SameRowsSameClash
<1> QED BY <1>1, <1>2, NoClashesThen DEF BoardInv, ShapesOK

\* A row that keeps its printer and window clashes with another over a nozzle
\* or a spool it did not hold before, or not at all.
LEMMA NewClashIsOverSomethingNew ==
  ASSUME BoardInv, floor' = floor, NEW j \in OnBoard, NEW i \in OnBoard \ {j}, job'[i] = job[i],
         job'[j].printer = job[j].printer, job'[j].s = job[j].s, job'[j].e = job[j].e,
         i \in unchecked => i \in unchecked', j \in unchecked => j \in unchecked',
         Clash(i, j)'
  PROVE  /\ Overlaps(i, job[j].s, job[j].e) /\ i \notin unchecked' /\ j \notin unchecked'
         /\ \/ job[i].nozzle # None /\ job[i].nozzle = job'[j].nozzle /\ job'[j].nozzle # job[j].nozzle
            \/ job'[j].take # job[j].take
<1>1. /\ Overlaps(i, job[j].s, job[j].e) /\ i # j
      /\ Fact(i)' = Fact(i) /\ Fact(j)' = Fact(j) /\ IsBed(i)' = IsBed(i) /\ IsBed(j)' = IsBed(j)
  BY DEF Clash, Overlaps, Fact, IsBed
<1>2. ~Clash(i, j)
  BY NoClashes DEF BoardInv
<1>3. ~(job[i].printer = job[j].printer /\ ~IsBed(i) /\ ~IsBed(j))
  BY <1>1, <1>2 DEF Clash
<1>4. ShareAResource(i, j)' /\ i \notin unchecked' /\ j \notin unchecked'
  BY <1>1, <1>3 DEF Clash
<1>5. ~ShareAResource(i, j)
  BY <1>1, <1>2, <1>4 DEF Clash
<1>6. SpoolsOf(i)' = SpoolsOf(i) /\ (job'[j].take = job[j].take => SpoolsOf(j)' = SpoolsOf(j))
  BY DEF SpoolsOf
<1> QED BY <1>1, <1>4, <1>5, <1>6 DEF ShareAResource

LEMMA SwappingKeepsTheBoard ==
  ASSUME BoardInv, floor' = floor, NEW a \in Actors, Swap(a)
  PROVE  StalePlansNeverDoubleBook' /\ job' = [i \in Jobs |-> job'[i]] /\ \A i \in Jobs : IsRow(job'[i])
<1>0. PICK j, n : j = desk[a].job /\ n = desk[a].nozzle
  OBVIOUS
<1>1. /\ desk[a].at = "nozzle" /\ job' = [job EXCEPT ![j] = [job[j] EXCEPT !.nozzle = n]]
      /\ unchecked' = IF desk[a].fresh THEN unchecked ELSE unchecked \cup {j}
      /\ desk[a].fresh \in BOOLEAN
  BY <1>0 DEF Swap, BoardInv, ShapesOK, IsDesk
<1>2. PICK x : x = [job[j] EXCEPT !.nozzle = n]
  OBVIOUS
<1>3. job' = [job EXCEPT ![j] = x] /\ job' = [i \in Jobs |-> job'[i]]
  BY <1>1, <1>2 DEF BoardInv, ShapesOK
<1>4. CASE j \notin Jobs
  BY <1>1, <1>3, <1>4, NoJobNoChange
<1>5. CASE j \in Jobs
  <2>1. IsRow(job[j])
    BY <1>5 DEF BoardInv, ShapesOK
  <2>2. /\ IsRow(x) /\ x.status = job[j].status /\ x.s = job[j].s /\ x.e = job[j].e /\ x.nozzle = n
        /\ x.printer = job[j].printer /\ x.take = job[j].take
    BY <1>2, <2>1 DEF IsRow
  <2>3. job'[j] = x
    BY <1>3, <1>5 DEF BoardInv, ShapesOK
  <2>4. ASSUME NEW i \in OnBoard \ {j}, j \in OnBoard' PROVE ~Clash(i, j)'
    <3>1. j \in OnBoard /\ job'[i] = job[i]
      BY <1>3, <1>5, <2>2, <2>3, <2>4 DEF OnBoard, BoardInv, ShapesOK
    <3>2. SUFFICES ASSUME Clash(i, j)' PROVE FALSE
      OBVIOUS
    <3>3. Overlaps(i, job[j].s, job[j].e) /\ j \notin unchecked' /\ job[i].nozzle = n
      BY <1>1, <2>2, <2>3, <3>1, <3>2, NewClashIsOverSomethingNew
    <3>4. ~NozzleTaken(n, j, job[j].s, job[j].e)
      BY <1>0, <1>1, <1>5, <3>1, <3>3 DEF BoardInv, FreshChecksHold
    <3> QED BY <3>3, <3>4 DEF NozzleTaken
  <2>5. \A i \in Jobs \ {j} : i \in unchecked' <=> i \in unchecked
    BY <1>1
  <2> QED BY <1>3, <1>5, <2>2, <2>4, <2>5, OneRowMoves
<1> QED BY <1>4, <1>5

LEMMA TakingKeepsTheBoard ==
  ASSUME BoardInv, floor' = floor, NEW j, NEW take, Takes(j, take)
  PROVE  StalePlansNeverDoubleBook' /\ job' = [i \in Jobs |-> job'[i]] /\ \A i \in Jobs : IsRow(job'[i])
<1>1. /\ job' = [job EXCEPT ![j] = [job[j] EXCEPT !.take = take]]
      /\ unchecked' = IF j \in OnBoard THEN unchecked \cup {j} ELSE unchecked
  BY DEF Takes
<1>2. PICK x : x = [job[j] EXCEPT !.take = take]
  OBVIOUS
<1>3. job' = [job EXCEPT ![j] = x] /\ job' = [i \in Jobs |-> job'[i]]
  BY <1>1, <1>2 DEF BoardInv, ShapesOK
<1>4. CASE j \notin Jobs
  BY <1>1, <1>3, <1>4, NoJobNoChange
<1>5. CASE j \in Jobs
  <2>1. IsRow(job[j])
    BY <1>5 DEF BoardInv, ShapesOK
  <2>2. /\ IsRow(x) /\ x.status = job[j].status /\ x.s = job[j].s /\ x.e = job[j].e
        /\ x.nozzle = job[j].nozzle /\ x.printer = job[j].printer
    BY <1>2, <2>1 DEF IsRow
  <2>3. job'[j] = x
    BY <1>3, <1>5 DEF BoardInv, ShapesOK
  <2>4. ASSUME NEW i \in OnBoard \ {j}, j \in OnBoard' PROVE ~Clash(i, j)'
    <3>1. j \in OnBoard /\ job'[i] = job[i]
      BY <1>3, <1>5, <2>2, <2>3, <2>4 DEF OnBoard, BoardInv, ShapesOK
    <3>2. j \in unchecked'
      BY <1>1, <3>1
    <3> QED BY <1>1, <2>2, <2>3, <3>1, <3>2, NewClashIsOverSomethingNew
  <2>5. \A i \in Jobs \ {j} : i \in unchecked' <=> i \in unchecked
    BY <1>1
  <2> QED BY <1>3, <1>5, <2>2, <2>4, <2>5, OneRowMoves
<1> QED BY <1>4, <1>5

LEMMA TakingOffKeepsTheBoard ==
  ASSUME BoardInv, floor' = floor, NEW off, TakesOff(off)
  PROVE  StalePlansNeverDoubleBook' /\ job' = [i \in Jobs |-> job'[i]] /\ \A i \in Jobs : IsRow(job'[i])
<1>1. ASSUME NEW i \in OnBoard', NEW k \in OnBoard', i # k PROVE ~Clash(i, k)'
  <2>1. i \in Jobs \ off /\ k \in Jobs \ off
    BY DEF TakesOff, OnBoard
  <2>2. job'[i] = job[i] /\ job'[k] = job[k] /\ i \in OnBoard /\ k \in OnBoard
    BY <2>1 DEF TakesOff, OnBoard
  <2>3. ~Clash(i, k)
    BY <1>1, <2>2, NoClashes DEF BoardInv
  <2> QED BY <2>1, <2>2, <2>3, SameRowsSameClash DEF TakesOff
<1> QED BY <1>1, NoClashesThen DEF TakesOff

LEMMA RunningKeepsTheBoard ==
  ASSUME BoardInv, floor' = floor, unchecked' = unchecked, NEW j \in Jobs,
         \/ /\ job[j].status = "scheduled"
            /\ job' = [job EXCEPT ![j] = [@ EXCEPT !.status = "printing"]]
         \/ job' = [job EXCEPT ![j] = [@ EXCEPT !.status = "done", !.take = NoTake]]
  PROVE  StalePlansNeverDoubleBook' /\ job' = [i \in Jobs |-> job'[i]] /\ \A i \in Jobs : IsRow(job'[i])
<1>0. IsRow(job[j]) /\ job' = [i \in Jobs |-> job'[i]]
  BY DEF BoardInv, ShapesOK
<1>1. CASE job[j].status = "scheduled" /\ job' = [job EXCEPT ![j] = [@ EXCEPT !.status = "printing"]]
  <2>1. PICK x : x = [job[j] EXCEPT !.status = "printing"]
    OBVIOUS
  <2>2. /\ IsRow(x) /\ x.s = job[j].s /\ x.e = job[j].e
        /\ x.nozzle = job[j].nozzle /\ x.printer = job[j].printer /\ x.take = job[j].take
    BY <1>0, <2>1 DEF IsRow
  <2>3. job' = [job EXCEPT ![j] = x] /\ job'[j] = x
    BY <1>1, <2>1 DEF BoardInv, ShapesOK
  <2>4. ASSUME NEW i \in OnBoard \ {j} PROVE ~Clash(i, j)'
    <3>1. j \in OnBoard /\ job'[i] = job[i]
      BY <1>1, <2>3 DEF OnBoard, BoardInv, ShapesOK
    <3> QED BY <2>2, <2>3, <3>1, NewClashIsOverSomethingNew
  <2> QED BY <1>0, <2>2, <2>3, <2>4, OneRowMoves
<1>2. CASE job' = [job EXCEPT ![j] = [@ EXCEPT !.status = "done", !.take = NoTake]]
  <2>1. PICK x : x = [job[j] EXCEPT !.status = "done", !.take = NoTake]
    OBVIOUS
  <2>2. IsRow(x) /\ x.status = "done"
    BY <1>0, <2>1 DEF IsRow
  <2>3. job' = [job EXCEPT ![j] = x] /\ job'[j] = x
    BY <1>2, <2>1 DEF BoardInv, ShapesOK
  <2>4. j \notin OnBoard'
    BY <2>2, <2>3 DEF OnBoard
  <2> QED BY <1>0, <2>2, <2>3, <2>4, OneRowMoves
<1> QED BY <1>1, <1>2

\* Whoever writes, what the others had checked is stale.
LEMMA WritersStaleTheRest ==
  ASSUME ShapesOK, NEW a \in Actors, Writes(a), NextInTurn
  PROVE  FreshChecksHold' /\ desk' = [b \in Actors |-> desk'[b]] /\ \A b \in Actors : IsDesk(desk'[b])
<1>1. ASSUME NEW b \in Actors PROVE IsDesk(desk'[b]) /\ (b # a => desk'[b].fresh = FALSE)
  <2>1. IsDesk(desk[b])
    BY DEF ShapesOK
  <2>2. ASSUME NEW d, d = [desk[b] EXCEPT !.fresh = FALSE] PROVE IsDesk(d) /\ d.fresh = FALSE
    BY <2>1, <2>2 DEF IsDesk
  <2> QED BY <2>2 DEF Writes
<1>2. FreshChecksHold'
  BY <1>1 DEF FreshChecksHold, Writes
<1> QED BY <1>1, <1>2 DEF NextInTurn

LEMMA BoardKept == ASSUME BoardInv, [PackerNext]_packerVars PROVE BoardInv'
<1>0. Kinds /\ NextInTurn
  BY KindsOfSteps DEF BoardInv
<1>1. CASE job' = job /\ unchecked' = unchecked /\ \A a \in Actors : Asks(a)
  BY <1>0, <1>1, AskingKeepsTheBoard DEF NextInTurn
<1>2. ASSUME NEW a \in Actors, Writes(a),
             StalePlansNeverDoubleBook' /\ job' = [i \in Jobs |-> job'[i]] /\ \A i \in Jobs : IsRow(job'[i])
      PROVE  BoardInv'
  BY <1>0, <1>2, WritersStaleTheRest DEF BoardInv, ShapesOK, NextInTurn, IsRow, IsDesk
<1>3. floor' = floor
  BY <1>0 DEF NextInTurn
<1> QED BY <1>0, <1>1, <1>2, <1>3, BookingKeepsTheBoard, SwappingKeepsTheBoard, TakingKeepsTheBoard,
           TakingOffKeepsTheBoard, RunningKeepsTheBoard DEF Kinds

LEMMA BoardStarts == ASSUME PackerInit PROVE BoardInv
<1>1. floor \in Floors /\ floor.board \in [Jobs -> JobRow] /\ job = floor.board
  BY PackerAssumption DEF PackerInit
<1>2. ShapesOK
  <2>1. \A j \in Jobs : IsRow(job[j])
    BY <1>1 DEF JobRow, IsRow
  <2>2. desk = [a \in Actors |-> desk[a]] /\ \A a \in Actors : IsDesk(desk[a])
    BY DesksAreDesks DEF PackerInit
  <2>3. job = [j \in Jobs |-> job[j]] /\ pack = [r \in Packs |-> pack[r]]
    BY <1>1 DEF PackerInit
  <2> QED BY <2>1, <2>2, <2>3 DEF ShapesOK
<1>3. PacksWriteInTurn /\ FreshChecksHold
  <2>1. Packs \subseteq Actors /\ \A a \in Actors : desk[a] = NoDesk
    BY DEF PackerInit, Actors
  <2> QED BY <2>1, DesksAreDesks DEF PacksWriteInTurn, FreshChecksHold, NoDesk
<1>4. ASSUME NEW i \in OnBoard, NEW j \in OnBoard, i # j, Overlaps(i, job[j].s, job[j].e) PROVE ~ShareAResource(i, j)
  <2>1. i \in Jobs /\ j \in Jobs /\ {job[i].status, job[j].status} \subseteq {"scheduled", "printing"}
    BY DEF OnBoard
  <2>2. /\ job[i].printer # job[j].printer /\ (job[i].nozzle # None => job[i].nozzle # job[j].nozzle)
        /\ \A s \in Spools : job[i].take[s] = 0 \/ job[j].take[s] = 0
        /\ floor.job[i].tank # None => floor.job[i].tank # floor.job[j].tank
    BY <1>1, <1>4, <2>1, PackerAssumption DEF Overlaps
  <2>3. SpoolsOf(i) \cap SpoolsOf(j) = {}
    BY <2>2 DEF SpoolsOf
  <2> QED BY <2>2, <2>3 DEF ShareAResource, Fact
<1>5. StalePlansNeverDoubleBook
  <2>1. \A i, j : job[i].printer = job[j].printer => ShareAResource(i, j)
    BY DEF ShareAResource
  <2> QED BY <1>4, <2>1 DEF StalePlansNeverDoubleBook
<1> QED BY <1>2, <1>3, <1>5 DEF BoardInv

(* The packer and the operators work on one board from what each read earlier:
   two jobs hold a printer, a nozzle, a spool or a tank in one window only when
   one of them was written after somebody had moved the board under its checks
   -- and never two pieces a printer. *)
THEOREM StalePlansDoNotDoubleBook == PackerSpec => []StalePlansNeverDoubleBook
<1>1. PackerInit => BoardInv
  BY BoardStarts
<1>2. BoardInv /\ [PackerNext]_packerVars => BoardInv'
  BY BoardKept
<1>3. BoardInv => StalePlansNeverDoubleBook
  BY DEF BoardInv
<1> QED BY <1>1, <1>2, <1>3, PTL DEF PackerSpec

-----------------------------------------------------------------------------
(* The fit kernel, packing.ts: what its recursion computes. *)

\* A timeline: intervals in the order of their starts.
Timeline == {l \in Seq(Interval) : \A i, k \in DOMAIN l : i < k => l[i].s <= l[k].s}

\* Whether a print of length dur fits at t, in hours and clear of every interval.
Room(lists, t, dur, gap) ==
  \A i \in DOMAIN lists : \A k \in DOMAIN lists[i] :
    t + dur + gap <= lists[i][k].s \/ t >= lists[i][k].e + gap

Suits(lists, t, dur, gap, w) == IsWithinWorkWindow(t, w) /\ Room(lists, t, dur, gap)

\* A tail recursion over D: it goes on by `next` until it is in Ends.
GoesBy(D, Ends, next, out) == DOMAIN out = D /\ \A x \in D \ Ends : next[x] \in D
Computes(f, D, Ends, next, out) ==
  f = [x \in D |-> f[x]] /\ \A x \in D : f[x] = IF x \in Ends THEN out[x] ELSE f[next[x]]

(* What it computes: f[x] is out of the first stop on the way from x, the way
   being the least set that holds x and goes on. *)
LEMMA TailRecursion ==
  ASSUME NEW D, NEW Ends, NEW next, NEW out, GoesBy(D, Ends, next, out)
  PROVE  \E f : Computes(f, D, Ends, next, out)
<1> DEFINE GoesOn(S) == \A y \in S : y \notin Ends => next[y] \in S
           Way(x) == {y \in D : \A S \in SUBSET D : x \in S /\ GoesOn(S) => y \in S}
           end(x) == CHOOSE y : y \in Way(x) /\ y \in Ends
           f == [x \in D |-> out[end(x)]]
<1>1. ASSUME NEW x \in D, x \in Ends PROVE end(x) = x
  <2>1. {x} \in SUBSET D /\ x \in {x} /\ GoesOn({x})
    BY <1>1
  <2>2. \A y \in Way(x) : y = x
    BY <2>1
  <2>3. x \in Way(x)
    OBVIOUS
  <2> QED BY <1>1, <2>2, <2>3
<1>2. ASSUME NEW x \in D, x \notin Ends PROVE end(x) = end(next[x])
  <2>1. next[x] \in D
    BY <1>2 DEF GoesBy
  <2>2. ASSUME NEW y, y \in Way(x), y \in Ends PROVE y \in Way(next[x])
    <3> SUFFICES ASSUME NEW S \in SUBSET D, next[x] \in S, GoesOn(S) PROVE y \in S
      BY <2>2
    <3>1. S \cup {x} \in SUBSET D /\ GoesOn(S \cup {x})
      OBVIOUS
    <3>2. y \in S \cup {x}
      BY <2>2, <3>1
    <3> QED BY <1>2, <2>2, <3>2
  <2>3. ASSUME NEW y, y \in Way(next[x]) PROVE y \in Way(x)
    <3> SUFFICES ASSUME NEW S \in SUBSET D, x \in S, GoesOn(S) PROVE y \in S
      BY <2>3
    <3>1. next[x] \in S
      BY <1>2
    <3> QED BY <2>3, <3>1
  <2>4. \A y : (y \in Way(x) /\ y \in Ends) <=> (y \in Way(next[x]) /\ y \in Ends)
    BY <2>2, <2>3
  <2> HIDE DEF Way
  <2> QED BY <2>4
<1>3. \A x \in D : f[x] = IF x \in Ends THEN out[x] ELSE f[next[x]]
  <2> HIDE DEF end
  <2> QED BY <1>1, <1>2 DEF GoesBy
<1>4. f = [x \in D |-> f[x]]
  <2> HIDE DEF end
  <2> QED OBVIOUS
<1> HIDE DEF f
<1> QED BY <1>3, <1>4 DEF Computes

\* Induction on a measure, as a least counterexample.
LEMMA LeastMeasured ==
  ASSUME NEW S, S # {}, NEW m, \A x \in S : m[x] \in Nat
  PROVE  \E x \in S : \A y \in S : m[x] <= m[y]
<1> DEFINE R == {m[x] : x \in S}
<1>1. R \subseteq Nat /\ R # {}
  OBVIOUS
<1> HIDE DEF R
<1>2. PICK q \in R : \A y \in R : q <= y
  BY <1>1, LeastNatural
<1> QED BY <1>2 DEF R

LEMMA LeastInteger ==
  ASSUME NEW S, IsFiniteSet(S), S # {}, NEW m, \A x \in S : m[x] \in Int
  PROVE  \E x \in S : \A y \in S : m[x] <= m[y]
<1> DEFINE Below(x) == {y \in S : m[y] < m[x]}
           count == [x \in S |-> Cardinality(Below(x))]
<1>1. \A x \in S : IsFiniteSet(Below(x)) /\ Cardinality(Below(x)) \in Nat
  BY FS_Subset, FS_CardinalityType
<1>2. PICK x \in S : \A y \in S : count[x] <= count[y]
  <2> HIDE DEF Below
  <2> QED BY <1>1, LeastMeasured
<1>3. ASSUME NEW y \in S, m[y] < m[x] PROVE FALSE
  <2>1. Below(y) \in SUBSET Below(x) /\ y \in Below(x) /\ y \notin Below(y)
    BY <1>3
  <2>2. Cardinality(Below(y)) <= Cardinality(Below(x)) /\ Cardinality(Below(y)) # Cardinality(Below(x))
    <3> HIDE DEF Below
    <3> QED BY <1>1, <2>1, FS_Subset
  <2>3. count[x] <= count[y]
    BY <1>2
  <2> HIDE DEF Below
  <2> QED BY <1>1, <2>2, <2>3
<1> QED BY <1>3

\* The least by several keys, the later ones on a tie of the earlier.
LEMMA LeastOfPairs ==
  ASSUME NEW S, IsFiniteSet(S), S # {}, NEW a, NEW b, \A x \in S : a[x] \in Int /\ b[x] \in Int
  PROVE  \E x \in S : \A y \in S : /\ a[x] <= a[y] /\ (a[x] = a[y] => b[x] <= b[y])
                                   /\ ~Precedes(<<a[y], b[y]>>, <<a[x], b[x]>>)
<1>1. PICK u \in S : \A y \in S : a[u] <= a[y]
  BY LeastInteger
<1> DEFINE R == {x \in S : a[x] = a[u]}
<1>2. IsFiniteSet(R) /\ R # {}
  BY FS_Subset
<1>3. PICK x \in R : \A y \in R : b[x] <= b[y]
  BY <1>2, LeastInteger
<1>4. ASSUME NEW y \in S PROVE /\ a[x] <= a[y] /\ (a[x] = a[y] => b[x] <= b[y])
                               /\ ~Precedes(<<a[y], b[y]>>, <<a[x], b[x]>>)
  <2>1. a[x] <= a[y] /\ (a[x] = a[y] => b[x] <= b[y])
    BY <1>1, <1>3
  <2>2. ASSUME NEW i \in {1, 2}, <<a[y], b[y]>>[i] < <<a[x], b[x]>>[i],
               \A h \in 1 .. i - 1 : <<a[y], b[y]>>[h] = <<a[x], b[x]>>[h]
        PROVE  FALSE
    BY <2>1, <2>2
  <2> QED BY <2>1, <2>2 DEF Precedes
<1> QED BY <1>4

\* The list whose head comes first, if any head is left.
LEMMA HeadComesFirst ==
  ASSUME NEW lists \in Seq(Timeline), NEW c \in [DOMAIN lists -> Nat \ {0}]
  PROVE  LET h == EarliestHead(lists, c)
         IN  \/ h = None /\ \A i \in DOMAIN lists : c[i] > Len(lists[i])
             \/ /\ h \in DOMAIN lists /\ h # None /\ c[h] <= Len(lists[h])
                /\ \A i \in DOMAIN lists : c[i] <= Len(lists[i]) => lists[h][c[h]].s <= lists[i][c[i]].s
<1> DEFINE open == {i \in DOMAIN lists : c[i] <= Len(lists[i])}
           a == [i \in open |-> lists[i][c[i]].s]
           b == [i \in open |-> i]
<1>1. \A i \in DOMAIN lists : lists[i] \in Seq(Interval) /\ Len(lists[i]) \in Nat /\ c[i] \in Nat \ {0} /\ i \in Nat /\ i # 0
  BY DEF Timeline
<1>2. CASE open = {}
  <2>1. EarliestHead(lists, c) = None
    BY <1>2 DEF EarliestHead
  <2>2. ASSUME NEW i \in DOMAIN lists PROVE c[i] > Len(lists[i])
    <3>1. i \notin open
      BY <1>2
    <3> HIDE <1>2
    <3> QED BY <1>1, <3>1
  <2> QED BY <2>1, <2>2
<1>3. CASE open # {}
  <2>1. IsFiniteSet(open)
    <3>1. open \in SUBSET (1 .. Len(lists)) /\ Len(lists) \in Nat
      OBVIOUS
    <3> HIDE DEF open
    <3>2. IsFiniteSet(1 .. Len(lists))
      BY <3>1, FS_Interval
    <3> QED BY <3>1, <3>2, FS_Subset
  <2>2. \A i \in open : a[i] \in Int /\ b[i] \in Int
    <3> SUFFICES ASSUME NEW i \in open PROVE lists[i][c[i]].s \in Int /\ i \in Int
      OBVIOUS
    <3>1. c[i] \in 1 .. Len(lists[i])
      BY <1>1
    <3>2. lists[i][c[i]] \in Interval
      BY <1>1, <3>1
    <3> QED BY <3>2 DEF Interval
  <2>3. PICK x \in open : \A y \in open : /\ a[x] <= a[y] /\ (a[x] = a[y] => b[x] <= b[y])
                                          /\ ~Precedes(<<a[y], b[y]>>, <<a[x], b[x]>>)
    <3> HIDE DEF open, a, b
    <3> QED BY <1>3, <2>1, <2>2, LeastOfPairs
  <2>4. \A y \in open : ~Precedes(<<lists[y][c[y]].s, y>>, <<lists[x][c[x]].s, x>>)
    BY <2>3
  <2> DEFINE h == EarliestHead(lists, c)
  <2>5. h \in open /\ \A y \in open : ~Precedes(<<lists[y][c[y]].s, y>>, <<lists[h][c[h]].s, h>>)
    <3>1. h = Least(open, LAMBDA i : <<lists[i][c[i]].s, i>>)
      BY <1>3 DEF EarliestHead
    <3> HIDE DEF open, h
    <3> QED BY <2>4, <3>1 DEF Least
  <2>6. \A y \in open : lists[h][c[h]].s <= lists[y][c[y]].s
    <3> SUFFICES ASSUME NEW y \in open, ~(lists[h][c[h]].s <= lists[y][c[y]].s) PROVE FALSE
      OBVIOUS
    <3>1. lists[y][c[y]].s < lists[h][c[h]].s
      BY <2>2, <2>5
    <3>2. PICK u, v, yy, hh : u = lists[y][c[y]].s /\ v = lists[h][c[h]].s /\ yy = y /\ hh = h
      OBVIOUS
    <3>3. Precedes(<<u, yy>>, <<v, hh>>)
      BY <3>1, <3>2 DEF Precedes
    <3> QED BY <2>5, <3>2, <3>3
  <2> QED BY <1>1, <2>5, <2>6 DEF None
<1> QED BY <1>2, <1>3

LEMMA MaxOfTwo ==
  ASSUME NEW a \in Int, NEW b \in Int
  PROVE  Max({a, b}) = IF a >= b THEN a ELSE b
BY DEF Max

\* Where the intervals are that a walk has not read.
Unread(lists, c) == UNION {{i} \X (c[i] .. Len(lists[i])) : i \in DOMAIN lists}
Left(lists, c) == Cardinality(Unread(lists, c))

LEMMA UnreadIs ==
  ASSUME NEW lists \in Seq(Timeline), NEW c \in [DOMAIN lists -> Nat \ {0}]
  PROVE  /\ IsFiniteSet(Unread(lists, c)) /\ Left(lists, c) \in Nat
         /\ \A i \in DOMAIN lists, k \in Int : <<i, k>> \in Unread(lists, c) <=> c[i] <= k /\ k <= Len(lists[i])
<1> DEFINE rest(i) == {i} \X (c[i] .. Len(lists[i]))
           Rests == {rest(i) : i \in DOMAIN lists}
           f == [i \in DOMAIN lists |-> rest(i)]
<1>1. \A i \in DOMAIN lists : Len(lists[i]) \in Nat /\ c[i] \in Nat
  BY DEF Timeline
<1>2. ASSUME NEW i \in DOMAIN lists PROVE IsFiniteSet(rest(i))
  <2>1. IsFiniteSet({i}) /\ IsFiniteSet(c[i] .. Len(lists[i]))
    <3>1. IsFiniteSet(c[i] .. Len(lists[i]))
      BY <1>1, c[i] \in Int, Len(lists[i]) \in Int, FS_Interval
    <3> QED BY <3>1, FS_Singleton
  <2> QED BY <2>1, FS_Product
<1>3. IsFiniteSet(DOMAIN lists)
  <2>1. DOMAIN lists = 1 .. Len(lists) /\ Len(lists) \in Nat
    OBVIOUS
  <2>2. IsFiniteSet(1 .. Len(lists))
    BY <2>1, FS_Interval
  <2> QED BY <2>1, <2>2
<1>4. f \in Surjection(DOMAIN lists, Rests)
  <2> HIDE DEF rest
  <2> QED BY DEF Surjection
<1>5. IsFiniteSet(Rests)
  <2> HIDE DEF f, Rests
  <2> QED BY <1>3, <1>4, FS_Surjection
<1>6. IsFiniteSet(UNION Rests)
  <2>1. \A T \in Rests : IsFiniteSet(T)
    BY <1>2
  <2> HIDE DEF Rests
  <2> QED BY <1>5, <2>1, FS_UNION
<1>7. ASSUME NEW i \in DOMAIN lists, NEW k \in Int
      PROVE  <<i, k>> \in Unread(lists, c) <=> c[i] <= k /\ k <= Len(lists[i])
  BY <1>1 DEF Unread
<1>8. IsFiniteSet(Unread(lists, c))
  BY <1>6 DEF Unread
<1> QED BY <1>7, <1>8, FS_CardinalityType DEF Left

LEMMA ElementsAreIntervals ==
  ASSUME NEW lists \in Seq(Timeline), NEW i \in DOMAIN lists, NEW k \in Int, k >= 1, k <= Len(lists[i])
  PROVE  /\ lists[i][k].s \in Int /\ lists[i][k].e \in Int /\ k \in DOMAIN lists[i]
         /\ \A l \in DOMAIN lists[i] : l > k => lists[i][k].s <= lists[i][l].s
<1>1. lists[i] \in Timeline /\ lists[i] \in Seq(Interval)
  BY DEF Timeline
<1>2. k \in DOMAIN lists[i]
  BY <1>1
<1>3. lists[i][k] \in Interval
  BY <1>1, <1>2
<1> QED BY <1>1, <1>2, <1>3 DEF Interval, Timeline

\* One step of a scan.
LEMMA PastMovesOn ==
  ASSUME NEW lists \in Seq(Timeline), NEW x \in Walks(lists), NEW dur \in Int, NEW gap \in Int,
         ~Clears(lists, x, dur, gap)
  PROVE  LET h == EarliestHead(lists, x.cursors)  y == Past(lists, x, gap)  k == x.cursors[h]
         IN  /\ h \in DOMAIN lists /\ k \in DOMAIN lists[h] /\ y \in Walks(lists)
             /\ y.cursors = [x.cursors EXCEPT ![h] = @ + 1]
             /\ y.start >= x.start /\ lists[h][k].e + gap <= y.start
             /\ \A t \in Int : x.start <= t /\ t < y.start => ~Room(lists, t, dur, gap)
             /\ Left(lists, y.cursors) < Left(lists, x.cursors)
<1> DEFINE h == EarliestHead(lists, x.cursors)
           k == x.cursors[h]
           y == Past(lists, x, gap)
<1>1. x.cursors \in [DOMAIN lists -> Nat \ {0}] /\ x.start \in Int
  BY DEF Walks
<1>2. h \in DOMAIN lists /\ k <= Len(lists[h]) /\ k \in Nat /\ k # 0
  BY <1>1, HeadComesFirst DEF Clears
<1>3. PICK s, e : s = lists[h][k].s /\ e = lists[h][k].e
  OBVIOUS
<1>4. s \in Int /\ e \in Int /\ k \in DOMAIN lists[h]
  BY <1>2, <1>3, ElementsAreIntervals
<1>5. HeadOf(lists, x).s = s /\ HeadOf(lists, x).e = e
  BY <1>3 DEF HeadOf
<1>6. y.cursors = [x.cursors EXCEPT ![h] = @ + 1] /\ y.start = IF x.start >= e + gap THEN x.start ELSE e + gap
  BY <1>1, <1>4, <1>5, MaxOfTwo DEF Past
<1>7. y \in Walks(lists)
  <2>1. y = [cursors |-> y.cursors, start |-> y.start]
    BY DEF Past
  <2>2. y.cursors \in [DOMAIN lists -> Nat \ {0}] /\ y.start \in Int
    BY <1>1, <1>2, <1>4, <1>6
  <2> HIDE DEF y
  <2> QED BY <2>1, <2>2 DEF Walks
<1>8. ASSUME NEW t \in Int, x.start <= t, t < y.start PROVE ~Room(lists, t, dur, gap)
  <2>1. e + gap > x.start /\ t < e + gap
    BY <1>1, <1>4, <1>6, <1>8
  <2>2. s - gap < x.start + dur
    BY <1>1, <1>4, <1>5, <2>1 DEF Clears
  <2>3. ~(t + dur + gap <= s) /\ ~(t >= e + gap)
    BY <1>1, <1>4, <1>8, <2>1, <2>2
  <2> QED BY <1>2, <1>3, <1>4, <2>3 DEF Room
<1>9. Left(lists, y.cursors) < Left(lists, x.cursors)
  <2> DEFINE A == Unread(lists, x.cursors)
             B == Unread(lists, y.cursors)
  <2>1. y.cursors \in [DOMAIN lists -> Nat \ {0}]
    BY <1>7 DEF Walks
  <2>2. <<h, k>> \in A
    BY <1>1, <1>2, UnreadIs
  <2>3. <<h, k>> \notin B
    <3>1. y.cursors[h] = k + 1 /\ k \in Int
      BY <1>1, <1>2, <1>6
    <3>2. ~(y.cursors[h] <= k)
      BY <3>1
    <3> HIDE DEF h, k, y
    <3> QED BY <1>2, <2>1, <3>1, <3>2, UnreadIs
  <2>4. ASSUME NEW i \in DOMAIN lists, NEW l \in Int, <<i, l>> \in B PROVE <<i, l>> \in A
    <3>1. y.cursors[i] <= l /\ l <= Len(lists[i])
      BY <2>1, <2>4, UnreadIs
    <3>2. x.cursors[i] <= y.cursors[i] /\ x.cursors[i] \in Nat /\ y.cursors[i] \in Nat
      BY <1>1, <1>2, <1>6
    <3>3. x.cursors[i] <= l
      BY <3>1, <3>2
    <3> QED BY <1>1, <3>1, <3>3, UnreadIs
  <2>5. B \in SUBSET A
    <3> SUFFICES ASSUME NEW q \in B PROVE q \in A
      OBVIOUS
    <3>1. PICK i \in DOMAIN lists : q \in {i} \X (y.cursors[i] .. Len(lists[i]))
      BY DEF Unread
    <3>2. PICK l \in y.cursors[i] .. Len(lists[i]) : q = <<i, l>>
      BY <3>1
    <3> QED BY <2>4, <3>2
  <2>6. IsFiniteSet(A) /\ Cardinality(A) \in Nat /\ Cardinality(B) \in Nat
    BY <1>1, <2>1, UnreadIs DEF Left
  <2> HIDE DEF A, B
  <2>7. Cardinality(B) <= Cardinality(A) /\ Cardinality(B) # Cardinality(A)
    BY <2>2, <2>3, <2>5, <2>6, FS_Subset
  <2> QED BY <2>6, <2>7 DEF Left, A, B
<1> QED BY <1>1, <1>2, <1>3, <1>4, <1>6, <1>7, <1>8, <1>9

\* A scan is the recursive function it is written as.
LEMMA ScanSteps ==
  ASSUME NEW lists \in Seq(Timeline), NEW dur \in Int, NEW gap \in Int
  PROVE  \A x \in Walks(lists) :
           Scan(lists, x, dur, gap) = IF Clears(lists, x, dur, gap) THEN x
                                      ELSE Scan(lists, Past(lists, x, gap), dur, gap)
<1> DEFINE D == Walks(lists)
           Ends == {x \in D : Clears(lists, x, dur, gap)}
           next == [x \in D |-> Past(lists, x, gap)]
           out == [x \in D |-> x]
           IsScan(f) == f = [x \in D |-> IF Clears(lists, x, dur, gap) THEN x ELSE f[Past(lists, x, gap)]]
           scan == CHOOSE f : IsScan(f)
<1>1. \E f : Computes(f, D, Ends, next, out)
  <2>1. GoesBy(D, Ends, next, out)
    BY PastMovesOn DEF GoesBy
  <2> HIDE DEF D, Ends, next, out
  <2> QED BY <2>1, TailRecursion
<1>2. \E f : IsScan(f)
  <2>1. PICK f : /\ f = [x \in D |-> f[x]]
                 /\ \A x \in D : f[x] = IF x \in Ends THEN out[x] ELSE f[next[x]]
    BY <1>1 DEF Computes
  <2>2. \A x \in D : f[x] = (IF Clears(lists, x, dur, gap) THEN x ELSE f[Past(lists, x, gap)])
    BY <2>1
  <2> HIDE DEF D, Ends, next, out
  <2> QED BY <2>1, <2>2
<1>3. IsScan(scan)
  <2> HIDE DEF IsScan
  <2> QED BY <1>2
<1>4. \A x : Scan(lists, x, dur, gap) = scan[x]
  BY DEF Scan
<1> HIDE DEF scan
<1> QED BY <1>3, <1>4

\* What a scan from x comes to: past every conflict, by no more than it must.
ScannedTo(lists, x, y, dur, gap) ==
  /\ y \in Walks(lists) /\ Clears(lists, y, dur, gap) /\ y.start >= x.start
  /\ y = x \/ Left(lists, y.cursors) < Left(lists, x.cursors)
  /\ \A i \in DOMAIN lists : y.cursors[i] >= x.cursors[i]
  /\ \A i \in DOMAIN lists : \A k \in DOMAIN lists[i] :
       x.cursors[i] <= k /\ k < y.cursors[i] => lists[i][k].e + gap <= y.start
  /\ \A t \in Int : x.start <= t /\ t < y.start => ~Room(lists, t, dur, gap)

LEMMA ScansEnd ==
  ASSUME NEW lists \in Seq(Timeline), NEW dur \in Int, NEW gap \in Int
  PROVE  \A x \in Walks(lists) : ScannedTo(lists, x, Scan(lists, x, dur, gap), dur, gap)
<1> DEFINE Bad == {x \in Walks(lists) : ~ScannedTo(lists, x, Scan(lists, x, dur, gap), dur, gap)}
           m == [x \in Walks(lists) |-> Left(lists, x.cursors)]
<1> SUFFICES ASSUME Bad # {} PROVE FALSE
  OBVIOUS
<1>1. \A x \in Walks(lists) : m[x] \in Nat
  BY UnreadIs DEF Walks
<1>2. PICK x \in Bad : \A y \in Bad : m[x] <= m[y]
  <2> HIDE DEF m, Bad
  <2>1. \A y \in Bad : m[y] \in Nat
    BY <1>1 DEF Bad
  <2> QED BY <2>1, LeastMeasured
<1>3. x \in Walks(lists) /\ x.start \in Int /\ x.cursors \in [DOMAIN lists -> Nat \ {0}]
  BY DEF Walks
<1>4. CASE Clears(lists, x, dur, gap)
  <2>1. Scan(lists, x, dur, gap) = x
    BY <1>3, <1>4, ScanSteps
  <2>2. \A i \in DOMAIN lists : x.cursors[i] \in Int /\ \A k \in DOMAIN lists[i] : k \in Int
    BY <1>3 DEF Timeline
  <2>3. ScannedTo(lists, x, x, dur, gap)
    BY <1>3, <1>4, <2>2 DEF ScannedTo
  <2> QED BY <2>1, <2>3
<1>5. CASE ~Clears(lists, x, dur, gap)
  <2> DEFINE h == EarliestHead(lists, x.cursors)
  <2>1. PICK y, z : y = Past(lists, x, gap) /\ z = Scan(lists, y, dur, gap)
    OBVIOUS
  <2>2. /\ y \in Walks(lists) /\ y.cursors = [x.cursors EXCEPT ![h] = @ + 1] /\ h \in DOMAIN lists
        /\ y.start >= x.start /\ lists[h][x.cursors[h]].e + gap <= y.start
        /\ \A t \in Int : x.start <= t /\ t < y.start => ~Room(lists, t, dur, gap)
        /\ Left(lists, y.cursors) < Left(lists, x.cursors)
    BY <1>3, <1>5, <2>1, PastMovesOn
  <2>3. ScannedTo(lists, y, z, dur, gap)
    <3>1. ~(m[x] <= m[y])
      <4>1. m[x] = Left(lists, x.cursors) /\ m[y] = Left(lists, y.cursors)
        BY <1>3, <2>2
      <4>2. m[x] \in Nat /\ m[y] \in Nat
        BY <1>1, <1>3, <2>2
      <4> HIDE DEF m
      <4> QED BY <2>2, <4>1, <4>2
    <3>2. y \notin Bad
      BY <1>2, <3>1
    <3> QED BY <2>1, <2>2, <3>2
  <2>4. Scan(lists, x, dur, gap) = z
    BY <1>3, <1>5, <2>1, ScanSteps
  <2>5. /\ y.start \in Int /\ y.cursors \in [DOMAIN lists -> Nat \ {0}]
        /\ z.start \in Int /\ z.cursors \in [DOMAIN lists -> Nat \ {0}]
        /\ z \in Walks(lists) /\ Clears(lists, z, dur, gap)
    BY <2>2, <2>3 DEF ScannedTo, Walks
  <2>6. z.start >= x.start /\ y.start <= z.start
    BY <1>3, <2>2, <2>3, <2>5 DEF ScannedTo
  <2>7. Left(lists, z.cursors) < Left(lists, x.cursors)
    <3>1. Left(lists, z.cursors) \in Nat /\ Left(lists, y.cursors) \in Nat /\ Left(lists, x.cursors) \in Nat
      BY <1>3, <2>5, UnreadIs
    <3>2. z.cursors = y.cursors \/ Left(lists, z.cursors) < Left(lists, y.cursors)
      BY <2>3 DEF ScannedTo
    <3> QED BY <2>2, <3>1, <3>2
  <2>8. \A i \in DOMAIN lists : /\ x.cursors[i] \in Nat /\ y.cursors[i] \in Nat /\ z.cursors[i] \in Nat
                                /\ y.cursors[i] >= x.cursors[i] /\ z.cursors[i] >= y.cursors[i]
                                /\ y.cursors[i] > x.cursors[i] => i = h /\ y.cursors[i] = x.cursors[i] + 1
    BY <1>3, <2>2, <2>3, <2>5 DEF ScannedTo
  <2>9. ASSUME NEW i \in DOMAIN lists, NEW k \in DOMAIN lists[i], x.cursors[i] <= k, k < z.cursors[i]
        PROVE  lists[i][k].e + gap <= z.start
    <3>0. k \in Int /\ lists[i][k].e \in Int
      <4>1. lists[i] \in Seq(Interval)
        BY DEF Timeline
      <4>2. k \in Int /\ k >= 1 /\ k <= Len(lists[i])
        BY <4>1
      <4> QED BY <4>2, ElementsAreIntervals
    <3>1. CASE y.cursors[i] <= k
      BY <2>3, <2>9, <3>1 DEF ScannedTo
    <3>2. CASE k < y.cursors[i]
      <4>1. i = h /\ k = x.cursors[h]
        BY <2>8, <2>9, <3>0, <3>2
      <4>2. lists[i][k].e + gap <= y.start
        BY <2>2, <4>1
      <4> QED BY <2>5, <2>6, <3>0, <4>2
    <3> QED BY <2>8, <3>0, <3>1, <3>2
  <2>10. ASSUME NEW t \in Int, x.start <= t, t < z.start PROVE ~Room(lists, t, dur, gap)
    <3>1. CASE t < y.start
      BY <2>2, <2>10, <3>1
    <3>2. CASE ~(t < y.start)
      BY <2>3, <2>5, <2>10, <3>2 DEF ScannedTo
    <3> QED BY <3>1, <3>2
  <2>11. \A i \in DOMAIN lists : z.cursors[i] >= x.cursors[i]
    BY <2>8
  <2>12. ScannedTo(lists, x, z, dur, gap)
    BY <2>5, <2>6, <2>7, <2>9, <2>10, <2>11 DEF ScannedTo
  <2> QED BY <2>4, <2>12
<1> QED BY <1>4, <1>5

\* Remainders, for any divisor.
LEMMA Modulo ==
  ASSUME NEW x \in Int, NEW d \in Nat, d > 0
  PROVE  /\ x % d \in 0 .. d - 1
         /\ \A k \in Int : (x % d) + k \in 0 .. d - 1 => (x + k) % d = (x % d) + k
         /\ (x + d) % d = (x % d)
<1>1. x % d \in 0 .. d - 1
  OBVIOUS
<1>2. ASSUME NEW k \in Int, (x % d) + k \in 0 .. d - 1 PROVE (x + k) % d = (x % d) + k
  BY <1>2
<1>3. (x + d) % d = (x % d)
  <2>1. PICK q \in Int, r \in Int : q = x \div d /\ r = x % d
    OBVIOUS
  <2>2. x = (d * q) + r
    BY <2>1
  <2>3. d * (q + 1) = (d * q) + d
    OBVIOUS
  <2>4. x + d = (d * (q + 1)) + r
    BY <2>2, <2>3
  <2>5. PICK y \in Int, p \in Int : y = x + d /\ p = q + 1
    OBVIOUS
  <2>6. y = (d * p) + r
    BY <2>4, <2>5
  <2>7. r >= 0 /\ r < d
    BY <1>1, <2>1
  <2>8. y % d = r
    BY <2>6, <2>7
  <2> QED BY <2>1, <2>5, <2>8
<1> QED BY <1>1, <1>2, <1>3

LEMMA HoursOfADay ==
  ASSUME NEW t \in Int
  PROVE  /\ HourOf(t) \in 0 .. DayLength - 1
         /\ \A k \in Int : HourOf(t) + k \in 0 .. DayLength - 1 => HourOf(t + k) = HourOf(t) + k
         /\ HourOf(t + DayLength) = HourOf(t)
<1>1. DayLength \in Nat /\ DayLength > 0 /\ ZoneOffset \in Int
  BY KernelAssumption
<1>2. PICK x \in Int : x = t + ZoneOffset
  BY <1>1
<1>3. /\ x % DayLength \in 0 .. DayLength - 1
      /\ \A k \in Int : (x % DayLength) + k \in 0 .. DayLength - 1 => (x + k) % DayLength = (x % DayLength) + k
      /\ (x + DayLength) % DayLength = (x % DayLength)
  BY <1>1, Modulo
<1>4. \A k \in Int : t + k + ZoneOffset = x + k
  BY <1>1, <1>2
<1>5. /\ HourOf(t) = x % DayLength /\ HourOf(t + DayLength) = (x + DayLength) % DayLength
      /\ \A k \in Int : HourOf(t + k) = (x + k) % DayLength
  BY <1>1, <1>2, <1>4 DEF HourOf
<1> QED BY <1>3, <1>5

\* The next opening is the first instant from t on at which a print may start.
LEMMA NextOpening ==
  ASSUME NEW t \in Int, NEW w \in Hours
  PROVE  LET o == NextAllowedStart(t, w)
         IN  /\ o \in Int /\ o >= t /\ IsWithinWorkWindow(o, w)
             /\ \A u \in Int : t <= u /\ u < o => ~IsWithinWorkWindow(u, w)
<1> DEFINE o == NextAllowedStart(t, w)
<1>1. DayLength \in Nat /\ DayLength > 0
  BY KernelAssumption
<1>2. PICK D, H, a, b : D = DayLength /\ H = HourOf(t) /\ a = w.start /\ b = w.latest
  OBVIOUS
<1>3. D \in Nat /\ a \in 0 .. D - 1 /\ b \in 0 .. D - 1 /\ H \in 0 .. D - 1
  BY <1>1, <1>2, HoursOfADay DEF Hours
<1>4. \A k \in Int : H + k \in 0 .. D - 1 => HourOf(t + k) = H + k
  BY <1>2, HoursOfADay
<1>5. \A k \in Int : H + k \in D .. D + D - 1 => HourOf(t + k) = H + k - D
  <2>1. HourOf(t + D) = H /\ t + D \in Int
    BY <1>2, <1>3, HoursOfADay
  <2>2. SUFFICES ASSUME NEW k \in Int, H + k \in D .. D + D - 1 PROVE HourOf(t + k) = H + k - D
    OBVIOUS
  <2>3. PICK u \in Int, l \in Int : u = t + D /\ l = k - D
    BY <1>3
  <2>4. H + l \in 0 .. D - 1 /\ t + k = u + l /\ H + l = H + k - D
    BY <1>3, <2>2, <2>3
  <2>5. HourOf(u + l) = H + l
    BY <1>2, <2>1, <2>3, <2>4, HoursOfADay
  <2> QED BY <2>4, <2>5
<1>6. \A u : IsWithinWorkWindow(u, w) <=> \/ a = b
                                          \/ a < b /\ HourOf(u) >= a /\ HourOf(u) < b
                                          \/ a > b /\ (HourOf(u) >= a \/ HourOf(u) < b)
  BY <1>2 DEF IsWithinWorkWindow
<1>7. CASE IsWithinWorkWindow(t, w)
  <2>1. o = t
    BY <1>7 DEF NextAllowedStart
  <2> QED BY <1>7, <2>1
<1>8. CASE ~IsWithinWorkWindow(t, w) /\ a > H
  <2>1. o = t - H + a
    BY <1>2, <1>3, <1>8 DEF NextAllowedStart
  <2>2. PICK k \in Int : k = a - H /\ o = t + k
    BY <1>3, <2>1
  <2>3. HourOf(o) = a
    BY <1>3, <1>4, <2>2
  <2>4. ASSUME NEW u \in Int, t <= u, u < o PROVE ~IsWithinWorkWindow(u, w)
    <3>1. PICK l \in Int : l = u - t /\ u = t + l
      OBVIOUS
    <3>2. HourOf(u) = H + l /\ l >= 0 /\ H + l < a
      BY <1>3, <1>4, <2>2, <2>4, <3>1
    <3> QED BY <1>2, <1>3, <1>6, <1>8, <3>2
  <2> QED BY <1>3, <1>6, <1>8, <2>2, <2>3, <2>4
<1>9. CASE ~IsWithinWorkWindow(t, w) /\ ~(a > H)
  <2>1. o = t - H + a + D
    BY <1>2, <1>3, <1>9 DEF NextAllowedStart
  <2>2. PICK k \in Int : k = a - H + D /\ o = t + k
    BY <1>3, <2>1
  <2>3. a < b /\ H >= b
    BY <1>2, <1>3, <1>6, <1>9
  <2>4. HourOf(o) = a
    <3>1. H + k = a + D /\ H + k - D = a /\ H + k \in D .. D + D - 1
      BY <1>3, <2>2
    <3> QED BY <1>5, <2>2, <3>1
  <2>5. ASSUME NEW u \in Int, t <= u, u < o PROVE ~IsWithinWorkWindow(u, w)
    <3>1. PICK l \in Int : l = u - t /\ u = t + l
      OBVIOUS
    <3>2. l >= 0 /\ H + l < a + D
      BY <1>3, <2>2, <2>5, <3>1
    <3>3. CASE H + l < D
      <4>1. HourOf(u) = H + l
        BY <1>3, <1>4, <3>1, <3>2, <3>3
      <4> QED BY <1>3, <1>6, <2>3, <3>2, <4>1
    <3>4. CASE ~(H + l < D)
      <4>1. HourOf(u) = H + l - D
        BY <1>3, <1>5, <3>1, <3>2, <3>4
      <4> QED BY <1>3, <1>6, <2>3, <3>2, <4>1
    <3> QED BY <3>3, <3>4
  <2> QED BY <1>3, <1>6, <2>2, <2>3, <2>4, <2>5
<1> QED BY <1>7, <1>8, <1>9

\* What one pass of the fit does: it opens, then scans.
LEMMA Reopening ==
  ASSUME NEW lists \in Seq(Timeline), NEW dur \in Int, NEW gap \in Int, NEW w \in Hours,
         NEW x \in Walks(lists)
  PROVE  LET o == NextAllowedStart(x.start, w)  y == Reopened(lists, x, dur, gap, w)
         IN  /\ o \in Int /\ o >= x.start /\ y \in Walks(lists) /\ y.start >= o /\ y.start \in Int
             /\ \E x0 \in Walks(lists) : x0.cursors = x.cursors /\ x0.start = o /\ ScannedTo(lists, x0, y, dur, gap)
<1>1. x = [cursors |-> x.cursors, start |-> x.start] /\ x.start \in Int
      /\ x.cursors \in [DOMAIN lists -> Nat \ {0}]
  BY DEF Walks
<1>2. PICK o, x0 : o = NextAllowedStart(x.start, w) /\ x0 = [x EXCEPT !.start = o]
  OBVIOUS
<1>3. o \in Int /\ o >= x.start
  BY <1>1, <1>2, NextOpening
<1>4. x0 = [cursors |-> x.cursors, start |-> o]
  BY <1>1, <1>2
<1>5. x0 \in Walks(lists) /\ x0.cursors = x.cursors /\ x0.start = o
  BY <1>1, <1>3, <1>4 DEF Walks
<1>6. PICK y : y = Reopened(lists, x, dur, gap, w)
  OBVIOUS
<1>7. y = Scan(lists, x0, dur, gap)
  BY <1>2, <1>6 DEF Reopened
<1>8. ScannedTo(lists, x0, y, dur, gap)
  BY <1>5, <1>7, ScansEnd
<1>9. y \in Walks(lists) /\ y.start >= o /\ y.start \in Int
  BY <1>5, <1>8 DEF ScannedTo, Walks
<1> QED BY <1>2, <1>3, <1>5, <1>6, <1>8, <1>9

\* The fit is the recursive function it is written as.
LEMMA FitSettles ==
  ASSUME NEW lists \in Seq(Timeline), NEW dur \in Int, NEW gap \in Int, NEW w \in Hours
  PROVE  \E f : /\ \A x \in Walks(lists) :
                     f[x] = IF Reopened(lists, x, dur, gap, w).start = x.start THEN x.start
                            ELSE f[Reopened(lists, x, dur, gap, w)]
                /\ \A t : EarliestFitAcross(lists, dur, t, gap, w)
                            = f[[cursors |-> [i \in DOMAIN lists |-> 1], start |-> t]]
<1> DEFINE D == Walks(lists)
           next == [x \in D |-> Reopened(lists, x, dur, gap, w)]
           Ends == {x \in D : Reopened(lists, x, dur, gap, w).start = x.start}
           out == [x \in D |-> x.start]
           IsFit(f) == f = [x \in D |-> IF Reopened(lists, x, dur, gap, w).start = x.start THEN x.start
                                        ELSE f[Reopened(lists, x, dur, gap, w)]]
           settle == CHOOSE f : IsFit(f)
<1>1. \E f : Computes(f, D, Ends, next, out)
  <2>1. GoesBy(D, Ends, next, out)
    BY Reopening DEF GoesBy
  <2> HIDE DEF D, Ends, next, out
  <2> QED BY <2>1, TailRecursion
<1>2. \E f : IsFit(f)
  <2>1. PICK f : /\ f = [x \in D |-> f[x]]
                 /\ \A x \in D : f[x] = IF x \in Ends THEN out[x] ELSE f[next[x]]
    BY <1>1 DEF Computes
  <2>2. \A x \in D : f[x] = (IF Reopened(lists, x, dur, gap, w).start = x.start THEN x.start
                             ELSE f[Reopened(lists, x, dur, gap, w)])
    BY <2>1
  <2> HIDE DEF D, Ends, next, out
  <2> QED BY <2>1, <2>2
<1>3. IsFit(settle)
  <2> HIDE DEF IsFit
  <2> QED BY <1>2
<1>4. \A t : EarliestFitAcross(lists, dur, t, gap, w) = settle[[cursors |-> [i \in DOMAIN lists |-> 1], start |-> t]]
  BY DEF EarliestFitAcross
<1> HIDE DEF settle
<1> QED BY <1>3, <1>4

\* Everything a walk has read is behind its start.
ReadIsBehind(lists, x, gap) ==
  \A i \in DOMAIN lists : \A k \in DOMAIN lists[i] : k < x.cursors[i] => lists[i][k].e + gap <= x.start

\* r is the first instant from x on that suits.
FirstFrom(lists, x, r, dur, gap, w) ==
  /\ r \in Int /\ r >= x.start /\ Suits(lists, r, dur, gap, w)
  /\ \A t \in Int : x.start <= t /\ t < r => ~Suits(lists, t, dur, gap, w)

LEMMA FitIsFirst ==
  ASSUME NEW lists \in Seq(Timeline), NEW dur \in Int, NEW gap \in Int, NEW w \in Hours, NEW f,
         \A x \in Walks(lists) :
           f[x] = IF Reopened(lists, x, dur, gap, w).start = x.start THEN x.start
                  ELSE f[Reopened(lists, x, dur, gap, w)]
  PROVE  \A x \in Walks(lists) : ReadIsBehind(lists, x, gap) => FirstFrom(lists, x, f[x], dur, gap, w)
<1> DEFINE Bad == {x \in Walks(lists) : ReadIsBehind(lists, x, gap) /\ ~FirstFrom(lists, x, f[x], dur, gap, w)}
           m == [x \in Walks(lists) |-> 2 * Left(lists, x.cursors) + IF IsWithinWorkWindow(x.start, w) THEN 0 ELSE 1]
<1> SUFFICES ASSUME Bad # {} PROVE FALSE
  OBVIOUS
<1>1. \A x \in Walks(lists) : Left(lists, x.cursors) \in Nat /\ m[x] \in Nat
  BY UnreadIs DEF Walks
<1>2. PICK x \in Bad : \A y \in Bad : m[x] <= m[y]
  <2>1. \A y \in Bad : m[y] \in Nat
    BY <1>1
  <2> HIDE DEF m, Bad
  <2> QED BY <2>1, LeastMeasured
<1>3. x \in Walks(lists) /\ ReadIsBehind(lists, x, gap) /\ x.start \in Int
      /\ x.cursors \in [DOMAIN lists -> Nat \ {0}]
  BY DEF Walks
<1>4. PICK o, y : o = NextAllowedStart(x.start, w) /\ y = Reopened(lists, x, dur, gap, w)
  OBVIOUS
<1>5. o \in Int /\ o >= x.start /\ y \in Walks(lists) /\ y.start >= o /\ y.start \in Int
      /\ y.cursors \in [DOMAIN lists -> Nat \ {0}]
  BY <1>3, <1>4, Reopening DEF Walks
<1>6. PICK x0 \in Walks(lists) : x0.cursors = x.cursors /\ x0.start = o /\ ScannedTo(lists, x0, y, dur, gap)
  BY <1>3, <1>4, Reopening
<1>7. IsWithinWorkWindow(o, w) /\ \A u \in Int : x.start <= u /\ u < o => ~IsWithinWorkWindow(u, w)
  BY <1>3, <1>4, NextOpening
<1>8. \A i \in DOMAIN lists : \A k \in DOMAIN lists[i] :
        k \in Int /\ k >= 1 /\ k <= Len(lists[i]) /\ lists[i][k].s \in Int /\ lists[i][k].e \in Int
  <2> SUFFICES ASSUME NEW i \in DOMAIN lists, NEW k \in DOMAIN lists[i]
               PROVE  k \in Int /\ k >= 1 /\ k <= Len(lists[i]) /\ lists[i][k].s \in Int /\ lists[i][k].e \in Int
    OBVIOUS
  <2>1. lists[i] \in Seq(Interval)
    BY DEF Timeline
  <2>2. k \in Int /\ k >= 1 /\ k <= Len(lists[i])
    BY <2>1
  <2> QED BY <2>2, ElementsAreIntervals
<1>9. ReadIsBehind(lists, y, gap)
  <2> SUFFICES ASSUME NEW i \in DOMAIN lists, NEW k \in DOMAIN lists[i], k < y.cursors[i]
               PROVE  lists[i][k].e + gap <= y.start
    BY DEF ReadIsBehind
  <2>1. CASE k < x.cursors[i]
    <3>1. lists[i][k].e + gap <= x.start
      BY <1>3, <2>1 DEF ReadIsBehind
    <3> QED BY <1>3, <1>5, <1>8, <3>1
  <2>2. CASE ~(k < x.cursors[i])
    <3>1. x0.cursors[i] <= k
      BY <1>3, <1>6, <1>8, <2>2
    <3> QED BY <1>6, <3>1 DEF ScannedTo
  <2> QED BY <2>1, <2>2
<1>10. ASSUME NEW t \in Int, x.start <= t, t < y.start PROVE ~Suits(lists, t, dur, gap, w)
  BY <1>5, <1>6, <1>7, <1>10 DEF Suits, ScannedTo
<1>11. CASE y.start = x.start
  <2>1. f[x] = x.start
    BY <1>3, <1>4, <1>11
  <2>2. o = x.start /\ y.start = o
    BY <1>3, <1>5, <1>11
  <2>3. Room(lists, x.start, dur, gap)
    <3> SUFFICES ASSUME NEW i \in DOMAIN lists, NEW k \in DOMAIN lists[i]
                 PROVE  x.start + dur + gap <= lists[i][k].s \/ x.start >= lists[i][k].e + gap
      BY DEF Room
    <3>1. CASE k < y.cursors[i]
      BY <1>3, <1>8, <1>9, <1>11, <3>1 DEF ReadIsBehind
    <3>2. CASE ~(k < y.cursors[i])
      <4> DEFINE h == EarliestHead(lists, y.cursors)
      <4>0. y.cursors[i] \in Nat /\ y.cursors[i] <= k /\ y.cursors[i] # 0 /\ y.cursors[i] <= Len(lists[i])
            /\ Len(lists[i]) \in Nat
        BY <1>5, <1>8, <3>2 DEF Timeline
      <4>1. Clears(lists, y, dur, gap)
        BY <1>6 DEF ScannedTo
      <4>2. h # None
        BY <1>5, <4>0, HeadComesFirst
      <4>3. /\ h \in DOMAIN lists /\ y.cursors[h] <= Len(lists[h]) /\ y.cursors[h] \in Nat \ {0}
            /\ lists[h][y.cursors[h]].s <= lists[i][y.cursors[i]].s
        BY <1>5, <4>0, <4>2, HeadComesFirst
      <4>4. lists[h][y.cursors[h]].s \in Int /\ lists[h][y.cursors[h]].s - gap >= y.start + dur
        <5>1. lists[h][y.cursors[h]].s \in Int
          BY <4>3, ElementsAreIntervals
        <5>2. HeadOf(lists, y).s - gap >= y.start + dur
          BY <4>1, <4>2 DEF Clears
        <5>3. HeadOf(lists, y).s = lists[h][y.cursors[h]].s
          BY DEF HeadOf
        <5> QED BY <5>1, <5>2, <5>3
      <4>5. lists[i][y.cursors[i]].s <= lists[i][k].s /\ lists[i][y.cursors[i]].s \in Int
        <5>1. lists[i][y.cursors[i]].s \in Int
          BY <4>0, ElementsAreIntervals
        <5>2. CASE y.cursors[i] = k
          BY <5>1, <5>2
        <5>3. CASE y.cursors[i] # k
          BY <1>8, <4>0, <5>1, <5>3, ElementsAreIntervals
        <5> QED BY <5>1, <5>2, <5>3
      <4> HIDE DEF h
      <4>6. PICK u, v, z : u = lists[h][y.cursors[h]].s /\ v = lists[i][y.cursors[i]].s /\ z = lists[i][k].s
        OBVIOUS
      <4>7. u \in Int /\ v \in Int /\ z \in Int /\ u <= v /\ v <= z /\ u - gap >= x.start + dur
        BY <1>8, <1>11, <4>3, <4>4, <4>5, <4>6
      <4>8. x.start + dur + gap <= z
        BY <1>3, <4>7
      <4> QED BY <4>6, <4>8
    <3> QED BY <3>1, <3>2
  <2>4. FirstFrom(lists, x, x.start, dur, gap, w)
    BY <1>3, <1>7, <2>2, <2>3 DEF FirstFrom, Suits
  <2> QED BY <2>1, <2>4
<1>12. CASE y.start # x.start
  <2>1. f[x] = f[y]
    BY <1>3, <1>4, <1>12
  <2>2. m[y] < m[x]
    <3>1. PICK lx, ly : lx = Left(lists, x.cursors) /\ ly = Left(lists, y.cursors)
      OBVIOUS
    <3>2. lx \in Nat /\ ly \in Nat
      BY <1>1, <1>3, <1>5, <3>1
    <3>3. /\ m[x] = 2 * lx + (IF IsWithinWorkWindow(x.start, w) THEN 0 ELSE 1)
          /\ m[y] = 2 * ly + (IF IsWithinWorkWindow(y.start, w) THEN 0 ELSE 1)
      BY <1>3, <1>5, <3>1
    <3> HIDE DEF m
    <3>4. CASE y = x0
      <4>1. y.start = o /\ ly = lx
        BY <1>6, <3>1, <3>4
      <4>2. IsWithinWorkWindow(y.start, w) /\ ~IsWithinWorkWindow(x.start, w)
        BY <1>3, <1>5, <1>7, <1>12, <4>1
      <4> QED BY <3>2, <3>3, <4>1, <4>2
    <3>5. CASE ly < lx
      BY <3>2, <3>3, <3>5
    <3> QED BY <1>6, <3>1, <3>4, <3>5 DEF ScannedTo
  <2>3. FirstFrom(lists, y, f[y], dur, gap, w)
    <3>1. m[x] \in Nat /\ m[y] \in Nat
      BY <1>1, <1>3, <1>5
    <3>2. y \notin Bad
      <4> HIDE DEF m
      <4> QED BY <1>2, <2>2, <3>1
    <3> QED BY <1>5, <1>9, <3>2
  <2>4. FirstFrom(lists, x, f[y], dur, gap, w)
    <3>1. f[y] \in Int /\ f[y] >= y.start /\ Suits(lists, f[y], dur, gap, w)
      BY <2>3 DEF FirstFrom
    <3>2. ASSUME NEW t \in Int, x.start <= t, t < f[y] PROVE ~Suits(lists, t, dur, gap, w)
      <4>1. CASE t < y.start
        BY <1>10, <3>2, <4>1
      <4>2. CASE ~(t < y.start)
        BY <1>5, <2>3, <3>2, <4>2 DEF FirstFrom
      <4> QED BY <4>1, <4>2
    <3>3. f[y] >= x.start
      BY <1>3, <1>5, <3>1
    <3> QED BY <3>1, <3>2, <3>3 DEF FirstFrom
  <2> QED BY <2>1, <2>4
<1> QED BY <1>11, <1>12

(* The earliest fit, for any timelines in order, any length of print, any
   turnaround, and any opening hours: the instant it finds lies in hours and
   keeps the turnaround from every interval, and no earlier one does. *)
THEOREM EarliestFitIsTheEarliest ==
  ASSUME NEW lists \in Seq(Timeline), NEW dur \in Int, NEW notBefore \in Int, NEW gap \in Int, NEW w \in Hours
  PROVE  LET r == EarliestFitAcross(lists, dur, notBefore, gap, w)
         IN  /\ r \in Int /\ r >= notBefore /\ Suits(lists, r, dur, gap, w)
             /\ \A t \in Int : notBefore <= t /\ t < r => ~Suits(lists, t, dur, gap, w)
<1>1. PICK x : x = [cursors |-> [i \in DOMAIN lists |-> 1], start |-> notBefore]
  OBVIOUS
<1>2. x \in Walks(lists) /\ x.start = notBefore /\ x.cursors = [i \in DOMAIN lists |-> 1]
  BY <1>1 DEF Walks
<1>3. ReadIsBehind(lists, x, gap)
  <2> SUFFICES ASSUME NEW i \in DOMAIN lists, NEW k \in DOMAIN lists[i] PROVE ~(k < x.cursors[i])
    BY DEF ReadIsBehind
  <2>1. lists[i] \in Seq(Interval)
    BY DEF Timeline
  <2>2. k \in Int /\ k >= 1
    BY <2>1
  <2> QED BY <1>2, <2>2
<1>4. PICK f : /\ \A z \in Walks(lists) :
                    f[z] = IF Reopened(lists, z, dur, gap, w).start = z.start THEN z.start
                           ELSE f[Reopened(lists, z, dur, gap, w)]
               /\ EarliestFitAcross(lists, dur, notBefore, gap, w) = f[x]
  <2>1. PICK f : /\ \A z \in Walks(lists) :
                      f[z] = IF Reopened(lists, z, dur, gap, w).start = z.start THEN z.start
                             ELSE f[Reopened(lists, z, dur, gap, w)]
                 /\ \A t : EarliestFitAcross(lists, dur, t, gap, w)
                             = f[[cursors |-> [i \in DOMAIN lists |-> 1], start |-> t]]
    BY FitSettles
  <2>2. EarliestFitAcross(lists, dur, notBefore, gap, w) = f[x]
    BY <1>1, <2>1
  <2> QED BY <2>1, <2>2
<1>5. FirstFrom(lists, x, f[x], dur, gap, w)
  BY <1>2, <1>3, <1>4, FitIsFirst
<1> QED BY <1>2, <1>4, <1>5 DEF FirstFrom

-----------------------------------------------------------------------------
(* The packer: a list in order. *)

\* Before is a strict order on S.
IsStrict(Before, S) ==
  /\ \A x \in S : <<x, x>> \notin Before
  /\ \A x, y, z \in S : <<x, y>> \in Before /\ <<y, z>> \in Before => <<x, z>> \in Before

\* The sequence q lists the set T, nothing after what it comes before.
Lists(q, T, Before) ==
  /\ q \in [1 .. Cardinality(T) -> T]
  /\ \A h, k \in DOMAIN q : h < k => q[h] # q[k] /\ <<q[k], q[h]>> \notin Before

\* A finite set has a member that comes before no other.
LEMMA SomethingIsLast ==
  ASSUME NEW T, IsFiniteSet(T), T # {}, NEW Before, IsStrict(Before, T)
  PROVE  \E x \in T : \A y \in T : <<x, y>> \notin Before
<1> DEFINE Above(x) == {y \in T : <<x, y>> \in Before}
           count == [x \in T |-> Cardinality(Above(x))]
<1>1. \A x \in T : IsFiniteSet(Above(x)) /\ Cardinality(Above(x)) \in Nat
  BY FS_Subset, FS_CardinalityType
<1>2. PICK x \in T : \A y \in T : count[x] <= count[y]
  <2> HIDE DEF Above
  <2> QED BY <1>1, LeastMeasured
<1>3. ASSUME NEW y \in T, <<x, y>> \in Before PROVE FALSE
  <2>1. Above(y) \in SUBSET Above(x) /\ y \in Above(x) /\ y \notin Above(y)
    BY <1>3 DEF IsStrict
  <2>2. Cardinality(Above(y)) <= Cardinality(Above(x)) /\ Cardinality(Above(y)) # Cardinality(Above(x))
    <3> HIDE DEF Above
    <3> QED BY <1>1, <2>1, FS_Subset
  <2>3. count[x] <= count[y]
    BY <1>2
  <2> HIDE DEF Above
  <2> QED BY <1>1, <2>2, <2>3
<1> QED BY <1>3

\* A finite set can be listed in any strict order, and the list leaves nothing out.
LEMMA InOrderListsAll ==
  ASSUME NEW S, IsFiniteSet(S), NEW Before, IsStrict(Before, S)
  PROVE  /\ Lists(InOrder(S, Before), S, Before)
         /\ \A x \in S : \E i \in 1 .. Cardinality(S) : InOrder(S, Before)[i] = x
<1> DEFINE Bad == {T \in SUBSET S : ~ \E q : Lists(q, T, Before)}
           size == [T \in SUBSET S |-> Cardinality(T)]
<1>1. \A T \in SUBSET S : IsFiniteSet(T) /\ Cardinality(T) \in Nat
  BY FS_Subset, FS_CardinalityType
<1>2. Bad = {}
  <2> SUFFICES ASSUME Bad # {} PROVE FALSE
    OBVIOUS
  <2>1. PICK T \in Bad : \A U \in Bad : size[T] <= size[U]
    <3>1. \A x \in Bad : size[x] \in Nat
      BY <1>1
    <3> HIDE DEF Bad, size
    <3> QED BY <3>1, LeastMeasured
  <2>2. T \in SUBSET S /\ IsFiniteSet(T) /\ Cardinality(T) \in Nat /\ \A q : ~Lists(q, T, Before)
    BY <1>1
  <2>3. T # {}
    <3>1. ASSUME T = {} PROVE Lists(<<>>, T, Before)
      <4>1. Cardinality(T) = 0
        BY <3>1, FS_EmptySet
      <4> QED BY <3>1, <4>1 DEF Lists
    <3> QED BY <2>2, <3>1
  <2>4. PICK x \in T : \A y \in T : <<x, y>> \notin Before
    <3>1. IsStrict(Before, T)
      BY <2>2 DEF IsStrict
    <3> QED BY <2>2, <2>3, <3>1, SomethingIsLast
  <2>5. Cardinality(T \ {x}) = Cardinality(T) - 1
    BY <2>2, FS_RemoveElement
  <2>6. T \ {x} \in SUBSET S /\ T \ {x} \notin Bad
    <3>1. T \ {x} \in SUBSET S
      BY <2>2
    <3>2. size[T \ {x}] = size[T] - 1 /\ size[T] \in Nat
      BY <2>2, <2>5, <3>1
    <3>3. ~(size[T] <= size[T \ {x}])
      <4> HIDE DEF size
      <4> QED BY <3>2
    <3> QED BY <2>1, <3>1, <3>3
  <2>7. PICK q : Lists(q, T \ {x}, Before)
    BY <2>6
  <2> DEFINE n == Cardinality(T)
             l == [i \in 1 .. n |-> IF i < n THEN q[i] ELSE x]
  <2>8. n \in Nat /\ q \in [1 .. n - 1 -> T \ {x}]
    BY <2>2, <2>5, <2>7 DEF Lists
  <2>9. \A h, k \in 1 .. n - 1 : h < k => q[h] # q[k] /\ <<q[k], q[h]>> \notin Before
    BY <2>7, <2>8 DEF Lists
  <2>10. Lists(l, T, Before)
    <3> HIDE DEF n
    <3>1. l \in [1 .. n -> T]
      BY <2>8
    <3>2. ASSUME NEW h \in 1 .. n, NEW k \in 1 .. n, h < k PROVE l[h] # l[k] /\ <<l[k], l[h]>> \notin Before
      BY <2>4, <2>8, <2>9, <3>2
    <3> QED BY <3>1, <3>2 DEF Lists, n
  <2> QED BY <2>2, <2>10
<1>3. PICK q : Lists(q, S, Before)
  BY <1>2
<1>4. Lists(InOrder(S, Before), S, Before)
  BY <1>3 DEF InOrder, Lists
<1>5. PICK q0 : q0 = InOrder(S, Before)
  OBVIOUS
<1>6. Cardinality(S) \in Nat
  BY <1>1
<1>7. q0 \in Surjection(1 .. Cardinality(S), S)
  <2>1. q0 \in Injection(1 .. Cardinality(S), S)
    <3>1. q0 \in [1 .. Cardinality(S) -> S] /\ \A h, k \in 1 .. Cardinality(S) : h < k => q0[h] # q0[k]
      BY <1>4, <1>5 DEF Lists
    <3>2. \A h, k \in 1 .. Cardinality(S) : h < k \/ k < h \/ h = k
      BY <1>6
    <3> QED BY <3>1, <3>2 DEF Injection, IsInjective
  <2>2. Cardinality(1 .. Cardinality(S)) = Cardinality(S)
    BY <1>6, FS_Interval
  <2> QED BY <2>1, <2>2, FS_Injection
<1> QED BY <1>4, <1>5, <1>7 DEF Surjection

\* Keys of one length order whatever has them.
LEMMA KeysAreStrict ==
  ASSUME NEW S, NEW n \in Nat, NEW key, \A x \in S : key[x] \in [1 .. n -> Int]
  PROVE  /\ IsStrict({x \in S \X S : Precedes(key[x[1]], key[x[2]])}, S)
         /\ IsStrict({x \in S \X S : Precedes(key[x[2]], key[x[1]])}, S)
<1>1. ASSUME NEW a \in [1 .. n -> Int] PROVE ~Precedes(a, a)
  BY <1>1 DEF Precedes
<1>2. ASSUME NEW a \in [1 .. n -> Int], NEW b \in [1 .. n -> Int], NEW c \in [1 .. n -> Int],
             Precedes(a, b), Precedes(b, c)
      PROVE  Precedes(a, c)
  <2>1. PICK i \in 1 .. n : a[i] < b[i] /\ \A h \in 1 .. i - 1 : a[h] = b[h]
    BY <1>2 DEF Precedes
  <2>2. PICK k \in 1 .. n : b[k] < c[k] /\ \A h \in 1 .. k - 1 : b[h] = c[h]
    BY <1>2 DEF Precedes
  <2>3. i \in Int /\ k \in Int
    OBVIOUS
  <2>4. CASE i < k
    <3>1. a[i] < c[i] /\ \A h \in 1 .. i - 1 : a[h] = c[h]
      BY <2>1, <2>2, <2>3, <2>4
    <3> QED BY <3>1 DEF Precedes
  <2>5. CASE k < i
    <3>1. a[k] < c[k] /\ \A h \in 1 .. k - 1 : a[h] = c[h]
      BY <2>1, <2>2, <2>3, <2>5
    <3> QED BY <3>1 DEF Precedes
  <2>6. CASE k = i
    <3>1. a[k] < c[k] /\ \A h \in 1 .. k - 1 : a[h] = c[h]
      BY <2>1, <2>2, <2>3, <2>6
    <3> QED BY <3>1 DEF Precedes
  <2> QED BY <2>3, <2>4, <2>5, <2>6
<1> DEFINE P(x, y) == Precedes(key[x], key[y])
<1>3. /\ \A x \in S : ~P(x, x)
      /\ \A x, y, z \in S : P(x, y) /\ P(y, z) => P(x, z)
  BY <1>1, <1>2
<1> HIDE DEF P
<1>4. IsStrict({x \in S \X S : P(x[1], x[2])}, S) /\ IsStrict({x \in S \X S : P(x[2], x[1])}, S)
  BY <1>3 DEF IsStrict
<1> QED BY <1>4 DEF P

\* Of finitely many keys one is the least.
LEMMA LeastOfKeys ==
  ASSUME NEW S, IsFiniteSet(S), S # {}, NEW n \in Nat, NEW key, \A x \in S : key[x] \in [1 .. n -> Int]
  PROVE  \E x \in S : \A y \in S : ~Precedes(key[y], key[x])
<1>1. PICK Before : Before = {x \in S \X S : Precedes(key[x[2]], key[x[1]])}
  OBVIOUS
<1>2. IsStrict(Before, S)
  BY <1>1, KeysAreStrict
<1>3. PICK x \in S : \A y \in S : <<x, y>> \notin Before
  BY <1>2, SomethingIsLast
<1> QED BY <1>1, <1>3

\* What was seen of some jobs is a timeline.
LEMMA SeenInOrder ==
  ASSUME NEW seen, NEW js, IsFiniteSet(js), \A j \in js : seen[j].s \in Int /\ seen[j].e \in Int
  PROVE  SeenWindows(seen, js) \in Timeline
<1> DEFINE Before == {x \in js \X js : seen[x[1]].s < seen[x[2]].s}
           q == InOrder(js, Before)
<1>1. IsStrict(Before, js)
  BY DEF IsStrict
<1>2. Lists(q, js, Before)
  <2> HIDE DEF Before
  <2> QED BY <1>1, InOrderListsAll
<1>3. PICK n \in Nat : n = Cardinality(js)
  BY FS_CardinalityType
<1>4. q \in [1 .. n -> js] /\ \A h, k \in 1 .. n : h < k => <<q[k], q[h]>> \notin Before
  BY <1>2, <1>3 DEF Lists
<1> DEFINE l == [i \in DOMAIN q |-> [s |-> seen[q[i]].s, e |-> seen[q[i]].e]]
<1>5. \A h, k \in 1 .. n : h < k => seen[q[h]].s <= seen[q[k]].s
  <2> SUFFICES ASSUME NEW h \in 1 .. n, NEW k \in 1 .. n, h < k PROVE seen[q[h]].s <= seen[q[k]].s
    OBVIOUS
  <2> HIDE DEF q
  <2>1. q[h] \in js /\ q[k] \in js /\ ~(seen[q[k]].s < seen[q[h]].s)
    BY <1>4
  <2> QED BY <2>1
<1>6. l \in Seq(Interval)
  <2> HIDE DEF q
  <2> QED BY <1>4 DEF Interval
<1>7. DOMAIN l = 1 .. n /\ \A i \in 1 .. n : l[i].s = seen[q[i]].s
  <2> HIDE DEF q
  <2> QED BY <1>4
<1>8. l \in Timeline
  <2> HIDE DEF l, q
  <2> QED BY <1>5, <1>6, <1>7 DEF Timeline
<1> QED BY <1>8 DEF SeenWindows

\* Pushing an interval onto a timeline.
LEMMA PushingKeepsOrder ==
  ASSUME NEW list \in Timeline, NEW iv \in Interval
  PROVE  /\ PushInterval(list, iv) \in Timeline
         /\ ToSet(PushInterval(list, iv)) = ToSet(list) \cup {iv}
<1> DEFINE D == {i \in DOMAIN list : list[i].s <= iv.s}
<1>1. PICK n \in Nat : n = Len(list) /\ DOMAIN list = 1 .. n /\ \A i \in 1 .. n : list[i] \in Interval
  BY DEF Timeline
<1>2. \A i, k \in 1 .. n : i < k => list[i].s <= list[k].s
  BY <1>1 DEF Timeline
<1>3. PICK m \in 1 .. n + 1 : m \notin D /\ \A i \in 1 .. n + 1 : i \notin D => m <= i
  <2> DEFINE R == {i \in 1 .. n + 1 : i \notin D}
  <2>1. R \subseteq Nat /\ R # {}
    BY <1>1
  <2>2. PICK m \in R : \A i \in R : m <= i
    <3> HIDE DEF R
    <3> QED BY <2>1, LeastNatural
  <2> QED BY <2>2
<1>4. PICK k \in 0 .. n : k = m - 1
  BY <1>3
<1>5. D = 1 .. k
  <2>1. ASSUME NEW i \in D PROVE i \in 1 .. k
    <3>1. i \in 1 .. n /\ list[i].s <= iv.s
      BY <1>1
    <3>2. CASE m <= i
      <4>1. m \in 1 .. n /\ list[m].s <= list[i].s
        BY <1>1, <1>2, <3>1, <3>2 DEF Interval
      <4>2. list[m].s <= iv.s
        BY <1>1, <3>1, <4>1 DEF Interval
      <4> QED BY <1>1, <1>3, <4>1, <4>2
    <3> QED BY <1>4, <3>1, <3>2
  <2>2. ASSUME NEW i \in 1 .. k PROVE i \in D
    <3>1. i \in 1 .. n + 1 /\ ~(m <= i)
      BY <1>4
    <3> QED BY <1>3, <3>1
  <2> HIDE DEF D
  <2> QED BY <2>1, <2>2
<1>6. Cardinality(D) = k
  <2>1. Cardinality(1 .. k) = IF 1 > k THEN 0 ELSE k - 1 + 1
    BY 1 \in Int, k \in Int, FS_Interval
  <2>2. Cardinality(1 .. k) = k
    BY <2>1
  <2> HIDE DEF D
  <2> QED BY <1>5, <2>2
<1>7. PushInterval(list, iv) = SubSeq(list, 1, k) \o <<iv>> \o SubSeq(list, k + 1, n)
  <2>1. PICK i : i = 1 + k
    OBVIOUS
  <2>2. i - 1 = k /\ i = k + 1
    BY <2>1
  <2> HIDE DEF D
  <2>3. PushInterval(list, iv) = InsertAt(list, i, iv)
    BY <1>6, <2>1 DEF PushInterval, D
  <2>4. InsertAt(list, i, iv) = SubSeq(list, 1, i - 1) \o <<iv>> \o SubSeq(list, i, Len(list))
    BY DEF InsertAt
  <2> QED BY <1>1, <2>2, <2>3, <2>4
<1>8. PICK l : l = SubSeq(list, 1, k) \o <<iv>> \o SubSeq(list, k + 1, n)
  OBVIOUS
<1>9. /\ l \in Seq(Interval) /\ Len(l) = n + 1 /\ DOMAIN l = 1 .. n + 1
      /\ \A i \in 1 .. n + 1 : l[i] = IF i <= k THEN list[i] ELSE IF i = k + 1 THEN iv ELSE list[i - 1]
  <2>1. list \in Seq(Interval)
    BY DEF Timeline
  <2> DEFINE a == SubSeq(list, 1, k)
             c == SubSeq(list, k + 1, n)
  <2>2. a \in Seq(Interval) /\ Len(a) = k /\ \A i \in 1 .. k : a[i] = list[i]
    BY <1>1, <2>1
  <2>3. c \in Seq(Interval) /\ Len(c) = n - k /\ \A i \in 1 .. n - k : c[i] = list[k + i]
    BY <1>1, <2>1
  <2> HIDE DEF a, c
  <2>4. l = a \o <<iv>> \o c
    BY <1>8 DEF a, c
  <2>5. <<iv>> \in Seq(Interval) /\ Len(<<iv>>) = 1 /\ <<iv>>[1] = iv
    OBVIOUS
  <2>6. PICK b : b = a \o <<iv>>
    OBVIOUS
  <2>7. b \in Seq(Interval) /\ Len(b) = k + 1 /\ \A i \in 1 .. k + 1 : b[i] = IF i <= k THEN list[i] ELSE iv
    BY <2>2, <2>5, <2>6
  <2>8. l \in Seq(Interval) /\ Len(l) = n + 1 /\ \A i \in 1 .. n + 1 : l[i] = IF i <= k + 1 THEN b[i] ELSE c[i - (k + 1)]
    <3>1. l = b \o c
      BY <2>4, <2>6
    <3>2. /\ l \in Seq(Interval) /\ Len(l) = Len(b) + Len(c)
          /\ \A i \in 1 .. Len(b) + Len(c) : l[i] = IF i <= Len(b) THEN b[i] ELSE c[i - Len(b)]
      BY <2>3, <2>7, <3>1, ConcatProperties
    <3>3. Len(b) + Len(c) = n + 1 /\ Len(b) = k + 1
      BY <2>3, <2>7
    <3> QED BY <3>2, <3>3
  <2>9. \A i \in 1 .. n + 1 : i > k + 1 => i - (k + 1) \in 1 .. n - k /\ k + (i - (k + 1)) = i - 1
    OBVIOUS
  <2>10. DOMAIN l = 1 .. n + 1
    BY <2>8
  <2>11. ASSUME NEW i \in 1 .. n + 1
         PROVE  l[i] = IF i <= k THEN list[i] ELSE IF i = k + 1 THEN iv ELSE list[i - 1]
    <3>1. CASE i <= k + 1
      <4>1. i \in 1 .. k + 1 /\ l[i] = b[i]
        BY <2>8, <3>1
      <4> QED BY <2>7, <4>1
    <3>2. CASE i > k + 1
      <4>1. l[i] = c[i - (k + 1)] /\ i - (k + 1) \in 1 .. n - k /\ k + (i - (k + 1)) = i - 1
        BY <2>8, <2>9, <3>2
      <4>2. l[i] = list[i - 1]
        BY <2>3, <4>1
      <4> QED BY <3>2, <4>2
    <3> QED BY <3>1, <3>2
  <2> QED BY <2>8, <2>10, <2>11
<1>10. \A i \in 1 .. n : (i <= k => list[i].s <= iv.s) /\ (i > k => list[i].s > iv.s)
  <2> SUFFICES ASSUME NEW i \in 1 .. n PROVE (i <= k => list[i].s <= iv.s) /\ (i > k => list[i].s > iv.s)
    OBVIOUS
  <2>1. i <= k <=> i \in D
    BY <1>5
  <2> QED BY <1>1, <2>1 DEF Interval
<1>11. ASSUME NEW h \in 1 .. n + 1, NEW i \in 1 .. n + 1, h < i PROVE l[h].s <= l[i].s
  <2>1. \A x \in 1 .. n : list[x].s \in Int
    BY <1>1 DEF Interval
  <2>2. iv.s \in Int
    BY DEF Interval
  <2>3. CASE i <= k
    BY <1>2, <1>9, <1>11, <2>3
  <2>4. CASE i = k + 1
    BY <1>9, <1>10, <1>11, <2>4
  <2>5. CASE i > k + 1
    <3>1. l[i] = list[i - 1] /\ i - 1 \in 1 .. n /\ i - 1 > k
      BY <1>9, <2>5
    <3>2. CASE h <= k
      BY <1>2, <1>9, <1>11, <3>1, <3>2
    <3>3. CASE h = k + 1
      BY <1>9, <1>10, <2>1, <2>2, <3>1, <3>3
    <3>4. CASE h > k + 1
      BY <1>2, <1>9, <1>11, <3>1, <3>4
    <3> QED BY <3>2, <3>3, <3>4
  <2> QED BY <2>3, <2>4, <2>5
<1>12. l \in Timeline
  BY <1>9, <1>11 DEF Timeline
<1>13. {l[i] : i \in 1 .. n + 1} = {list[i] : i \in 1 .. n} \cup {iv}
  <2>1. ASSUME NEW i \in 1 .. n + 1 PROVE l[i] \in {list[x] : x \in 1 .. n} \cup {iv}
    BY <1>9
  <2>2. ASSUME NEW i \in 1 .. n PROVE \E x \in 1 .. n + 1 : l[x] = list[i]
    <3>1. CASE i <= k
      BY <1>9, <3>1
    <3>2. CASE i > k
      <4>1. i + 1 \in 1 .. n + 1 /\ l[i + 1] = list[i]
        BY <1>9, <3>2
      <4> QED BY <4>1
    <3> QED BY <3>1, <3>2
  <2>3. l[k + 1] = iv
    BY <1>9
  <2> QED BY <2>1, <2>2, <2>3
<1>14. ToSet(l) = {l[i] : i \in 1 .. n + 1} /\ ToSet(list) = {list[i] : i \in 1 .. n}
  BY <1>1, <1>9 DEF ToSet
<1> QED BY <1>7, <1>8, <1>12, <1>13, <1>14

-----------------------------------------------------------------------------
(* What a pack knows, and what it makes of it. *)

\* A pack past its start has the fields of one.
IsPack(p) ==
  p = [at |-> p.at, plan |-> p.plan, items |-> p.items, from |-> p.from, seen |-> p.seen,
       cand |-> p.cand, queue |-> p.queue, printerBusy |-> p.printerBusy,
       nozzleBusy |-> p.nozzleBusy, materialBusy |-> p.materialBusy, pinned |-> p.pinned,
       mine |-> p.mine, auto |-> p.auto, pick |-> p.pick, placed |-> p.placed,
       skipped |-> p.skipped]

Nozzle0 == Nozzles \cup {None}
Printer0 == Printers \cup {None}

Placement == [job : Jobs, start : Int, nozzle : Nozzle0, printer : Printer0, mats : SUBSET Materials]

\* The window of a placement is on every timeline it was placed against.
OnItsTimelines(p, x) ==
  LET iv == [s |-> x.start, e |-> x.start + Fact(x.job).len]
  IN  /\ x.printer \in Printers => iv \in ToSet(p.printerBusy[x.printer])
      /\ x.nozzle \in Nozzles => iv \in ToSet(p.nozzleBusy[x.nozzle])
      /\ \A m \in x.mats : iv \in ToSet(p.materialBusy[m])

\* The timelines a pack keeps, and what it has placed on them.
KeepsTimelines(p) ==
  /\ p.plan \in Plans /\ p.from \in Int
  /\ p.printerBusy \in [Printers -> Timeline]
  /\ p.nozzleBusy \in [Nozzles -> Timeline]
  /\ p.materialBusy \in [Materials -> Timeline]
  /\ p.placed \in Seq(Placement) /\ \A i \in DOMAIN p.placed : OnItsTimelines(p, p.placed[i])
  /\ p.mine \in SUBSET Materials

\* The timelines a job must clear, each once at least.
LEMMA ListsAre ==
  ASSUME NEW p, NEW j, NEW n, KeepsTimelines(p), p.cand[j].row.printer \in Printers, n \in Nozzle0
  PROVE  /\ ListsOf(p, j, n) \in Seq(Timeline)
         /\ ToSet(ListsOf(p, j, n)) = {p.printerBusy[p.cand[j].row.printer]}
                                        \cup (IF n = None THEN {} ELSE {p.nozzleBusy[n]})
                                        \cup {p.materialBusy[m] : m \in p.mine}
<1>1. PICK mats : mats = InOrder(p.mine, {})
  OBVIOUS
<1>2. PICK k \in Nat : k = Cardinality(p.mine) /\ IsFiniteSet(p.mine)
  <2>1. IsFiniteSet(Materials) /\ p.mine \in SUBSET Materials
    BY PackerAssumption DEF KeepsTimelines
  <2>2. IsFiniteSet(p.mine)
    BY <2>1, FS_Subset
  <2> QED BY <2>2, FS_CardinalityType
<1>3. mats \in [1 .. k -> p.mine] /\ \A m \in p.mine : \E i \in 1 .. k : mats[i] = m
  <2>1. IsStrict({}, p.mine)
    BY DEF IsStrict
  <2>2. /\ Lists(mats, p.mine, {})
        /\ \A x \in p.mine : \E i \in 1 .. Cardinality(p.mine) : mats[i] = x
    BY <1>1, <1>2, <2>1, InOrderListsAll
  <2> QED BY <1>2, <2>2 DEF Lists
<1>4. PICK a, b, c : /\ a = <<p.printerBusy[p.cand[j].row.printer]>>
                     /\ b = (IF n = None THEN <<>> ELSE <<p.nozzleBusy[n]>>)
                     /\ c = [i \in DOMAIN mats |-> p.materialBusy[mats[i]]]
  OBVIOUS
<1>5. ListsOf(p, j, n) = a \o b \o c
  BY <1>1, <1>4 DEF ListsOf
<1>6. a \in Seq(Timeline) /\ Len(a) = 1 /\ a[1] = p.printerBusy[p.cand[j].row.printer]
  BY <1>4 DEF KeepsTimelines
<1>7. /\ b \in Seq(Timeline)
      /\ n = None => Len(b) = 0
      /\ n # None => Len(b) = 1 /\ b[1] = p.nozzleBusy[n]
  BY <1>4 DEF KeepsTimelines, Nozzle0
<1>8. c \in Seq(Timeline) /\ Len(c) = k /\ \A i \in 1 .. k : c[i] = p.materialBusy[mats[i]]
  <2>1. p.mine \subseteq Materials /\ \A m \in Materials : p.materialBusy[m] \in Timeline
    BY DEF KeepsTimelines
  <2> QED BY <1>3, <1>4, <2>1
<1>9. \A s, t \in Seq(Timeline) : s \o t \in Seq(Timeline) /\ ToSet(s \o t) = ToSet(s) \cup ToSet(t)
  <2> SUFFICES ASSUME NEW s \in Seq(Timeline), NEW t \in Seq(Timeline)
               PROVE  s \o t \in Seq(Timeline) /\ ToSet(s \o t) = ToSet(s) \cup ToSet(t)
    OBVIOUS
  <2>1. Range(s \o t) = Range(s) \cup Range(t) /\ s \o t \in Seq(Timeline)
    BY RangeConcatenation, ConcatProperties
  <2>2. \A q : Range(q) = ToSet(q)
    BY DEF Range, ToSet
  <2> QED BY <2>1, <2>2
<1>10. ToSet(a) = {p.printerBusy[p.cand[j].row.printer]}
  BY <1>6 DEF ToSet
<1>11. ToSet(b) = IF n = None THEN {} ELSE {p.nozzleBusy[n]}
  BY <1>7 DEF ToSet
<1>12. ToSet(c) = {p.materialBusy[m] : m \in p.mine}
  <2>1. ToSet(c) = {c[i] : i \in 1 .. k}
    BY <1>8 DEF ToSet
  <2> QED BY <1>3, <1>8, <2>1
<1>13. PICK ab : ab = a \o b
  OBVIOUS
<1>14. ab \in Seq(Timeline) /\ ToSet(ab) = ToSet(a) \cup ToSet(b)
  BY <1>6, <1>7, <1>9, <1>13
<1>15. ab \o c \in Seq(Timeline) /\ ToSet(ab \o c) = ToSet(ab) \cup ToSet(c)
  BY <1>8, <1>9, <1>14
<1>16. ListsOf(p, j, n) = ab \o c
  BY <1>5, <1>13
<1> QED BY <1>10, <1>11, <1>12, <1>14, <1>15, <1>16

\* To keep clear of what a plan knows is to have room on its timelines.
LEMMA ClearIsSuited ==
  ASSUME NEW p, NEW j, NEW n, NEW t, KeepsTimelines(p), p.cand[j].row.printer \in Printers, n \in Nozzle0
  PROVE  ClearAt(p, j, n, t) <=> Suits(ListsOf(p, j, n), t, Fact(j).len, p.plan.gap, p.plan.hours)
<1> DEFINE lists == ListsOf(p, j, n)
<1>1. lists = ListsOf(p, j, n)
  OBVIOUS
<1>2. /\ lists \in Seq(Timeline)
      /\ ToSet(lists) = {p.printerBusy[p.cand[j].row.printer]}
                          \cup (IF n = None THEN {} ELSE {p.nozzleBusy[n]})
                          \cup {p.materialBusy[m] : m \in p.mine}
  BY <1>1, ListsAre
<1> DEFINE Read == UNION {ToSet(lists[i]) : i \in DOMAIN lists}
           Own == {[s |-> x.start, e |-> x.start + Fact(x.job).len] :
                     x \in {y \in ToSet(p.placed) : \/ y.printer = p.cand[j].row.printer
                                                    \/ y.nozzle = n /\ n # None
                                                    \/ y.mats \cap p.mine # {}}}
           Keeps(b) == t + Fact(j).len + p.plan.gap <= b.s \/ t >= b.e + p.plan.gap
<1>3. BlocksFor(p, j, n) = Read \cup Own
  BY DEF BlocksFor
<1> HIDE DEF lists
<1>4. Own \subseteq Read
  <2> SUFFICES ASSUME NEW x \in ToSet(p.placed),
                      \/ x.printer = p.cand[j].row.printer
                      \/ x.nozzle = n /\ n # None
                      \/ x.mats \cap p.mine # {}
               PROVE  [s |-> x.start, e |-> x.start + Fact(x.job).len] \in Read
    OBVIOUS
  <2>1. OnItsTimelines(p, x) /\ x \in Placement
    BY DEF KeepsTimelines, ToSet
  <2>2. PICK iv : iv = [s |-> x.start, e |-> x.start + Fact(x.job).len]
    OBVIOUS
  <2>3. \E l \in ToSet(lists) : iv \in ToSet(l)
    <3>1. CASE x.printer = p.cand[j].row.printer
      BY <1>2, <2>1, <2>2, <3>1 DEF OnItsTimelines
    <3>2. CASE x.nozzle = n /\ n # None
      BY <1>2, <2>1, <2>2, <3>2 DEF OnItsTimelines, Nozzle0
    <3>3. CASE x.mats \cap p.mine # {}
      <4>1. PICK m : m \in x.mats /\ m \in p.mine
        BY <3>3
      <4> QED BY <1>2, <2>1, <2>2, <4>1 DEF OnItsTimelines
    <3> QED BY <3>1, <3>2, <3>3
  <2> QED BY <2>2, <2>3 DEF ToSet
<1>5. Room(lists, t, Fact(j).len, p.plan.gap) <=> \A b \in Read : Keeps(b)
  BY DEF Room, ToSet
<1>6. ClearAt(p, j, n, t) <=> IsWithinWorkWindow(t, p.plan.hours) /\ \A b \in Read : Keeps(b)
  <2>1. BlocksFor(p, j, n) = Read
    BY <1>3, <1>4
  <2> HIDE DEF Read
  <2> QED BY <2>1 DEF ClearAt
<1> HIDE DEF Read
<1> QED BY <1>1, <1>5, <1>6 DEF Suits

\* The start the packer computes for a nozzle is the earliest that keeps clear.
LEMMA EarliestOnIsEarliest ==
  ASSUME NEW p, NEW j \in Jobs, NEW n, floor \in Floors, KeepsTimelines(p), p.cand[j].row.printer \in Printers, n \in Nozzle0
  PROVE  /\ EarliestOn(p, j, n) \in Int /\ ClearAt(p, j, n, EarliestOn(p, j, n))
         /\ \A t \in p.from + Lead .. EarliestOn(p, j, n) - 1 : ~ClearAt(p, j, n, t)
<1>1. PICK lists, start, len : lists = ListsOf(p, j, n) /\ start = p.from + Lead /\ len = Fact(j).len
  OBVIOUS
<1>2. lists \in Seq(Timeline) /\ start \in Int /\ len \in Int /\ p.plan.gap \in Int /\ p.plan.hours \in Hours
  <2>1. Fact(j) \in JobFacts
    BY PackerAssumption DEF Fact
  <2>2. lists \in Seq(Timeline)
    BY <1>1, ListsAre
  <2>3. Lead \in Nat /\ p.from \in Int /\ p.plan \in Plans
    BY PackerAssumption DEF KeepsTimelines
  <2> QED BY <1>1, <2>1, <2>2, <2>3 DEF Plans, JobFacts
<1>3. PICK r : r = EarliestFitAcross(lists, len, start, p.plan.gap, p.plan.hours)
  OBVIOUS
<1>4. /\ r \in Int /\ Suits(lists, r, len, p.plan.gap, p.plan.hours)
      /\ \A t \in Int : start <= t /\ t < r => ~Suits(lists, t, len, p.plan.gap, p.plan.hours)
  BY <1>2, <1>3, EarliestFitIsTheEarliest
<1>5. EarliestOn(p, j, n) = r
  BY <1>1, <1>3 DEF EarliestOn
<1>6. \A t : ClearAt(p, j, n, t) <=> Suits(lists, t, len, p.plan.gap, p.plan.hours)
  BY <1>1, ClearIsSuited
<1>7. \A t \in start .. r - 1 : t \in Int /\ start <= t /\ t < r
  BY <1>2, <1>4
<1> QED BY <1>1, <1>4, <1>5, <1>6, <1>7

\* The nozzle a plan takes is the job's or one that would do; under the policy
\* that looks for the earliest start none of those starts earlier.
LEMMA NozzleTakenIs ==
  ASSUME NEW assigned \in Nozzle0, NEW printer, NEW options \in SUBSET Nozzles, NEW earliest,
         \A n \in options \cup {assigned} : earliest[n] \in Int,
         NEW policy \in {"earliest", "keep_assigned", "minimise_changes"}, NEW pinned, NEW n,
         n = ChooseNozzle(assigned, printer, options, Fitted, earliest, policy, pinned)
  PROVE  /\ n \in options \cup {assigned}
         /\ policy = "earliest" /\ assigned # None => \A m \in options \cup {assigned} : earliest[n] <= earliest[m]
<1> DEFINE rank(m) == IF m # assigned THEN HandlingRank(Fitted[m], printer)
                      ELSE IF m \in options THEN 0 ELSE 3
<1>1. \A m : rank(m) \in Int
  BY DEF HandlingRank
<1>2. IsFiniteSet(options) /\ options \subseteq Int /\ IsFiniteSet(Nozzles)
  <2>1. IsFiniteSet(Nozzles) /\ Nozzles \subseteq Int
    BY PackerAssumption
  <2> QED BY <2>1, FS_Subset
<1>3. CASE assigned = None \/ options = {} \/ policy = "keep_assigned"
  <2>1. n = assigned
    BY <1>3 DEF ChooseNozzle
  <2> QED BY <1>3, <2>1
<1>4. CASE assigned # None /\ options # {} /\ policy = "earliest"
  <2> DEFINE S == options \cup {assigned}
             key == [m \in S |-> <<earliest[m], rank(m), m>>]
  <2>1. S \in SUBSET Nozzles /\ S # {} /\ S \subseteq Int
    BY <1>2, <1>4, PackerAssumption DEF Nozzle0
  <2>2. IsFiniteSet(S)
    BY <1>2, <2>1, FS_Subset
  <2>3. \A m \in S : key[m] = <<earliest[m], rank(m), m>>
    OBVIOUS
  <2>4. \A m \in S : key[m] \in [1 .. 3 -> Int] /\ key[m][1] = earliest[m]
    <3> SUFFICES ASSUME NEW m \in S PROVE key[m] \in [1 .. 3 -> Int] /\ key[m][1] = earliest[m]
      OBVIOUS
    <3>1. earliest[m] \in Int /\ rank(m) \in Int /\ m \in Int
      BY <1>1, <2>1
    <3> HIDE DEF rank, S, key
    <3> QED BY <2>3, <3>1
  <2>5. PICK x \in S : \A y \in S : ~Precedes(key[y], key[x])
    <3> HIDE DEF key, S
    <3> QED BY <2>1, <2>2, <2>4, LeastOfKeys
  <2>6. n = Least(S, LAMBDA m : <<earliest[m], rank(m), m>>)
    BY <1>4 DEF ChooseNozzle
  <2>7. n \in S /\ \A y \in S : ~Precedes(key[y], key[n])
    <3>1. \E z \in S : \A y \in S : ~Precedes(<<earliest[y], rank(y), y>>, <<earliest[z], rank(z), z>>)
      <4> HIDE DEF rank, S, key
      <4> QED BY <2>3, <2>5
    <3>2. n \in S /\ \A y \in S : ~Precedes(<<earliest[y], rank(y), y>>, <<earliest[n], rank(n), n>>)
      <4> HIDE DEF rank, S, key
      <4> QED BY <2>6, <3>1 DEF Least
    <3> HIDE DEF rank, S, key
    <3> QED BY <2>3, <3>2
  <2>8. ASSUME NEW m \in S PROVE earliest[n] <= earliest[m]
    <3>1. ~Precedes(key[m], key[n])
      BY <2>7, <2>8
    <3> HIDE DEF key, S
    <3>2. ~(key[m][1] < key[n][1])
      BY <2>4, <2>7, <2>8, <3>1 DEF Precedes
    <3>3. key[m][1] = earliest[m] /\ key[n][1] = earliest[n] /\ earliest[m] \in Int /\ earliest[n] \in Int
      BY <2>4, <2>7, <2>8 DEF S
    <3> QED BY <3>2, <3>3
  <2> QED BY <2>7, <2>8
<1>5. CASE assigned # None /\ options # {} /\ policy = "minimise_changes"
  <2>1. CASE pinned \in options
    BY <1>5, <2>1 DEF ChooseNozzle
  <2>2. CASE pinned \notin options
    <3> DEFINE key == [m \in options |-> <<rank(m), m>>]
    <3>1. \A m \in options : key[m] \in [1 .. 2 -> Int] /\ key[m] = <<rank(m), m>>
      <4> SUFFICES ASSUME NEW m \in options PROVE key[m] \in [1 .. 2 -> Int] /\ key[m] = <<rank(m), m>>
        OBVIOUS
      <4>1. rank(m) \in Int /\ m \in Int
        BY <1>1, <1>2
      <4> HIDE DEF rank
      <4> QED BY <4>1
    <3>2. PICK x \in options : \A y \in options : ~Precedes(key[y], key[x])
      <4> HIDE DEF key
      <4> QED BY <1>2, <1>5, <3>1, LeastOfKeys
    <3>3. n = Least(options, LAMBDA m : <<rank(m), m>>)
      BY <1>5, <2>2 DEF ChooseNozzle
    <3> HIDE DEF rank, key
    <3>4. \A y \in options : ~Precedes(<<rank(y), y>>, <<rank(x), x>>)
      BY <3>1, <3>2
    <3> QED BY <1>5, <3>3, <3>4 DEF Least
  <2> QED BY <2>1, <2>2
<1> QED BY <1>3, <1>4, <1>5

\* What two packs must share for the same placements to be open to them.
SameKnowledge(p, q) ==
  /\ q.plan = p.plan /\ q.from = p.from /\ q.cand = p.cand /\ q.mine = p.mine
  /\ q.printerBusy = p.printerBusy /\ q.nozzleBusy = p.nozzleBusy /\ q.materialBusy = p.materialBusy
  /\ q.placed = p.placed

LEMMA SameKnowledgeSamePlan ==
  ASSUME NEW p, NEW q, SameKnowledge(p, q)
  PROVE  /\ \A j, n : EarliestOn(q, j, n) = EarliestOn(p, j, n)
         /\ \A j : RosterOf(q, j) = RosterOf(p, j)
         /\ KeepsTimelines(p) => KeepsTimelines(q)
<1>1. ASSUME NEW j, NEW n PROVE EarliestOn(q, j, n) = EarliestOn(p, j, n)
  <2>1. ListsOf(q, j, n) = ListsOf(p, j, n)
    BY DEF ListsOf, SameKnowledge
  <2> QED BY <2>1 DEF EarliestOn, SameKnowledge
<1>2. ASSUME NEW j PROVE RosterOf(q, j) = RosterOf(p, j)
  BY DEF RosterOf, SameKnowledge
<1>3. KeepsTimelines(p) => KeepsTimelines(q)
  BY DEF KeepsTimelines, SameKnowledge, OnItsTimelines
<1> QED BY <1>1, <1>2, <1>3

\* What PlacedAtTheEarliest says of a pack whose next job has its place.
WellPlaced(p) ==
  LET j == Current(p)
      own == p.cand[j].row.nozzle
      nozzles == IF p.plan.policy = "earliest" /\ own # None
                 THEN RosterOf(p, j) \cup {own} ELSE {p.pick.nozzle}
  IN  /\ ClearAt(p, j, p.pick.nozzle, p.pick.start)
      /\ \A t \in p.from + Lead .. p.pick.start - 1, n \in nozzles : ~ClearAt(p, j, n, t)

\* A start and a nozzle chosen the way the packer does are the earliest.
LEMMA ChosenIsEarliest ==
  ASSUME NEW p, floor \in Floors, KeepsTimelines(p), NEW j \in Jobs, j = Current(p),
         p.cand[j].row.printer \in Printers, p.cand[j].row.nozzle \in Nozzle0, NEW pinned,
         p.pick.nozzle = ChooseNozzle(p.cand[j].row.nozzle, p.cand[j].row.printer, RosterOf(p, j), Fitted,
                           [n \in RosterOf(p, j) \cup {p.cand[j].row.nozzle} |-> EarliestOn(p, j, n)],
                           p.plan.policy, pinned),
         p.pick.start = EarliestOn(p, j, p.pick.nozzle)
  PROVE  WellPlaced(p) /\ p.pick.nozzle \in Nozzle0 /\ p.pick.start \in Int
<1>1. PICK own, roster, earliest, n :
        /\ own = p.cand[j].row.nozzle /\ roster = RosterOf(p, j) /\ n = p.pick.nozzle
        /\ earliest = [m \in roster \cup {own} |-> EarliestOn(p, j, m)]
  OBVIOUS
<1>2. roster \in SUBSET Nozzles
  BY <1>1 DEF RosterOf, Options
<1>3. p.plan.policy \in {"earliest", "keep_assigned", "minimise_changes"}
  BY DEF KeepsTimelines, Plans
<1>4. roster \cup {own} \subseteq Nozzle0
  BY <1>1, <1>2 DEF Nozzle0
<1>5. \A m \in Nozzle0 : /\ EarliestOn(p, j, m) \in Int /\ ClearAt(p, j, m, EarliestOn(p, j, m))
                         /\ \A t \in p.from + Lead .. EarliestOn(p, j, m) - 1 : ~ClearAt(p, j, m, t)
  BY EarliestOnIsEarliest
<1>6. \A m \in roster \cup {own} : earliest[m] = EarliestOn(p, j, m) /\ earliest[m] \in Int
  BY <1>1, <1>4, <1>5
<1>7. n = ChooseNozzle(own, p.cand[j].row.printer, roster, Fitted, earliest, p.plan.policy, pinned)
  BY <1>1
<1>8. /\ n \in roster \cup {own}
      /\ p.plan.policy = "earliest" /\ own # None => \A m \in roster \cup {own} : earliest[n] <= earliest[m]
  <2>1. own \in Nozzle0
    BY <1>1
  <2> QED BY <1>2, <1>3, <1>6, <1>7, <2>1, NozzleTakenIs
<1>9. p.pick.start \in Int /\ n \in Nozzle0 /\ ClearAt(p, j, n, p.pick.start) /\ p.pick.start = EarliestOn(p, j, n)
  BY <1>1, <1>4, <1>5, <1>8
<1>10. p.from + Lead \in Int
  BY PackerAssumption DEF KeepsTimelines
<1>11. ASSUME NEW t \in p.from + Lead .. p.pick.start - 1, NEW m,
              m \in IF p.plan.policy = "earliest" /\ own # None THEN roster \cup {own} ELSE {n}
       PROVE  ~ClearAt(p, j, m, t)
  <2>1. m \in Nozzle0 /\ p.pick.start <= EarliestOn(p, j, m)
    <3>1. CASE p.plan.policy = "earliest" /\ own # None
      BY <1>4, <1>6, <1>8, <1>9, <1>11, <3>1
    <3>2. CASE ~(p.plan.policy = "earliest" /\ own # None)
      BY <1>9, <1>11, <3>2
    <3> QED BY <3>1, <3>2
  <2>2. EarliestOn(p, j, m) \in Int
    BY <1>5, <2>1
  <2>3. t \in p.from + Lead .. EarliestOn(p, j, m) - 1
    BY <1>9, <1>10, <2>1, <2>2
  <2> QED BY <1>5, <2>1, <2>3
<1> QED BY <1>1, <1>9, <1>11 DEF WellPlaced

-----------------------------------------------------------------------------
(* A pack in good order, and the steps that keep it so. *)

\* The stages at which a pack reads the board, at which it has its candidates,
\* and at which the next of them has its place.
Reading == {"pieces", "plates", "materials"}
Loaded == {"next", "place", "switch", "commit"}
Choosing == {"place", "switch", "commit"}

PackOK(p) ==
  /\ IsPack(p) /\ KeepsTimelines(p)
  /\ p.items \in Seq(Jobs) /\ p.queue \in Seq(Jobs)
  /\ \A j \in Jobs : p.seen[j].s \in Int /\ p.seen[j].e \in Int
  /\ p.at \in Reading => p.placed = <<>>
  /\ p.at \in Loaded =>
       \A j \in Jobs : /\ p.cand[j].row.printer \in Printer0 /\ p.cand[j].row.nozzle \in Nozzle0
                       /\ p.cand[j].mats \in SUBSET Materials
  /\ p.at \in Choosing =>
       p.queue # <<>> /\ p.pick.nozzle \in Nozzle0 /\ p.pick.start \in Int /\ WellPlaced(p)

\* Pushing an interval onto some of the timelines.
LEMMA PushingOntoSome ==
  ASSUME NEW D, NEW busy \in [D -> Timeline], NEW R, NEW iv \in Interval
  PROVE  /\ Pushed(busy, R, iv) \in [D -> Timeline]
         /\ \A x \in D : /\ ToSet(busy[x]) \subseteq ToSet(Pushed(busy, R, iv)[x])
                         /\ x \in R => iv \in ToSet(Pushed(busy, R, iv)[x])
<1>1. \A l \in Timeline : /\ PushInterval(l, iv) \in Timeline
                          /\ ToSet(PushInterval(l, iv)) = ToSet(l) \cup {iv}
  BY PushingKeepsOrder
<1>2. PICK new : new = Pushed(busy, R, iv)
  OBVIOUS
<1>3. new = [x \in D |-> IF x \in R THEN PushInterval(busy[x], iv) ELSE busy[x]]
  BY <1>2 DEF Pushed
<1> QED BY <1>1, <1>2, <1>3

\* A pack that gives up a candidate.
LEMMA SkippingIsOK ==
  ASSUME NEW p, PackOK(p), p.at \in Loaded, p.queue # <<>>
  PROVE  PackOK(Skipped(p))
<1>1. PICK tail, out, x : /\ tail = Tail(p.queue) /\ out = p.skipped \cup {Head(p.queue)}
                          /\ x = [p EXCEPT !.at = "next", !.queue = tail, !.skipped = out]
  OBVIOUS
<1>2. x = Skipped(p)
  BY <1>1 DEF Skipped
<1>3. IsPack(p)
  BY DEF PackOK
<1>4. /\ IsPack(x) /\ x.at = "next" /\ x.queue = tail /\ x.items = p.items /\ x.seen = p.seen
      /\ SameKnowledge(p, x)
  BY <1>1, <1>3 DEF IsPack, SameKnowledge
<1>5. tail \in Seq(Jobs)
  BY <1>1 DEF PackOK
<1>6. KeepsTimelines(x)
  BY <1>4, SameKnowledgeSamePlan DEF PackOK
<1>7. x.cand = p.cand
  BY <1>4 DEF SameKnowledge
<1>8. PackOK(x)
  BY <1>4, <1>5, <1>6, <1>7 DEF PackOK, Reading, Loaded, Choosing
<1> QED BY <1>2, <1>8

\* A pack that finds a candidate its place.
LEMMA ChoosingIsOK ==
  ASSUME NEW p, floor \in Floors, PackOK(p), p.at = "next", p.queue # <<>>, NEW j, j = Current(p), ~NotPackable(p, j),
         NEW mats \in SUBSET Materials
  PROVE  PackOK(Choose(p, j, mats))
<1>0. IsPack(p) /\ KeepsTimelines(p)
  BY DEF PackOK
<1>1. j \in Jobs /\ p.cand[j].row.printer \in Printers /\ p.cand[j].row.nozzle \in Nozzle0
  <2>1. j \in Jobs
    BY DEF PackOK, Current
  <2>2. p.cand[j].row.printer \in Printer0 /\ p.cand[j].row.printer # None /\ p.cand[j].row.nozzle \in Nozzle0
    BY <2>1 DEF PackOK, NotPackable, Loaded
  <2> QED BY <2>1, <2>2 DEF Printer0
<1>2. PICK q : q = [p EXCEPT !.mine = mats]
  OBVIOUS
<1>3. /\ IsPack(q) /\ q.at = "next" /\ q.queue = p.queue /\ q.items = p.items /\ q.seen = p.seen /\ q.cand = p.cand
      /\ q.plan = p.plan /\ q.from = p.from /\ q.mine = mats /\ q.placed = p.placed
      /\ q.printerBusy = p.printerBusy /\ q.nozzleBusy = p.nozzleBusy /\ q.materialBusy = p.materialBusy
  BY <1>0, <1>2 DEF IsPack
<1>4. KeepsTimelines(q)
  BY <1>0, <1>3 DEF KeepsTimelines, OnItsTimelines
<1> DEFINE r0 == p.cand[j].row
           setup == SetupKey(j, r0.printer)
           pinned == PinnedFor(p, setup)
           nozzle == ChooseNozzle(r0.nozzle, r0.printer, RosterOf(q, j), Fitted,
                                  [n \in RosterOf(q, j) \cup {r0.nozzle} |-> EarliestOn(q, j, n)],
                                  p.plan.policy, pinned)
           start == EarliestOn(q, j, nozzle)
           kept == IF p.plan.policy = "minimise_changes" /\ nozzle # None
                   THEN [q EXCEPT !.pinned = (setup :> nozzle) @@ @] ELSE q
           stage == IF p.plan.dry THEN "place" ELSE IF nozzle # r0.nozzle THEN "switch" ELSE "commit"
           done == [kept EXCEPT !.pick = [nozzle |-> nozzle, start |-> start], !.at = stage]
<1>5. Choose(p, j, mats) = IF start + Fact(j).len > p.from + Horizon THEN Skipped(kept) ELSE done
  BY <1>2 DEF Choose
<1>6. PICK k : k = kept
  OBVIOUS
<1>7. \E pins : k = [q EXCEPT !.pinned = pins]
  <2> HIDE DEF setup, nozzle
  <2>1. q = [q EXCEPT !.pinned = q.pinned]
    BY <1>3 DEF IsPack
  <2> QED BY <1>6, <2>1
<1>8. IsPack(k) /\ k.at = "next" /\ k.queue = q.queue /\ k.items = q.items /\ k.seen = q.seen /\ SameKnowledge(q, k)
  BY <1>3, <1>7 DEF IsPack, SameKnowledge
<1>9. KeepsTimelines(k) /\ k.cand = p.cand
  BY <1>3, <1>4, <1>8, SameKnowledgeSamePlan DEF SameKnowledge
<1>10. PackOK(k)
  BY <1>3, <1>8, <1>9 DEF PackOK, Reading, Loaded, Choosing
<1>11. PackOK(Skipped(k))
  BY <1>3, <1>8, <1>10, SkippingIsOK DEF Loaded
<1> HIDE DEF setup, pinned, nozzle, start, stage, kept
<1>12. PICK d : d = [k EXCEPT !.pick = [nozzle |-> nozzle, start |-> start], !.at = stage]
  OBVIOUS
<1>13. /\ IsPack(d) /\ d.at = stage /\ d.queue = k.queue /\ d.items = k.items /\ d.seen = k.seen
       /\ SameKnowledge(k, d) /\ d.pick.nozzle = nozzle /\ d.pick.start = start
  BY <1>8, <1>12 DEF IsPack, SameKnowledge
<1>14. /\ d.queue = p.queue /\ d.cand = p.cand /\ d.plan = p.plan /\ SameKnowledge(q, d)
  BY <1>3, <1>8, <1>13 DEF SameKnowledge
<1>15. KeepsTimelines(d)
  BY <1>4, <1>14, SameKnowledgeSamePlan
<1>16. RosterOf(d, j) = RosterOf(q, j) /\ \A n : EarliestOn(d, j, n) = EarliestOn(q, j, n)
  BY <1>14, SameKnowledgeSamePlan
<1>17. d.pick.nozzle = ChooseNozzle(d.cand[j].row.nozzle, d.cand[j].row.printer, RosterOf(d, j), Fitted,
                         [n \in RosterOf(d, j) \cup {d.cand[j].row.nozzle} |-> EarliestOn(d, j, n)],
                         d.plan.policy, pinned)
  BY <1>13, <1>14, <1>16 DEF nozzle
<1>18. d.pick.start = EarliestOn(d, j, d.pick.nozzle)
  BY <1>13, <1>16 DEF start
<1>19. j = Current(d)
  BY <1>14 DEF Current
<1>20. WellPlaced(d) /\ d.pick.nozzle \in Nozzle0 /\ d.pick.start \in Int
  BY <1>1, <1>14, <1>15, <1>17, <1>18, <1>19, ChosenIsEarliest
<1>21. stage \in Choosing
  BY DEF stage, Choosing
<1>22. PackOK(d)
  <2>1. d.items = p.items /\ d.seen = p.seen
    BY <1>3, <1>8, <1>13
  <2> QED BY <1>13, <1>14, <1>15, <1>20, <1>21, <2>1 DEF PackOK, Reading, Loaded, Choosing
<1> QED BY <1>5, <1>6, <1>11, <1>12, <1>22

\* A pack that remembers a placement.
LEMMA PlacingIsOK ==
  ASSUME NEW p, floor \in Floors, PackOK(p), p.at \in Choosing, NEW nozzle \in Nozzle0
  PROVE  PackOK(Placed(p, Current(p), nozzle))
<1>0. IsPack(p) /\ KeepsTimelines(p) /\ p.pick.start \in Int /\ p.queue \in Seq(Jobs) /\ p.queue # <<>>
  BY DEF PackOK
<1>1. PICK j, printer : j = Current(p) /\ printer = p.cand[j].row.printer
  OBVIOUS
<1>2. j \in Jobs /\ printer \in Printer0
  <2>1. j \in Jobs
    BY <1>0, <1>1 DEF Current
  <2> QED BY <1>1, <2>1 DEF PackOK, Reading, Loaded, Choosing
<1>3. Fact(j).len \in Int
  <2>1. Fact(j) \in JobFacts
    BY <1>2, PackerAssumption DEF Fact
  <2> QED BY <2>1 DEF JobFacts
<1>4. PICK iv : iv = [s |-> p.pick.start, e |-> p.pick.start + Fact(j).len]
  OBVIOUS
<1>5. iv \in Interval
  BY <1>0, <1>3, <1>4 DEF Interval
<1>6. PICK mark : mark = [job |-> j, start |-> iv.s, nozzle |-> nozzle, printer |-> printer, mats |-> p.mine]
  OBVIOUS
<1>7. mark \in Placement /\ iv = [s |-> mark.start, e |-> mark.start + Fact(mark.job).len]
  BY <1>0, <1>2, <1>4, <1>5, <1>6 DEF Placement, KeepsTimelines, Interval
<1>8. PICK pb, nb, mb, pl, tail :
        /\ pb = Pushed(p.printerBusy, {printer}, iv) /\ nb = Pushed(p.nozzleBusy, {nozzle}, iv)
        /\ mb = Pushed(p.materialBusy, p.mine, iv) /\ pl = Append(p.placed, mark) /\ tail = Tail(p.queue)
  OBVIOUS
<1>9. /\ pb \in [Printers -> Timeline]
      /\ \A x \in Printers : ToSet(p.printerBusy[x]) \subseteq ToSet(pb[x]) /\ (x = printer => iv \in ToSet(pb[x]))
  BY <1>0, <1>5, <1>8, PushingOntoSome DEF KeepsTimelines
<1>10. /\ nb \in [Nozzles -> Timeline]
       /\ \A x \in Nozzles : ToSet(p.nozzleBusy[x]) \subseteq ToSet(nb[x]) /\ (x = nozzle => iv \in ToSet(nb[x]))
  BY <1>0, <1>5, <1>8, PushingOntoSome DEF KeepsTimelines
<1>11. /\ mb \in [Materials -> Timeline]
       /\ \A x \in Materials : ToSet(p.materialBusy[x]) \subseteq ToSet(mb[x]) /\ (x \in p.mine => iv \in ToSet(mb[x]))
  BY <1>0, <1>5, <1>8, PushingOntoSome DEF KeepsTimelines
<1>12. PICK x : x = [p EXCEPT !.at = "next", !.queue = tail, !.printerBusy = pb, !.nozzleBusy = nb,
                              !.materialBusy = mb, !.placed = pl]
  OBVIOUS
<1>13. x = Placed(p, j, nozzle)
  BY <1>1, <1>4, <1>6, <1>8, <1>12 DEF Placed
<1>14. /\ IsPack(x) /\ x.at = "next" /\ x.queue = tail /\ x.items = p.items /\ x.seen = p.seen /\ x.cand = p.cand
       /\ x.plan = p.plan /\ x.from = p.from /\ x.mine = p.mine /\ x.placed = pl
       /\ x.printerBusy = pb /\ x.nozzleBusy = nb /\ x.materialBusy = mb
  BY <1>0, <1>12 DEF IsPack
<1>15. /\ pl \in Seq(Placement) /\ DOMAIN pl = 1 .. Len(p.placed) + 1 /\ DOMAIN p.placed = 1 .. Len(p.placed)
       /\ pl[Len(p.placed) + 1] = mark /\ \A i \in 1 .. Len(p.placed) : pl[i] = p.placed[i]
  BY <1>0, <1>7, <1>8 DEF KeepsTimelines
<1>16. ASSUME NEW i \in DOMAIN pl PROVE OnItsTimelines(x, pl[i])
  <2>1. CASE i \in DOMAIN p.placed
    <3>1. PICK y : y = p.placed[i]
      OBVIOUS
    <3>2. OnItsTimelines(p, y) /\ y.mats \subseteq Materials /\ pl[i] = y
      <4>1. OnItsTimelines(p, y) /\ y \in Placement
        BY <1>0, <2>1, <3>1 DEF KeepsTimelines
      <4> QED BY <1>15, <2>1, <3>1, <4>1 DEF Placement
    <3> QED BY <1>9, <1>10, <1>11, <1>14, <3>2 DEF OnItsTimelines
  <2>2. CASE i \notin DOMAIN p.placed
    <3>1. Len(p.placed) \in Nat
      BY <1>0 DEF KeepsTimelines
    <3>2. pl[i] = mark
      BY <1>15, <2>2, <3>1
    <3>3. mark.printer = printer /\ mark.nozzle = nozzle /\ mark.mats = p.mine /\ p.mine \subseteq Materials
      BY <1>0, <1>6 DEF KeepsTimelines
    <3> QED BY <1>7, <1>9, <1>10, <1>11, <1>14, <3>2, <3>3 DEF OnItsTimelines
  <2> QED BY <2>1, <2>2
<1>17. KeepsTimelines(x)
  BY <1>0, <1>9, <1>10, <1>11, <1>14, <1>15, <1>16 DEF KeepsTimelines
<1>18. tail \in Seq(Jobs)
  BY <1>0, <1>8
<1>19. PackOK(x)
  BY <1>14, <1>17, <1>18 DEF PackOK, Reading, Loaded, Choosing
<1> QED BY <1>1, <1>13, <1>19

Item == [id : Jobs, due : Int, place : Int, dur : Int, setup : Int]

\* Either order of a plan is an order of its items.
LEMMA OrdersList ==
  ASSUME NEW items \in SUBSET Item, IsFiniteSet(items), NEW from \in Int
  PROVE  /\ BySlack(items, from) \in [1 .. Cardinality(items) -> items]
         /\ ForFewestSetups(items, from) \in [1 .. Cardinality(items) -> items]
<1> DEFINE slack(x) == SlackOf(x, from)
           group(x) == {y \in items : y.setup = x.setup}
           urgency(x) == Min({SlackOf(y, from) : y \in group(x)})
           soonest(x) == Min({y.due : y \in group(x)})
           sk == [x \in items |-> SlackKey(x, from)]
           fk == [x \in items |-> <<urgency(x), soonest(x), x.setup>> \o SlackKey(x, from)]
<1>1. \A x \in items : slack(x) \in Int /\ x.due \in Int /\ x.setup \in Int /\ x.place \in Int
  BY KernelAssumption DEF SlackOf, Item
<1>2. ASSUME NEW x \in items PROVE SlackKey(x, from) \in Seq(Int) /\ Len(SlackKey(x, from)) = 4
  <2>1. SlackKey(x, from) = <<slack(x), x.due, x.setup, x.place>>
    BY DEF SlackKey
  <2> HIDE DEF slack
  <2> QED BY <1>1, <2>1
<1>3. ASSUME NEW T, IsFiniteSet(T), T # {}, NEW m, \A x \in T : m[x] \in Int
      PROVE  Min({m[x] : x \in T}) \in Int
  <2>1. PICK u \in T : \A y \in T : m[u] <= m[y]
    BY <1>3, LeastInteger
  <2>2. m[u] \in {m[x] : x \in T} /\ \A y \in {m[x] : x \in T} : m[u] <= y
    BY <2>1
  <2>3. Min({m[x] : x \in T}) \in {m[x] : x \in T}
    BY <2>2 DEF Min
  <2> QED BY <1>3, <2>3
<1>4. ASSUME NEW x \in items PROVE urgency(x) \in Int /\ soonest(x) \in Int
  <2>1. IsFiniteSet(group(x)) /\ group(x) # {} /\ group(x) \subseteq items
    BY FS_Subset
  <2> DEFINE su == [y \in items |-> slack(y)]
             so == [y \in items |-> y.due]
  <2>2. \A y \in items : su[y] \in Int /\ so[y] \in Int /\ su[y] = SlackOf(y, from) /\ so[y] = y.due
    BY <1>1
  <2> HIDE DEF group, su, so
  <2>3. Min({su[y] : y \in group(x)}) \in Int /\ Min({so[y] : y \in group(x)}) \in Int
    BY <1>3, <2>1, <2>2
  <2>4. /\ {su[y] : y \in group(x)} = {SlackOf(y, from) : y \in group(x)}
        /\ {so[y] : y \in group(x)} = {y.due : y \in group(x)}
    BY <2>1, <2>2
  <2> QED BY <2>3, <2>4
<1>5. \A x \in items : sk[x] \in [1 .. 4 -> Int] /\ sk[x] = SlackKey(x, from)
  <2> HIDE DEF slack
  <2> QED BY <1>2, LenProperties
<1>6. \A x \in items : fk[x] \in [1 .. 7 -> Int] /\ fk[x] = <<urgency(x), soonest(x), x.setup>> \o SlackKey(x, from)
  <2> SUFFICES ASSUME NEW x \in items PROVE fk[x] \in [1 .. 7 -> Int]
    OBVIOUS
  <2>1. urgency(x) \in Int /\ soonest(x) \in Int /\ x.setup \in Int
    BY <1>1, <1>4
  <2>2. fk[x] = <<urgency(x), soonest(x), x.setup>> \o SlackKey(x, from)
    OBVIOUS
  <2> HIDE DEF urgency, soonest, fk
  <2>3. PICK a, b : a = <<urgency(x), soonest(x), x.setup>> /\ b = SlackKey(x, from)
    OBVIOUS
  <2>4. a \in Seq(Int) /\ Len(a) = 3 /\ b \in Seq(Int) /\ Len(b) = 4
    BY <1>2, <2>1, <2>3
  <2>5. a \o b \in Seq(Int) /\ Len(a \o b) = 7
    <3>1. a \o b \in Seq(Int) /\ Len(a \o b) = Len(a) + Len(b)
      BY <2>4, ConcatProperties
    <3> QED BY <2>4, <3>1
  <2>6. a \o b \in [1 .. 7 -> Int]
    BY <2>5, LenProperties
  <2> QED BY <2>2, <2>3, <2>6
<1>7. ASSUME NEW n \in Nat, NEW key, \A x \in items : key[x] \in [1 .. n -> Int],
             NEW Before, Before = {x \in items \X items : Precedes(key[x[1]], key[x[2]])}
      PROVE  InOrder(items, Before) \in [1 .. Cardinality(items) -> items]
  <2>1. IsStrict(Before, items)
    BY <1>7, KeysAreStrict
  <2> QED BY <2>1, InOrderListsAll DEF Lists
<1>8. BySlack(items, from) \in [1 .. Cardinality(items) -> items]
  <2> HIDE DEF sk
  <2>1. PICK Before : Before = {x \in items \X items : Precedes(sk[x[1]], sk[x[2]])}
    OBVIOUS
  <2>2. Before = {x \in items \X items : Precedes(SlackKey(x[1], from), SlackKey(x[2], from))}
    BY <1>5, <2>1
  <2>3. InOrder(items, Before) \in [1 .. Cardinality(items) -> items]
    BY <1>5, <1>7, <2>1
  <2> QED BY <2>2, <2>3 DEF BySlack
<1>9. ForFewestSetups(items, from) \in [1 .. Cardinality(items) -> items]
  <2> DEFINE key(x) == <<urgency(x), soonest(x), x.setup>> \o SlackKey(x, from)
  <2>1. PICK Before : Before = {x \in items \X items : Precedes(fk[x[1]], fk[x[2]])}
    OBVIOUS
  <2>2. ForFewestSetups(items, from) = InOrder(items, {x \in items \X items : Precedes(key(x[1]), key(x[2]))})
    BY DEF ForFewestSetups
  <2>3. \A x \in items : fk[x] = key(x)
    OBVIOUS
  <2> HIDE DEF key, fk
  <2>4. Before = {x \in items \X items : Precedes(key(x[1]), key(x[2]))}
    BY <2>1, <2>3
  <2>5. InOrder(items, Before) \in [1 .. Cardinality(items) -> items]
    BY <1>6, <1>7, <2>1 DEF fk
  <2> QED BY <2>2, <2>4, <2>5
<1> QED BY <1>8, <1>9

\* The jobs of a selection, each as an item, are finitely many.
LEMMA FinitelyMany ==
  ASSUME NEW q, NEW n \in Nat, DOMAIN q = 1 .. n
  PROVE  IsFiniteSet({q[i] : i \in 1 .. n})
<1>1. IsFiniteSet(1 .. n)
  BY 1 \in Int, n \in Int, FS_Interval
<1>2. [i \in 1 .. n |-> q[i]] \in Surjection(1 .. n, {q[i] : i \in 1 .. n})
  BY DEF Surjection
<1> QED BY <1>1, <1>2, FS_Surjection

-----------------------------------------------------------------------------
(* The shop, the requests and the packs, step by step. *)

\* Rows and requests hold ids and instants.
RowOK(x) == x.printer \in Printer0 /\ x.nozzle \in Nozzle0 /\ x.s \in Int /\ x.e \in Int
DeskOK(d) == d.s \in Int /\ d.nozzle \in Nozzle0 /\ d.todo \in Requests /\ d.later \in Requests

ShopOK ==
  /\ floor \in Floors /\ now \in Int
  /\ \A j \in Jobs : RowOK(job[j])
  /\ \A a \in Actors : DeskOK(desk[a])

PlansOK == \A r \in Packs : pack[r].at # "idle" => PackOK(pack[r])

PlanInv == BoardInv /\ ShopOK /\ PlansOK

\* What a shop's tables say of the jobs.
LEMMA FactsAre ==
  ASSUME floor \in Floors, NEW j \in Jobs
  PROVE  /\ Fact(j) \in JobFacts /\ Fact(j).len \in Int /\ Fact(j).due \in Int
         /\ Fact(j).need.dia \in Int /\ Fact(j).need.mat \in Int
         /\ MaterialsOf(j) \in SUBSET Materials
<1>1. Fact(j) \in JobFacts
  BY PackerAssumption DEF Fact
<1> QED BY <1>1 DEF JobFacts, MaterialsOf, SpoolsOf, Materials

\* Whatever writes a row writes ids and instants.
LEMMA RowsStayOK ==
  ASSUME ShapesOK, ShopOK, Kinds, floor' = floor
  PROVE  \A j \in Jobs : RowOK(job'[j])
<1> SUFFICES ASSUME NEW j \in Jobs PROVE RowOK(job'[j])
  OBVIOUS
<1>0. RowOK(job[j]) /\ IsRow(job[j]) /\ job = [i \in Jobs |-> job[i]] /\ Fact(j).len \in Int
  BY FactsAre DEF ShopOK, ShapesOK
<1>1. CASE job' = job
  BY <1>0, <1>1
<1>2. ASSUME NEW a \in Actors, Booked(a) PROVE RowOK(job'[j])
  <2>1. CASE desk[a].job # j
    BY <1>0, <1>2, <2>1 DEF Booked, Book
  <2>2. CASE desk[a].job = j
    <3>1. PICK st, s, e, n : /\ st = "scheduled" /\ s = desk[a].s /\ e = desk[a].s + Fact(j).len /\ n = BookedNozzle(a)
      OBVIOUS
    <3>2. job'[j] = [job[j] EXCEPT !.status = st, !.s = s, !.e = e, !.nozzle = n]
      BY <1>0, <1>2, <2>2, <3>1 DEF Booked, Book
    <3>3. s \in Int /\ e \in Int /\ n \in Nozzle0
      BY <1>0, <2>2, <3>1 DEF ShopOK, DeskOK, BookedNozzle, RowOK
    <3> QED BY <1>0, <3>2, <3>3 DEF RowOK, IsRow
  <2> QED BY <2>1, <2>2
<1>3. ASSUME NEW a \in Actors, Swap(a) PROVE RowOK(job'[j])
  <2>1. PICK i, n : i = desk[a].job /\ n = desk[a].nozzle
    OBVIOUS
  <2>2. job' = [job EXCEPT ![i].nozzle = n] /\ n \in Nozzle0
    BY <1>3, <2>1 DEF Swap, ShopOK, DeskOK
  <2>3. job'[j] = job[j] \/ job'[j] = [job[j] EXCEPT !.nozzle = n]
    BY <1>0, <2>2
  <2> QED BY <1>0, <2>2, <2>3 DEF RowOK, IsRow
<1>4. ASSUME NEW i, NEW take, Takes(i, take) PROVE RowOK(job'[j])
  <2>1. job'[j] = job[j] \/ job'[j] = [job[j] EXCEPT !.take = take]
    BY <1>0, <1>4 DEF Takes
  <2> QED BY <1>0, <2>1 DEF RowOK, IsRow
<1>5. ASSUME NEW off, TakesOff(off) PROVE RowOK(job'[j])
  BY <1>0, <1>5 DEF TakesOff, RowOK, Printer0, Nozzle0
<1>6. ASSUME NEW i \in Jobs, NEW st, NEW take,
             \/ job' = [job EXCEPT ![i] = [@ EXCEPT !.status = st]]
             \/ job' = [job EXCEPT ![i] = [@ EXCEPT !.status = st, !.take = take]]
      PROVE  RowOK(job'[j])
  <2>1. \/ job'[j] = job[j] \/ job'[j] = [job[j] EXCEPT !.status = st]
        \/ job'[j] = [job[j] EXCEPT !.status = st, !.take = take]
    BY <1>0, <1>6
  <2> QED BY <1>0, <2>1 DEF RowOK, IsRow
<1>7. ASSUME NEW i \in Jobs, job' = [job EXCEPT ![i] = [@ EXCEPT !.status = "printing"]] PROVE RowOK(job'[j])
  BY <1>6, <1>7
<1>8. ASSUME NEW i \in Jobs, job' = [job EXCEPT ![i] = [@ EXCEPT !.status = "done", !.take = NoTake]] PROVE RowOK(job'[j])
  BY <1>6, <1>8
<1> QED BY <1>1, <1>2, <1>3, <1>4, <1>5, <1>7, <1>8 DEF Kinds

\* A request that has ended, and one that begins.
LEMMA NoDeskOK ==
  /\ DeskOK(NoDesk)
  /\ \A items \in Requests : \A last : DeskOK([NoDesk EXCEPT !.todo = items, !.last = last])
  /\ \A js : DeskOK([NoDesk EXCEPT !.at = "clear", !.jobs = js])
<1>1. DeskOK(NoDesk)
  BY DEF DeskOK, NoDesk, Nozzle0, Requests
<1>2. ASSUME NEW items \in Requests, NEW last, NEW d, d = [NoDesk EXCEPT !.todo = items, !.last = last] PROVE DeskOK(d)
  BY <1>1, <1>2 DEF DeskOK, NoDesk
<1>3. ASSUME NEW js, NEW d, d = [NoDesk EXCEPT !.at = "clear", !.jobs = js] PROVE DeskOK(d)
  BY <1>1, <1>3 DEF DeskOK, NoDesk
<1> QED BY <1>1, <1>2, <1>3

\* One that has checked an item, and one that goes on to the next.
LEMMA AnswersAreOK ==
  ASSUME ShapesOK, ShopOK, NEW a \in Actors
  PROVE  /\ \A j \in Jobs, s \in Int : DeskOK(Judged(a, j, s))
         /\ \A j, n : n \in Nozzle0 => DeskOK(SwapJudged(a, j, n))
         /\ \A again \in Requests : DeskOK(Onwards(desk[a], again))
<1>0. DeskOK(desk[a]) /\ IsDesk(desk[a])
  BY DEF ShopOK, ShapesOK
<1>1. ASSUME NEW j \in Jobs, NEW s \in Int PROVE DeskOK(Judged(a, j, s))
  <2>1. PICK e, n : e = s + Fact(j).len /\ n = NozzleFor(j, s, e)
    OBVIOUS
  <2> DEFINE free == {m \in Nozzles : ~NozzleTaken(m, j, s, e)}
  <2>2. n \in Nozzle0
    <3>1. RowOK(job[j]) /\ Options(job[j].printer) \subseteq Nat
      BY PackerAssumption DEF ShopOK, Options
    <3>2. LET t == Twin(job[j].nozzle, job[j].printer, Options(job[j].printer), Kind, Fitted, free)
          IN  t = None \/ t \in free
      <4> HIDE DEF free
      <4> QED BY <3>1, TwinIsFree
    <3>3. free \subseteq Nozzles
      OBVIOUS
    <3>4. NozzleFor(j, s, e) \in {None, job[j].nozzle} \cup free
      <4>1. NozzleFor(j, s, e) \in {None, job[j].nozzle, Twin(job[j].nozzle, job[j].printer, Options(job[j].printer), Kind, Fitted, free)}
        BY DEF NozzleFor
      <4> HIDE DEF free
      <4> QED BY <3>2, <4>1
    <3> HIDE DEF free
    <3> QED BY <2>1, <3>1, <3>3, <3>4 DEF RowOK, Nozzle0
  <2>3. PICK m : m = IF n = job[j].nozzle THEN None ELSE n
    OBVIOUS
  <2>4. PICK d : d = [desk[a] EXCEPT !.at = "book", !.job = j, !.s = s, !.fresh = TRUE, !.nozzle = m]
    OBVIOUS
  <2>5. d = Judged(a, j, s)
    BY <2>1, <2>3, <2>4 DEF Judged
  <2>6. m \in Nozzle0
    BY <2>2, <2>3 DEF Nozzle0
  <2>7. d.s = s /\ d.nozzle = m /\ d.todo = desk[a].todo /\ d.later = desk[a].later
    BY <1>0, <2>4 DEF IsDesk
  <2> QED BY <1>0, <2>5, <2>6, <2>7 DEF DeskOK
<1>2. ASSUME NEW j, NEW n, n \in Nozzle0 PROVE DeskOK(SwapJudged(a, j, n))
  <2>1. PICK d : d = [desk[a] EXCEPT !.at = "nozzle", !.job = j, !.nozzle = n, !.fresh = TRUE]
    OBVIOUS
  <2>2. d.s = desk[a].s /\ d.nozzle = n /\ d.todo = desk[a].todo /\ d.later = desk[a].later
    BY <1>0, <2>1 DEF IsDesk
  <2> QED BY <1>0, <1>2, <2>1, <2>2 DEF DeskOK, SwapJudged
<1>3. ASSUME NEW again \in Requests PROVE DeskOK(Onwards(desk[a], again))
  <2>1. PICK later : later = desk[a].later \o again
    OBVIOUS
  <2>2. later \in Requests
    BY <1>0, <2>1 DEF DeskOK, Requests
  <2>3. CASE Len(desk[a].todo) > 1
    <3>1. PICK tail : tail = Tail(desk[a].todo)
      OBVIOUS
    <3>2. tail \in Requests
      BY <1>0, <2>3, <3>1 DEF DeskOK, Requests
    <3>3. PICK d : d = [desk[a] EXCEPT !.at = "idle", !.todo = tail, !.later = later]
      OBVIOUS
    <3>4. d.s = desk[a].s /\ d.nozzle = desk[a].nozzle /\ d.todo = tail /\ d.later = later
      BY <1>0, <3>3 DEF IsDesk
    <3> QED BY <1>0, <2>1, <2>2, <2>3, <3>1, <3>2, <3>3, <3>4 DEF DeskOK, Onwards
  <2>4. CASE ~(Len(desk[a].todo) > 1)
    <3>1. Onwards(desk[a], again) = [NoDesk EXCEPT !.todo = later, !.last = TRUE]
      BY <2>1, <2>4 DEF Onwards
    <3> QED BY <2>2, <3>1, NoDeskOK
  <2> QED BY <2>3, <2>4
<1> QED BY <1>1, <1>2, <1>3

\* What a step does to the requests.
Answers == \/ desk' = desk
           \/ \E a \in Actors : \E d : DeskOK(d) /\ (desk' = [desk EXCEPT ![a] = d] \/ Outdate(a, d))

\* After such a step requests are still requests.
LEMMA DesksStayOK ==
  ASSUME ShapesOK, ShopOK, Answers
  PROVE  \A a \in Actors : DeskOK(desk'[a])
<1> SUFFICES ASSUME NEW b \in Actors PROVE DeskOK(desk'[b])
  OBVIOUS
<1>1. DeskOK(desk[b]) /\ IsDesk(desk[b]) /\ desk = [a \in Actors |-> desk[a]]
  BY DEF ShopOK, ShapesOK
<1>2. CASE desk' = desk
  BY <1>1, <1>2
<1>3. ASSUME NEW a \in Actors, NEW d, DeskOK(d), desk' = [desk EXCEPT ![a] = d] PROVE DeskOK(desk'[b])
  BY <1>1, <1>3
<1>4. ASSUME NEW a \in Actors, NEW d, DeskOK(d), Outdate(a, d) PROVE DeskOK(desk'[b])
  <2>1. desk'[b] = d \/ desk'[b] = [desk[b] EXCEPT !.fresh = FALSE]
    BY <1>4 DEF Outdate
  <2>2. ASSUME NEW x, x = [desk[b] EXCEPT !.fresh = FALSE] PROVE DeskOK(x)
    BY <1>1, <2>2 DEF DeskOK, IsDesk
  <2> QED BY <1>4, <2>1, <2>2
<1> QED BY <1>2, <1>3, <1>4 DEF Answers

\* An operator's steps leave requests that are requests.
LEMMA HandsAnswer ==
  ASSUME ShapesOK, ShopOK, NEW h \in Hands,
         \/ \E items \in floor.moves : HandSchedule(h, items)
         \/ HandCheck(h) \/ HandBook(h)
         \/ \E j \in Jobs, n \in Nozzles : HandNozzle(h, j, n)
         \/ HandSwap(h)
         \/ \E j \in Jobs, s \in Spools : HandReserve(h, j, s)
         \/ \E js : HandUnschedule(h, js)
         \/ \E ps : HandClear(h, ps)
         \/ HandCleared(h)
         \/ \E j \in Jobs : ShopRuns(h, j)
  PROVE  Answers /\ pack' = pack /\ now' = now
<1>0. h \in Actors /\ DeskOK(desk[h])
  BY DEF Actors, ShopOK
<1>1. pack' = pack /\ now' = now
  BY DEF HandSchedule, HandCheck, HandBook, HandNozzle, HandSwap, HandReserve, HandUnschedule, HandClear,
         HandCleared, ShopRuns
<1>2. ASSUME Disturb(h, NoDesk) PROVE Answers
  BY <1>0, <1>2, NoDeskOK DEF Answers, Disturb
<1>3. ASSUME HandSwap(h) \/ HandCleared(h) \/ (\E j \in Jobs, s \in Spools : HandReserve(h, j, s))
             \/ (\E js : HandUnschedule(h, js)) \/ (\E j \in Jobs : ShopRuns(h, j))
      PROVE  Answers
  <2>1. Disturb(h, NoDesk)
    BY <1>3 DEF HandSwap, HandCleared, HandReserve, HandUnschedule, ShopRuns
  <2> QED BY <1>2, <2>1
<1>4. ASSUME NEW items \in floor.moves, HandSchedule(h, items) PROVE Answers
  <2>1. PICK last : last = (Len(items) = 1)
    OBVIOUS
  <2>2. desk' = [desk EXCEPT ![h] = [NoDesk EXCEPT !.todo = items, !.last = last]]
    BY <1>4, <2>1 DEF HandSchedule
  <2>3. items \in Requests
    BY PackerAssumption DEF ShopOK
  <2> QED BY <1>0, <2>2, <2>3, NoDeskOK DEF Answers
<1>5. ASSUME HandCheck(h) PROVE Answers
  <2>1. PICK item, again : /\ item = Head(desk[h].todo)
                           /\ again = IF desk[h].last \/ ~Complete(item.job) \/ item.s < now THEN <<>> ELSE <<item>>
    OBVIOUS
  <2>2. /\ desk[h].todo # <<>>
        /\ desk' = [desk EXCEPT ![h] = IF Bookable(item.job, item.s) THEN Judged(h, item.job, item.s)
                                       ELSE Onwards(desk[h], again)]
    BY <1>5, <2>1 DEF HandCheck
  <2>3. item \in [job : Jobs, s : Int]
    <3>1. PICK asked, todo : asked = [job : Jobs, s : Int] /\ todo = desk[h].todo
      OBVIOUS
    <3>2. todo \in Seq(asked) /\ todo # <<>>
      BY <1>0, <2>2, <3>1 DEF DeskOK, Requests
    <3>3. Head(todo) \in asked
      BY <3>2
    <3> QED BY <2>1, <3>1, <3>3
  <2>4. again \in Requests
    <3>1. PICK asked : asked = [job : Jobs, s : Int]
      OBVIOUS
    <3>2. item \in asked
      BY <2>3, <3>1
    <3>3. <<item>> \in Seq(asked) /\ <<>> \in Seq(asked)
      BY <3>2
    <3> QED BY <2>1, <3>1, <3>3 DEF Requests
  <2>5. DeskOK(Judged(h, item.job, item.s)) /\ DeskOK(Onwards(desk[h], again))
    BY <1>0, <2>3, <2>4, AnswersAreOK
  <2> QED BY <1>0, <2>2, <2>5 DEF Answers
<1>6. ASSUME HandBook(h) PROVE Answers
  <2>1. PICK d : d = Onwards(desk[h], <<>>)
    OBVIOUS
  <2>2. <<>> \in Requests
    BY DEF Requests
  <2>3. DeskOK(d)
    BY <1>0, <2>1, <2>2, AnswersAreOK
  <2>4. desk' = [desk EXCEPT ![h] = d] \/ Outdate(h, d)
    BY <1>6, <2>1 DEF HandBook, Disturb
  <2> QED BY <1>0, <2>3, <2>4 DEF Answers
<1>7. ASSUME NEW j \in Jobs, NEW n \in Nozzles, HandNozzle(h, j, n) PROVE Answers
  <2>1. desk' = [desk EXCEPT ![h] = SwapJudged(h, j, n)] /\ n \in Nozzle0
    BY <1>7 DEF HandNozzle, Nozzle0
  <2>2. DeskOK(SwapJudged(h, j, n))
    BY <1>0, <2>1, AnswersAreOK
  <2> QED BY <1>0, <2>1, <2>2 DEF Answers
<1>8. ASSUME NEW ps, HandClear(h, ps) PROVE Answers
  <2>1. \E js : desk' = [desk EXCEPT ![h] = [NoDesk EXCEPT !.at = "clear", !.jobs = js]]
    BY <1>8 DEF HandClear
  <2> QED BY <1>0, <2>1, NoDeskOK DEF Answers
<1> QED BY <1>1, <1>3, <1>4, <1>5, <1>6, <1>7, <1>8

\* So do a pack's.
LEMMA PacksAnswer ==
  ASSUME ShapesOK, ShopOK, PlansOK, NEW r \in Packs,
         \/ \E plan \in floor.plans : StartPack(r, plan)
         \/ ReadPieces(r) \/ ReadPlates(r) \/ ReadMaterials(r) \/ LoadCandidates(r)
         \/ Consider(r) \/ PlanMaterial(r) \/ ReserveMaterial(r)
         \/ PlaceDry(r) \/ SwitchNozzle(r) \/ CheckCommit(r) \/ Commit(r)
         \/ Report(r) \/ ReturnPack(r) \/ Stop(r) \/ LosePack(r)
  PROVE  Answers /\ now' = now
<1>0. r \in Actors /\ DeskOK(desk[r])
  BY DEF Actors, ShopOK
<1>1. now' = now
  BY DEF StartPack, ReadPieces, ReadPlates, ReadBlocks, ReadMaterials, LoadCandidates, Consider, PlanMaterial,
         ReserveMaterial, PlaceDry, SwitchNozzle, CheckCommit, Commit, Report, ReturnPack, Stop, LosePack, Steps
<1>2. ASSUME \/ \E plan \in floor.plans : StartPack(r, plan)
             \/ ReadPieces(r) \/ ReadPlates(r) \/ ReadMaterials(r) \/ LoadCandidates(r)
             \/ Consider(r) \/ PlanMaterial(r) \/ PlaceDry(r) \/ Report(r) \/ ReturnPack(r) \/ Stop(r)
      PROVE  Answers
  BY <1>2 DEF Answers, StartPack, ReadPieces, ReadPlates, ReadBlocks, ReadMaterials, LoadCandidates, Consider,
              PlanMaterial, PlaceDry, Report, ReturnPack, Stop
<1>3. ASSUME LosePack(r) PROVE Answers
  BY <1>0, <1>3, NoDeskOK DEF LosePack, Answers
<1>4. ASSUME ReserveMaterial(r) PROVE Answers
  BY <1>0, <1>4 DEF ReserveMaterial, Answers, Disturb
<1>5. ASSUME Commit(r) PROVE Answers
  BY <1>0, <1>5, NoDeskOK DEF Commit, Answers, Disturb
<1>6. ASSUME pack[r].at \in Choosing
      PROVE /\ Current(pack[r]) \in Jobs /\ pack[r].pick.nozzle \in Nozzle0 /\ pack[r].pick.start \in Int
  <2>1. PackOK(pack[r])
    BY <1>6 DEF PlansOK, Choosing
  <2>2. PICK p : p = pack[r]
    OBVIOUS
  <2> QED BY <1>6, <2>1, <2>2 DEF PackOK, Current
<1>7. ASSUME SwitchNozzle(r) PROVE Answers
  <2>1. PICK j, n : j = Current(pack[r]) /\ n = pack[r].pick.nozzle
    OBVIOUS
  <2>2. n \in Nozzle0
    BY <1>6, <1>7, <2>1 DEF SwitchNozzle, Steps, Choosing
  <2>3. DeskOK(SwapJudged(r, j, n))
    BY <1>0, <2>2, AnswersAreOK
  <2>4. desk' = desk \/ desk' = [desk EXCEPT ![r] = SwapJudged(r, j, n)] \/ Outdate(r, NoDesk)
    BY <1>7, <2>1 DEF SwitchNozzle, Disturb
  <2> QED BY <1>0, <2>3, <2>4, NoDeskOK DEF Answers
<1>8. ASSUME CheckCommit(r) PROVE Answers
  <2>1. PICK j, s : j = Current(pack[r]) /\ s = pack[r].pick.start
    OBVIOUS
  <2>2. j \in Jobs /\ s \in Int
    BY <1>6, <1>8, <2>1 DEF CheckCommit, Steps, Choosing
  <2>3. DeskOK(Judged(r, j, s))
    BY <1>0, <2>2, AnswersAreOK
  <2>4. desk' = desk \/ desk' = [desk EXCEPT ![r] = Judged(r, j, s)]
    BY <1>8, <2>1 DEF CheckCommit
  <2> QED BY <1>0, <2>3, <2>4 DEF Answers
<1> QED BY <1>1, <1>2, <1>3, <1>4, <1>5, <1>7, <1>8

\* A pack begins with the jobs it was asked for, and has read nothing.
LEMMA StartingIsOK ==
  ASSUME floor \in Floors, now \in Int, NEW plan \in floor.plans, NEW items \in {Schedulable, plan.items}
  PROVE  PackOK([at |-> "pieces", plan |-> plan, items |-> items,
                 from |-> now, seen |-> [j \in Jobs |-> NoBlock], cand |-> <<>>, queue |-> <<>>,
                 printerBusy |-> Timelines(Printers), nozzleBusy |-> Timelines(Nozzles),
                 materialBusy |-> Timelines(Materials), pinned |-> Timelines({}),
                 mine |-> {}, auto |-> 0, pick |-> [nozzle |-> None, start |-> 0],
                 placed |-> <<>>, skipped |-> {}])
<1>1. plan \in Plans /\ plan.items \in Seq(Jobs)
  BY PackerAssumption DEF Plans
<1>2. Schedulable \in Seq(Jobs)
  <2> DEFINE found == {j \in Jobs : job[j].status = "ready" /\ job[j].printer # None /\ job[j].e = 0}
  <2>1. PICK S, Before : S = found /\ Before = {x \in S \X S : x[1] < x[2]}
    OBVIOUS
  <2>2. S \in SUBSET Jobs /\ IsFiniteSet(Jobs) /\ Jobs \subseteq Int
    BY <2>1, PackerAssumption
  <2>3. IsFiniteSet(S)
    BY <2>2, FS_Subset
  <2>4. IsStrict(Before, S)
    <3>1. \A x, y : <<x, y>> \in Before <=> x \in S /\ y \in S /\ x < y
      BY <2>1
    <3>2. S \subseteq Int
      BY <2>2
    <3> QED BY <3>1, <3>2 DEF IsStrict
  <2>5. InOrder(S, Before) \in [1 .. Cardinality(S) -> S] /\ Cardinality(S) \in Nat
    BY <2>3, <2>4, InOrderListsAll, FS_CardinalityType DEF Lists
  <2>6. Schedulable = InOrder(S, Before)
    BY <2>1 DEF Schedulable
  <2>7. PICK q, k : q = InOrder(S, Before) /\ k = Cardinality(S)
    OBVIOUS
  <2>8. q \in Seq(Jobs)
    <3>1. q \in [1 .. k -> S] /\ k \in Nat
      BY <2>5, <2>7
    <3>2. q \in [1 .. k -> Jobs]
      BY <2>2, <3>1
    <3> QED BY <3>1, <3>2
  <2> QED BY <2>6, <2>7, <2>8
<1>3. PICK seen, pb, nb, mb, pins, pick :
        /\ seen = [j \in Jobs |-> NoBlock] /\ pb = Timelines(Printers) /\ nb = Timelines(Nozzles)
        /\ mb = Timelines(Materials) /\ pins = Timelines({}) /\ pick = [nozzle |-> None, start |-> 0]
  OBVIOUS
<1>4. <<>> \in Timeline
  BY DEF Timeline
<1>5. pb \in [Printers -> Timeline] /\ nb \in [Nozzles -> Timeline] /\ mb \in [Materials -> Timeline]
  BY <1>3, <1>4 DEF Timelines
<1>6. \A j \in Jobs : seen[j].s \in Int /\ seen[j].e \in Int
  BY <1>3 DEF NoBlock
<1>7. PICK x : x = [at |-> "pieces", plan |-> plan, items |-> items, from |-> now, seen |-> seen, cand |-> <<>>,
                    queue |-> <<>>, printerBusy |-> pb, nozzleBusy |-> nb, materialBusy |-> mb, pinned |-> pins,
                    mine |-> {}, auto |-> 0, pick |-> pick, placed |-> <<>>, skipped |-> {}]
  OBVIOUS
<1>8. IsPack(x)
  BY <1>7 DEF IsPack
<1>9. KeepsTimelines(x)
  BY <1>1, <1>5, <1>7 DEF KeepsTimelines
<1>10. items \in Seq(Jobs)
  BY <1>1, <1>2
<1>11. PackOK(x)
  BY <1>6, <1>7, <1>8, <1>9, <1>10 DEF PackOK, Reading, Loaded, Choosing
<1> QED BY <1>3, <1>7, <1>11

\* It reads the pieces and the plates ...
LEMMA ReadingBlocksIsOK ==
  ASSUME ShopOK, NEW p, PackOK(p), p.at \in Reading, NEW next \in {"plates", "materials"}, NEW plates,
         NEW x, x = [p EXCEPT !.at = next,
                              !.seen = [j \in Jobs |-> IF j \in OnBoard /\ IsBed(j) = plates THEN Block(j)
                                                      ELSE p.seen[j]]]
  PROVE  PackOK(x)
<1>1. PICK seen : seen = [j \in Jobs |-> IF j \in OnBoard /\ IsBed(j) = plates THEN Block(j) ELSE p.seen[j]]
  OBVIOUS
<1>2. x = [p EXCEPT !.at = next, !.seen = seen]
  BY <1>1
<1>3. \A j \in Jobs : seen[j].s \in Int /\ seen[j].e \in Int
  <2>1. \A j \in Jobs : job[j].s \in Int /\ job[j].e \in Int /\ p.seen[j].s \in Int /\ p.seen[j].e \in Int
    BY DEF ShopOK, RowOK, PackOK
  <2>2. \A j : Block(j).s = job[j].s /\ Block(j).e = job[j].e
    BY DEF Block
  <2> QED BY <1>1, <2>1, <2>2
<1>4. /\ IsPack(x) /\ x.at = next /\ x.seen = seen /\ x.items = p.items /\ x.queue = p.queue
      /\ x.placed = p.placed /\ SameKnowledge(p, x)
  BY <1>2 DEF PackOK, IsPack, SameKnowledge
<1>5. KeepsTimelines(x)
  BY <1>4, SameKnowledgeSamePlan DEF PackOK
<1>6. p.placed = <<>> /\ p.items \in Seq(Jobs) /\ p.queue \in Seq(Jobs)
  BY DEF PackOK
<1> QED BY <1>3, <1>4, <1>5, <1>6 DEF PackOK, Reading, Loaded, Choosing

\* ... and what they hold, with which its timelines are complete.
LEMMA ReadingMaterialsIsOK ==
  ASSUME NEW r \in Packs, pack = [q \in Packs |-> pack[q]], PackOK(pack[r]), ReadMaterials(r)
  PROVE  \E x : pack' = [pack EXCEPT ![r] = x] /\ PackOK(x)
<1>0. PICK p, seen, held : p = pack[r] /\ seen = p.seen /\ held = {j \in Jobs : seen[j].on}
  OBVIOUS
<1>1. ASSUME NEW js, js \subseteq held PROVE SeenWindows(seen, js) \in Timeline
  <2>1. js \in SUBSET Jobs /\ IsFiniteSet(Jobs)
    BY <1>0, <1>1, PackerAssumption
  <2>2. IsFiniteSet(js)
    BY <2>1, FS_Subset
  <2>3. \A j \in js : seen[j].s \in Int /\ seen[j].e \in Int
    BY <1>0, <2>1 DEF PackOK
  <2> QED BY <2>2, <2>3, SeenInOrder
<1>2. PICK pb, nb, mb :
        /\ pb = [y \in Printers |-> SeenWindows(seen, {j \in held : seen[j].printer = y})]
        /\ nb = [y \in Nozzles |-> SeenWindows(seen, {j \in held : seen[j].nozzle = y})]
        /\ mb = [y \in Materials |-> SeenWindows(seen, {j \in held : y \in MaterialsOf(j)})]
  OBVIOUS
<1>3. pb \in [Printers -> Timeline] /\ nb \in [Nozzles -> Timeline] /\ mb \in [Materials -> Timeline]
  BY <1>1, <1>2
<1>4. PICK x : x = [p EXCEPT !.at = "candidates", !.printerBusy = pb, !.nozzleBusy = nb, !.materialBusy = mb]
  OBVIOUS
<1>5. /\ IsPack(x) /\ x.at = "candidates" /\ x.seen = p.seen /\ x.items = p.items /\ x.queue = p.queue
      /\ x.placed = p.placed /\ x.plan = p.plan /\ x.from = p.from /\ x.mine = p.mine
      /\ x.printerBusy = pb /\ x.nozzleBusy = nb /\ x.materialBusy = mb
  BY <1>0, <1>4 DEF PackOK, IsPack
<1>6. p.placed = <<>> /\ KeepsTimelines(p) /\ PackOK(p)
  BY <1>0 DEF PackOK, ReadMaterials, Reading
<1>7. KeepsTimelines(x)
  BY <1>3, <1>5, <1>6 DEF KeepsTimelines
<1>8. PackOK(x)
  BY <1>5, <1>6, <1>7 DEF PackOK, Reading, Loaded, Choosing
<1>9. pack' = [pack EXCEPT ![r] = x]
  BY <1>0, <1>2, <1>4 DEF ReadMaterials
<1> QED BY <1>8, <1>9

\* It loads its candidates, in the order in which it will place them.
LEMMA LoadingIsOK ==
  ASSUME ShopOK, NEW r \in Packs, pack = [q \in Packs |-> pack[q]], PackOK(pack[r]), LoadCandidates(r)
  PROVE  \E x : pack' = [pack EXCEPT ![r] = x] /\ PackOK(x)
<1> DEFINE p == pack[r]
           item(i) == [id |-> p.items[i], due |-> Fact(p.items[i]).due, place |-> i,
                       dur |-> Fact(p.items[i]).len,
                       setup |-> SetupKey(p.items[i], job[p.items[i]].printer)]
           items == {item(i) : i \in DOMAIN p.items}
           order == IF p.plan.policy = "minimise_changes" THEN ForFewestSetups(items, p.from)
                    ELSE BySlack(items, p.from)
           queue == [i \in DOMAIN order |-> order[i].id]
           cand == [j \in Jobs |-> [row |-> job[j], mats |-> MaterialsOf(j)]]
<1>2. pack' = [pack EXCEPT ![r].at = "next", ![r].queue = queue, ![r].cand = cand]
  BY DEF LoadCandidates
<1>3. PackOK(p)
  OBVIOUS
<1> HIDE DEF p
<1>4. PICK n \in Nat : n = Len(p.items) /\ DOMAIN p.items = 1 .. n
  BY <1>3 DEF PackOK
<1>5. ASSUME NEW i \in 1 .. n PROVE item(i) \in Item
  <2>1. PICK j \in Jobs : j = p.items[i]
    BY <1>3, <1>4 DEF PackOK
  <2>2. Fact(j).due \in Int /\ Fact(j).len \in Int /\ Fact(j).need.dia \in Int /\ Fact(j).need.mat \in Int
    BY FactsAre DEF ShopOK
  <2>3. job[j].printer \in Int
    <3>1. job[j].printer \in Printers \cup {None}
      BY DEF ShopOK, RowOK, Printer0
    <3>2. Printers \subseteq Int
      BY PackerAssumption
    <3> QED BY <3>1, <3>2 DEF None
  <2>4. SetupKey(j, job[j].printer) \in Int
    BY <2>2, <2>3 DEF SetupKey
  <2>5. PICK y : y = [id |-> j, due |-> Fact(j).due, place |-> i, dur |-> Fact(j).len,
                      setup |-> SetupKey(j, job[j].printer)]
    OBVIOUS
  <2>6. y \in Item
    BY <2>2, <2>4, <2>5 DEF Item
  <2> QED BY <2>1, <2>5, <2>6
<1>6. items \in SUBSET Item /\ IsFiniteSet(items)
  <2>1. PICK q : q = [i \in 1 .. n |-> item(i)]
    OBVIOUS
  <2>2. IsFiniteSet({q[i] : i \in 1 .. n})
    BY <2>1, FinitelyMany
  <2> HIDE DEF item
  <2>3. items = {q[i] : i \in 1 .. n}
    BY <1>4, <2>1
  <2> QED BY <1>4, <1>5, <2>2, <2>3
<1> HIDE DEF item, items
<1>7. order \in [1 .. Cardinality(items) -> items] /\ Cardinality(items) \in Nat
  <2>1. p.from \in Int
    BY <1>3 DEF PackOK, KeepsTimelines
  <2> QED BY <1>6, <2>1, OrdersList, FS_CardinalityType
<1> HIDE DEF order
<1>8. queue \in Seq(Jobs)
  <2>1. PICK k \in Nat : k = Cardinality(items)
    BY <1>7
  <2>2. order \in [1 .. k -> Item]
    BY <1>6, <1>7, <2>1
  <2>3. \A i \in 1 .. k : order[i].id \in Jobs
    BY <2>2 DEF Item
  <2> QED BY <2>2, <2>3
<1>9. \A j \in Jobs : /\ cand[j].row.printer \in Printer0 /\ cand[j].row.nozzle \in Nozzle0
                      /\ cand[j].mats \in SUBSET Materials
  BY FactsAre DEF ShopOK, RowOK
<1> HIDE DEF queue, cand
<1>10. PICK x : x = [p EXCEPT !.at = "next", !.queue = queue, !.cand = cand]
  OBVIOUS
<1>11. pack' = [pack EXCEPT ![r] = x]
  BY <1>2, <1>10 DEF p
<1>12. /\ IsPack(x) /\ x.at = "next" /\ x.queue = queue /\ x.cand = cand /\ x.seen = p.seen /\ x.items = p.items
       /\ x.placed = p.placed /\ x.plan = p.plan /\ x.from = p.from /\ x.mine = p.mine
       /\ x.printerBusy = p.printerBusy /\ x.nozzleBusy = p.nozzleBusy /\ x.materialBusy = p.materialBusy
  BY <1>3, <1>10 DEF PackOK, IsPack
<1>13. KeepsTimelines(x)
  BY <1>3, <1>12 DEF PackOK, KeepsTimelines, OnItsTimelines
<1>14. PackOK(x)
  BY <1>3, <1>8, <1>9, <1>12, <1>13 DEF PackOK, Reading, Loaded, Choosing
<1> QED BY <1>11, <1>14

\* A pack that differs only in its stage, its count and what it will report.
LEMMA MovingOnIsOK ==
  ASSUME NEW p, NEW x, PackOK(p), IsPack(x), SameKnowledge(p, x), x.items = p.items, x.seen = p.seen, x.pick = p.pick,
         \/ x.queue = p.queue /\ (x.at = p.at \/ x.at = "done" \/ (p.at = "switch" /\ x.at = "commit"))
         \/ x.queue = <<>> /\ p.at = "next" /\ x.at = "next"
  PROVE  PackOK(x)
<1>1. KeepsTimelines(x) /\ x.queue \in Seq(Jobs) /\ x.cand = p.cand /\ x.placed = p.placed
  <2>1. KeepsTimelines(x)
    BY SameKnowledgeSamePlan DEF PackOK
  <2>2. p.queue \in Seq(Jobs) /\ <<>> \in Seq(Jobs)
    BY DEF PackOK
  <2> QED BY <2>1, <2>2 DEF SameKnowledge
<1>2. x.at \in Loaded => p.at \in Loaded
  BY DEF Loaded
<1>3. ASSUME x.at \in Choosing PROVE x.queue = p.queue /\ p.at \in Choosing /\ WellPlaced(x)
  <2>1. x.queue = p.queue /\ p.at \in Choosing
    BY <1>3 DEF Choosing
  <2>2. WellPlaced(p)
    BY <2>1 DEF PackOK
  <2>3. PICK j : j = Current(p) /\ j = Current(x)
    BY <2>1 DEF Current
  <2>4. \A n : ListsOf(x, j, n) = ListsOf(p, j, n)
    BY DEF ListsOf, SameKnowledge
  <2>5. \A n : BlocksFor(x, j, n) = BlocksFor(p, j, n)
    BY <2>4 DEF BlocksFor, SameKnowledge
  <2>6. \A n, t : ClearAt(x, j, n, t) <=> ClearAt(p, j, n, t)
    BY <2>5 DEF ClearAt, SameKnowledge
  <2>7. RosterOf(x, j) = RosterOf(p, j)
    BY SameKnowledgeSamePlan
  <2>8. x.plan = p.plan /\ x.from = p.from /\ x.cand = p.cand
    BY DEF SameKnowledge
  <2> QED BY <2>1, <2>2, <2>3, <2>6, <2>7, <2>8 DEF WellPlaced
<1>4. x.at \in Reading => p.at \in Reading
  BY DEF Reading
<1> QED BY <1>1, <1>2, <1>3, <1>4 DEF PackOK

\* What a step does to the packs.
PlanMoves(r) == \E x : pack' = [pack EXCEPT ![r] = x] /\ (x.at = "idle" \/ PackOK(x))

\* A pack reads the board, reports, stops or is lost.
LEMMA PacksReadOn ==
  ASSUME BoardInv, ShopOK, PlansOK, NEW r \in Packs,
         \/ \E plan \in floor.plans : StartPack(r, plan)
         \/ ReadPieces(r) \/ ReadPlates(r) \/ ReadMaterials(r) \/ LoadCandidates(r)
         \/ Report(r) \/ ReturnPack(r) \/ Stop(r) \/ LosePack(r)
  PROVE  PlanMoves(r)
<1>0. pack = [q \in Packs |-> pack[q]] /\ floor \in Floors /\ now \in Int
  BY DEF BoardInv, ShapesOK, ShopOK
<1>1. ASSUME NEW plan \in floor.plans, StartPack(r, plan) PROVE PlanMoves(r)
  <2>1. PICK items \in {Schedulable, plan.items} :
          pack' = [pack EXCEPT ![r] =
                [at |-> "pieces", plan |-> plan, items |-> items,
                 from |-> now, seen |-> [j \in Jobs |-> NoBlock], cand |-> <<>>, queue |-> <<>>,
                 printerBusy |-> Timelines(Printers), nozzleBusy |-> Timelines(Nozzles),
                 materialBusy |-> Timelines(Materials), pinned |-> Timelines({}),
                 mine |-> {}, auto |-> 0, pick |-> [nozzle |-> None, start |-> 0],
                 placed |-> <<>>, skipped |-> {}]]
    BY <1>1 DEF StartPack
  <2> QED BY <1>0, <2>1, StartingIsOK DEF PlanMoves
<1>2. ASSUME pack[r].at # "idle" PROVE PackOK(pack[r])
  BY <1>2 DEF PlansOK
<1>3. ASSUME NEW at \in Reading, NEW plates, NEW next \in {"plates", "materials"}, ReadBlocks(r, at, plates, next)
      PROVE  PlanMoves(r)
  <2>1. PICK p : p = pack[r]
    OBVIOUS
  <2>2. p.at \in Reading /\ PackOK(p)
    BY <1>2, <1>3, <2>1 DEF ReadBlocks, Reading
  <2>3. PICK x : x = [p EXCEPT !.at = next,
                               !.seen = [j \in Jobs |-> IF j \in OnBoard /\ IsBed(j) = plates THEN Block(j)
                                                       ELSE p.seen[j]]]
    OBVIOUS
  <2>4. pack' = [pack EXCEPT ![r] =
         [pack[r] EXCEPT !.at = next,
                         !.seen = [j \in Jobs |-> IF j \in OnBoard /\ IsBed(j) = plates THEN Block(j)
                                                 ELSE pack[r].seen[j]]]]
    BY <1>3 DEF ReadBlocks
  <2>5. PackOK(x)
    BY <2>2, <2>3, ReadingBlocksIsOK
  <2> QED BY <2>1, <2>3, <2>4, <2>5 DEF PlanMoves
<1>4. ASSUME ReadMaterials(r) PROVE PlanMoves(r)
  <2>1. PackOK(pack[r])
    BY <1>2, <1>4 DEF ReadMaterials
  <2> QED BY <1>0, <1>4, <2>1, ReadingMaterialsIsOK DEF PlanMoves
<1>5. ASSUME LoadCandidates(r) PROVE PlanMoves(r)
  <2>1. PackOK(pack[r])
    BY <1>2, <1>5 DEF LoadCandidates
  <2> QED BY <1>0, <1>5, <2>1, LoadingIsOK DEF PlanMoves
<1>6. ASSUME NEW p, p = pack[r], PackOK(p), NEW at, NEW queue, NEW out, NEW x,
             x = [p EXCEPT !.at = at, !.queue = queue, !.skipped = out],
             \/ queue = p.queue /\ (at = p.at \/ at = "done")
             \/ queue = <<>> /\ p.at = "next" /\ at = "next"
      PROVE  PackOK(x)
  <2>1. IsPack(p)
    BY <1>6 DEF PackOK
  <2>2. /\ IsPack(x) /\ SameKnowledge(p, x) /\ x.items = p.items /\ x.seen = p.seen /\ x.pick = p.pick
        /\ x.at = at /\ x.queue = queue
    BY <1>6, <2>1 DEF IsPack, SameKnowledge
  <2> QED BY <1>6, <2>2, MovingOnIsOK
<1>7. ASSUME Report(r) PROVE PlanMoves(r)
  <2>1. PICK p, x : p = pack[r] /\ x = [p EXCEPT !.at = "done", !.queue = p.queue, !.skipped = p.skipped]
    OBVIOUS
  <2>2. PackOK(p)
    BY <1>2, <1>7, <2>1 DEF Report, Steps
  <2>3. PackOK(x)
    BY <1>6, <2>1, <2>2
  <2>4. pack' = [pack EXCEPT ![r] = [p EXCEPT !.at = "done"]]
    BY <1>0, <1>7, <2>1 DEF Report
  <2>5. x = [p EXCEPT !.at = "done"]
    BY <2>1, <2>2 DEF PackOK, IsPack
  <2> QED BY <2>3, <2>4, <2>5 DEF PlanMoves
<1>8. ASSUME Stop(r) PROVE PlanMoves(r)
  <2>1. PICK p, out, x : /\ p = pack[r] /\ out = p.skipped \cup ToSet(p.queue)
                         /\ x = [p EXCEPT !.at = "next", !.queue = <<>>, !.skipped = out]
    OBVIOUS
  <2>2. PackOK(p) /\ p.at = "next"
    BY <1>2, <1>8, <2>1 DEF Stop, Steps
  <2>3. PackOK(x)
    BY <1>6, <2>1, <2>2
  <2>4. pack' = [pack EXCEPT ![r] = [p EXCEPT !.queue = <<>>, !.skipped = out]]
    BY <1>0, <1>8, <2>1 DEF Stop
  <2>5. x = [p EXCEPT !.queue = <<>>, !.skipped = out]
    <3>1. IsPack(p)
      BY <2>2 DEF PackOK
    <3>2. PICK empty : empty = <<>>
      OBVIOUS
    <3>3. x = [p EXCEPT !.at = "next", !.queue = empty, !.skipped = out]
      BY <2>1, <3>2
    <3>4. x = [p EXCEPT !.queue = empty, !.skipped = out]
      BY <2>2, <3>1, <3>3 DEF IsPack
    <3> QED BY <3>2, <3>4
  <2> QED BY <2>3, <2>4, <2>5 DEF PlanMoves
<1>9. ASSUME ReturnPack(r) \/ LosePack(r) PROVE PlanMoves(r)
  <2>1. pack' = [pack EXCEPT ![r] = NoPack] /\ NoPack.at = "idle"
    BY <1>9 DEF ReturnPack, LosePack, NoPack
  <2> QED BY <2>1 DEF PlanMoves
<1>10. ReadPieces(r) \/ ReadPlates(r) => PlanMoves(r)
  BY <1>3 DEF ReadPieces, ReadPlates, Reading
<1> QED BY <1>1, <1>4, <1>5, <1>7, <1>8, <1>9, <1>10

\* It chooses a start for a job, and commits it or gives it up.
LEMMA PacksPlaceOn ==
  ASSUME BoardInv, ShopOK, PlansOK, NEW r \in Packs,
         \/ Consider(r) \/ PlanMaterial(r) \/ ReserveMaterial(r)
         \/ PlaceDry(r) \/ SwitchNozzle(r) \/ CheckCommit(r) \/ Commit(r)
  PROVE  PlanMoves(r)
<1>0. pack = [q \in Packs |-> pack[q]] /\ floor \in Floors /\ DeskOK(desk[r])
  BY DEF BoardInv, ShapesOK, ShopOK, Actors
<1>1. PICK p : p = pack[r]
  OBVIOUS
<1>2. PackOK(p) /\ IsPack(p) /\ p.at \in Loaded
  BY <1>1 DEF PlansOK, PackOK, Consider, PlanMaterial, ReserveMaterial, PlaceDry, SwitchNozzle, CheckCommit, Commit,
         Steps, Loaded
<1>3. pack = [pack EXCEPT ![r] = p]
  BY <1>0, <1>1
<1>4. p.queue # <<>>
  BY <1>1, <1>2 DEF PackOK, Choosing, Consider, PlanMaterial, ReserveMaterial, Unreserved, PlaceDry, SwitchNozzle,
         CheckCommit, Commit, Steps
<1>5. PackOK(Skipped(p))
  BY <1>2, <1>4, SkippingIsOK
<1>6. PICK j : j = Current(p)
  OBVIOUS
<1>7. j \in Jobs
  BY <1>2, <1>4, <1>6 DEF PackOK, Current
<1>8. CASE Consider(r)
  <2>1. p.at = "next"
    BY <1>1, <1>8 DEF Consider, Steps
  <2>2. PICK mats : mats = p.cand[j].mats
    OBVIOUS
  <2>3. mats \in SUBSET Materials
    BY <1>2, <1>7, <2>2 DEF PackOK
  <2>4. \/ pack' = [pack EXCEPT ![r] = Skipped(p)]
        \/ ~NotPackable(p, j) /\ pack' = [pack EXCEPT ![r] = Choose(p, j, mats)]
    BY <1>1, <1>6, <1>8, <2>2 DEF Consider
  <2>5. ~NotPackable(p, j) => PackOK(Choose(p, j, mats))
    BY <1>0, <1>2, <1>4, <1>6, <2>1, <2>3, ChoosingIsOK
  <2> QED BY <1>5, <2>4, <2>5 DEF PlanMoves
<1>9. PICK q : q = [p EXCEPT !.auto = @ + 1]
  OBVIOUS
<1>10. ASSUME p.at = "next", ~NotPackable(p, j), NEW mats \in SUBSET Materials PROVE PackOK(Choose(q, j, mats))
  <2>1. /\ IsPack(q) /\ SameKnowledge(p, q) /\ q.items = p.items /\ q.seen = p.seen /\ q.pick = p.pick
        /\ q.at = p.at /\ q.queue = p.queue
    BY <1>2, <1>9 DEF IsPack, SameKnowledge
  <2>2. PackOK(q)
    BY <1>2, <2>1, MovingOnIsOK
  <2>3. j = Current(q) /\ ~NotPackable(q, j)
    BY <1>6, <1>10, <2>1 DEF Current, NotPackable, SameKnowledge
  <2> QED BY <1>0, <1>4, <1>10, <2>1, <2>2, <2>3, ChoosingIsOK
<1>11. CASE PlanMaterial(r)
  <2>1. PICK mats : mats = PlannedSpools(j)
    OBVIOUS
  <2>2. mats \in SUBSET Materials
    BY <2>1 DEF Materials, PlannedSpools
  <2>3. /\ p.at = "next" /\ ~NotPackable(p, j)
        /\ \/ pack' = [pack EXCEPT ![r] = Skipped(p)]
           \/ pack' = [pack EXCEPT ![r] = Choose(q, j, mats)]
    BY <1>1, <1>6, <1>9, <1>11, <2>1 DEF PlanMaterial, Steps, Unreserved
  <2> QED BY <1>5, <1>10, <2>2, <2>3 DEF PlanMoves
<1>12. CASE ReserveMaterial(r)
  <2>1. PICK take, mats : take = AutoTake(j) /\ mats = {s \in Spools : take[s] > 0}
    OBVIOUS
  <2>2. mats \in SUBSET Materials
    BY <2>1 DEF Materials
  <2>3. /\ p.at = "next" /\ ~NotPackable(p, j)
        /\ \/ pack' = [pack EXCEPT ![r] = Skipped(p)]
           \/ pack' = [pack EXCEPT ![r] = Choose(q, j, mats)]
    BY <1>1, <1>6, <1>9, <1>12, <2>1 DEF ReserveMaterial, Steps, Unreserved
  <2> QED BY <1>5, <1>10, <2>2, <2>3 DEF PlanMoves
<1>13. ASSUME p.at \in Choosing, NEW n \in Nozzle0 PROVE PackOK(Placed(p, j, n))
  BY <1>0, <1>2, <1>6, <1>13, PlacingIsOK
<1>14. p.at \in Choosing => p.pick.nozzle \in Nozzle0
  BY <1>2 DEF PackOK
<1>15. CASE PlaceDry(r)
  <2>1. p.at \in Choosing /\ pack' = [pack EXCEPT ![r] = Placed(p, j, p.pick.nozzle)]
    BY <1>1, <1>6, <1>15 DEF PlaceDry, Steps, Choosing
  <2> QED BY <1>13, <1>14, <2>1 DEF PlanMoves
<1>16. CASE SwitchNozzle(r)
  <2>1. PICK x : x = [p EXCEPT !.at = "commit"]
    OBVIOUS
  <2>2. p.at = "switch"
    BY <1>1, <1>16 DEF SwitchNozzle, Steps
  <2>3. /\ IsPack(x) /\ SameKnowledge(p, x) /\ x.items = p.items /\ x.seen = p.seen /\ x.pick = p.pick
        /\ x.at = "commit" /\ x.queue = p.queue
    BY <1>2, <2>1 DEF IsPack, SameKnowledge
  <2>4. PackOK(x)
    BY <1>2, <2>2, <2>3, MovingOnIsOK
  <2>5. \/ pack' = [pack EXCEPT ![r] = Skipped(p)]
        \/ pack' = pack
        \/ pack' = [pack EXCEPT ![r] = x]
    BY <1>0, <1>1, <1>16, <2>1 DEF SwitchNozzle
  <2> QED BY <1>2, <1>3, <1>5, <2>4, <2>5 DEF PlanMoves
<1>17. CASE CheckCommit(r)
  <2>1. pack' = [pack EXCEPT ![r] = Skipped(p)] \/ pack' = pack
    BY <1>1, <1>17 DEF CheckCommit
  <2> QED BY <1>2, <1>3, <1>5, <2>1 DEF PlanMoves
<1>18. CASE Commit(r)
  <2>1. PICK n : n = NozzleAdopted(r)
    OBVIOUS
  <2>2. p.at \in Choosing
    BY <1>1, <1>18 DEF Commit, Steps, Choosing
  <2>3. n \in Nozzle0
    BY <1>0, <1>1, <1>14, <2>1, <2>2 DEF NozzleAdopted, DeskOK
  <2>4. pack' = [pack EXCEPT ![r] = Placed(p, j, n)] \/ pack' = [pack EXCEPT ![r] = Skipped(p)]
    BY <1>1, <1>6, <1>18, <2>1 DEF Commit
  <2> QED BY <1>5, <1>13, <2>2, <2>3, <2>4 DEF PlanMoves
<1> QED BY <1>8, <1>11, <1>12, <1>15, <1>16, <1>17, <1>18

\* What a plan knows of its shop does not move.
LEMMA PlansLast ==
  ASSUME floor' = floor, NEW x
  PROVE  PackOK(x) => PackOK(x)'
<1>1. /\ \A j : Fact(j)' = Fact(j)
      /\ \A p : Options(p)' = Options(p)
      /\ Kind' = Kind
  BY DEF Fact, Options, Kind
<1>2. KeepsTimelines(x) => KeepsTimelines(x)'
  BY <1>1 DEF KeepsTimelines, OnItsTimelines
<1>3. WellPlaced(x) => WellPlaced(x)'
  <2>1. \A j : RosterOf(x, j)' = RosterOf(x, j)
    BY <1>1 DEF RosterOf
  <2>2. \A j, n : BlocksFor(x, j, n)' = BlocksFor(x, j, n)
    BY <1>1 DEF BlocksFor, ListsOf
  <2>3. \A j, n, t : ClearAt(x, j, n, t)' <=> ClearAt(x, j, n, t)
    BY <1>1, <2>2 DEF ClearAt
  <2> QED BY <2>1, <2>3 DEF WellPlaced, Current
<1> QED BY <1>2, <1>3 DEF PackOK, IsPack

\* The invariant is kept and holds at first.
LEMMA PlanKept == ASSUME PlanInv, [PackerNext]_packerVars PROVE PlanInv'
<1>0. BoardInv /\ ShopOK /\ PlansOK /\ ShapesOK /\ PacksWriteInTurn
  BY DEF PlanInv, BoardInv
<1>1. BoardInv' /\ Kinds /\ floor' = floor
  BY <1>0, BoardKept, KindsOfSteps DEF NextInTurn
<1>2. /\ Answers /\ now' \in Int
      /\ pack' = pack \/ \E r \in Packs : PlanMoves(r)
  <2>1. CASE UNCHANGED packerVars \/ Tick
    BY <1>0, <2>1 DEF packerVars, Tick, Answers, ShopOK
  <2>2. CASE PackNext \/ PackEnds
    BY <1>0, <2>2, PacksAnswer, PacksReadOn, PacksPlaceOn DEF PackNext, PackEnds, ShopOK
  <2>3. CASE HandNext \/ EquipNext \/ ClearNext \/ ShopNext
    BY <1>0, <2>3, HandsAnswer DEF HandNext, EquipNext, ClearNext, ShopNext, ShopOK
  <2> QED BY <2>1, <2>2, <2>3 DEF PackerNext
<1>3. ShopOK'
  <2>1. \A j \in Jobs : RowOK(job'[j])
    BY <1>0, <1>1, RowsStayOK
  <2>2. \A a \in Actors : DeskOK(desk'[a])
    BY <1>0, <1>2, DesksStayOK
  <2> QED BY <1>0, <1>1, <1>2, <2>1, <2>2 DEF ShopOK, RowOK, DeskOK
<1>4. PlansOK'
  <2> SUFFICES ASSUME NEW r \in Packs, NEW x, x = pack'[r], x.at # "idle" PROVE PackOK(x)'
    BY DEF PlansOK
  <2>1. PackOK(x)
    <3>1. pack = [q \in Packs |-> pack[q]] /\ (pack[r].at # "idle" => PackOK(pack[r]))
      BY <1>0 DEF ShapesOK, PlansOK
    <3>2. CASE pack' = pack
      BY <3>1, <3>2
    <3>3. ASSUME NEW q \in Packs, PlanMoves(q) PROVE PackOK(x)
      <4>1. PICK y : pack' = [pack EXCEPT ![q] = y] /\ (y.at = "idle" \/ PackOK(y))
        BY <3>3 DEF PlanMoves
      <4> QED BY <3>1, <4>1
    <3> QED BY <1>2, <3>2, <3>3
  <2> QED BY <1>1, <2>1, PlansLast
<1> QED BY <1>1, <1>3, <1>4 DEF PlanInv

LEMMA PlanStarts == ASSUME PackerInit PROVE PlanInv
<1>1. floor \in Floors /\ floor.board \in [Jobs -> JobRow] /\ now = 0 /\ desk = [a \in Actors |-> NoDesk]
  BY PackerAssumption DEF PackerInit
<1>2. \A j \in Jobs : RowOK(job[j])
  BY <1>1 DEF PackerInit, JobRow, RowOK, Printer0, Nozzle0
<1>3. ShopOK
  <2>1. \A a \in Actors : DeskOK(desk[a])
    BY <1>1, NoDeskOK
  <2> QED BY <1>1, <1>2, <2>1 DEF ShopOK
<1>4. PlansOK
  BY DEF PackerInit, PlansOK, NoPack
<1> QED BY <1>3, <1>4, BoardStarts DEF PlanInv

(* A pack that has found a job its nozzle and start -- and has still to switch
   and to commit -- keeps the turnaround from all it read and all it placed,
   starts in working hours, and could not have started earlier there, nor, when
   it looks for the earliest start, on any nozzle that would do.  What others do
   to the board meanwhile changes neither what it knows nor what it chose. *)
THEOREM PlacesAtTheEarliest == PackerSpec => []PlacedAtTheEarliest
<1>1. PackerInit => PlanInv
  BY PlanStarts
<1>2. PlanInv /\ [PackerNext]_packerVars => PlanInv'
  BY PlanKept
<1>3. PlanInv => PlacedAtTheEarliest
  BY DEF PlanInv, PlansOK, PackOK, Choosing, WellPlaced, PlacedAtTheEarliest
<1> QED BY <1>1, <1>2, <1>3, PTL DEF PackerSpec

-----------------------------------------------------------------------------
(* The nozzle pool, nozzle-pool.ts: what its recursions compute. *)

\* A recursion along 1 .. N, each value from the one before.
GoesAlong(N, V, next) == \A n \in 2 .. N : \A v \in V : next[<<n, v>>] \in V
Follows(f, N, V, first, next) ==
  /\ f \in [1 .. N -> V]
  /\ \A n \in 1 .. N : f[n] = IF n = 1 THEN first ELSE next[<<n, f[n - 1]>>]

LEMMA PrefixRecursion ==
  ASSUME NEW N \in Nat, NEW V, NEW first \in V, NEW next, GoesAlong(N, V, next)
  PROVE  \E f : Follows(f, N, V, first, next)
<1> DEFINE Good(m, f) == /\ f \in [1 .. m -> V]
                         /\ \A n \in 1 .. m : f[n] = IF n = 1 THEN first ELSE next[<<n, f[n - 1]>>]
           Bad == {m \in 0 .. N : \A f : ~Good(m, f)}
<1> SUFFICES ASSUME Bad # {} PROVE FALSE
  <2>1. N \notin Bad => \E f : Good(N, f)
    BY N \in 0 .. N
  <2> QED BY <2>1 DEF Follows
<1>1. PICK m \in Bad : \A y \in Bad : m <= y
  <2>1. Bad \subseteq Nat
    OBVIOUS
  <2> HIDE DEF Bad
  <2> QED BY <2>1, LeastNatural
<1>2. m \in 0 .. N /\ \A f : ~Good(m, f)
  OBVIOUS
<1>3. m # 0
  <2>1. Good(0, [n \in 1 .. 0 |-> first])
    OBVIOUS
  <2> HIDE DEF Good
  <2> QED BY <1>2, <2>1
<1>4. PICK f : Good(m - 1, f)
  <2>1. m - 1 \in 0 .. N /\ ~(m <= m - 1)
    BY <1>2, <1>3
  <2>2. m - 1 \notin Bad
    <3> HIDE DEF Bad
    <3> QED BY <1>1, <2>1
  <2> HIDE DEF Good
  <2> QED BY <2>1, <2>2
<1> DEFINE g == [n \in 1 .. m |-> IF n < m THEN f[n] ELSE IF m = 1 THEN first ELSE next[<<m, f[m - 1]>>]]
<1>5. m \in 1 .. N /\ f \in [1 .. m - 1 -> V]
      /\ \A n \in 1 .. m - 1 : f[n] = IF n = 1 THEN first ELSE next[<<n, f[n - 1]>>]
  BY <1>2, <1>3, <1>4
<1>6. g \in [1 .. m -> V]
  <2>1. ASSUME NEW n \in 1 .. m PROVE g[n] \in V
    <3>1. CASE n < m
      BY <1>5, <3>1
    <3>2. CASE ~(n < m) /\ m = 1
      BY <1>5, <3>2
    <3>3. CASE ~(n < m) /\ m # 1
      <4>1. m - 1 \in 1 .. m - 1 /\ m \in 2 .. N
        BY <1>5, <3>3
      <4> QED BY <1>5, <3>3, <4>1 DEF GoesAlong
    <3> QED BY <3>1, <3>2, <3>3
  <2> QED BY <2>1
<1>7. ASSUME NEW n \in 1 .. m PROVE g[n] = IF n = 1 THEN first ELSE next[<<n, g[n - 1]>>]
  <2>0. n = 1 \/ (n - 1 \in 1 .. m /\ n - 1 < m)
    BY <1>5
  <2>1. n = 1 \/ g[n - 1] = f[n - 1]
    BY <2>0
  <2>2. CASE n < m
    <3>1. g[n] = f[n] /\ n \in 1 .. m - 1
      BY <1>5, <2>2
    <3> HIDE DEF g
    <3> QED BY <1>5, <2>1, <3>1
  <2>3. CASE n = m
    <3>1. g[n] = IF m = 1 THEN first ELSE next[<<m, f[m - 1]>>]
      BY <2>3
    <3> HIDE DEF g
    <3> QED BY <2>1, <2>3, <3>1
  <2> QED BY <1>5, <2>2, <2>3
<1>8. Good(m, g)
  <2> HIDE DEF g
  <2> QED BY <1>6, <1>7
<1> HIDE DEF Good
<1> QED BY <1>2, <1>8

\* No interval of the list reaches a later one.
Apart(l) == \A i, k \in DOMAIN l : i < k => l[i].e < l[k].s

CoveredBy(l, t) == \E i \in DOMAIN l : Covers(l[i], t)

\* An interval behind the others, put at the end.
LEMMA Appending ==
  ASSUME NEW l \in Seq(Interval), NEW iv \in Interval
  PROVE  /\ Append(l, iv) \in Seq(Interval) \ {<<>>} /\ Last(Append(l, iv)) = iv
         /\ \A i \in DOMAIN Append(l, iv) : (i \in DOMAIN l /\ Append(l, iv)[i] = l[i]) \/ Append(l, iv)[i] = iv
         /\ Apart(l) /\ (\A i \in DOMAIN l : l[i].e < iv.s) => Apart(Append(l, iv))
         /\ \A t : CoveredBy(Append(l, iv), t) <=> CoveredBy(l, t) \/ Covers(iv, t)
<1>0. PICK n \in Nat : n = Len(l)
  BY LenProperties
<1>1. PICK j : n = Len(l) /\ j = Append(l, iv)
  BY <1>0
<1>2. /\ j \in Seq(Interval) /\ Len(j) = n + 1 /\ j[n + 1] = iv
      /\ \A i \in 1 .. n : j[i] = l[i]
  BY <1>1, AppendProperties
<1>3. DOMAIN j = 1 .. n + 1 /\ Last(j) = iv /\ j # <<>> /\ DOMAIN l = 1 .. n
  BY <1>1, <1>2, LenProperties DEF Last
<1>4. /\ \A i \in 1 .. n + 1 : i \in 1 .. n \/ i = n + 1
      /\ \A i \in 1 .. n : i \in 1 .. n + 1
      /\ n + 1 \in 1 .. n + 1
  OBVIOUS
<1>5. ASSUME Apart(l), \A i \in DOMAIN l : l[i].e < iv.s PROVE Apart(j)
  <2> SUFFICES ASSUME NEW i \in 1 .. n + 1, NEW k \in 1 .. n + 1, i < k PROVE j[i].e < j[k].s
    BY <1>3 DEF Apart
  <2>1. CASE k = n + 1
    <3>1. i \in 1 .. n
      BY <2>1
    <3> QED BY <1>2, <1>3, <1>5, <2>1, <3>1
  <2>2. CASE k # n + 1
    <3>1. i \in 1 .. n /\ k \in 1 .. n
      BY <2>2
    <3> QED BY <1>2, <1>3, <1>5, <3>1 DEF Apart
  <2> QED BY <2>1, <2>2
<1>6. ASSUME NEW t PROVE CoveredBy(j, t) <=> CoveredBy(l, t) \/ Covers(iv, t)
  BY <1>2, <1>3, <1>4 DEF CoveredBy
<1> QED BY <1>1, <1>2, <1>3, <1>4, <1>5, <1>6

\* The next interval by start joins the last one or comes behind it.
LEMMA Joining ==
  ASSUME NEW l \in Seq(Interval) \ {<<>>}, NEW iv \in Interval
  PROVE  /\ Joined(l, iv) \in Seq(Interval) \ {<<>>}
         /\ Apart(l) /\ Last(l).s <= iv.s =>
              /\ Apart(Joined(l, iv)) /\ Last(Joined(l, iv)).s <= iv.s
              /\ \A t \in Int : CoveredBy(Joined(l, iv), t) <=> CoveredBy(l, t) \/ Covers(iv, t)
<1>0. PICK n \in Nat \ {0} : n = Len(l) /\ l \in [1 .. n -> Interval]
  BY LenProperties
<1>1. PICK j : n = Len(l) /\ j = Joined(l, iv) /\ l \in [1 .. n -> Interval]
  BY <1>0
<1>2. /\ iv.s \in Int /\ iv.e \in Int /\ l[n].s \in Int /\ l[n].e \in Int
      /\ n \in 1 .. n /\ Last(l) = l[n]
      /\ \A i \in 1 .. n : l[i].s \in Int /\ l[i].e \in Int /\ l[i] \in Interval
  <2>1. n \in 1 .. n /\ Last(l) = l[n]
    BY <1>1 DEF Last
  <2>2. \A i \in 1 .. n : l[i] \in Interval
    BY <1>1
  <2> QED BY <2>1, <2>2 DEF Interval
<1>3. CASE l[n].e < iv.s
  <2>1. j = Append(l, iv)
    BY <1>1, <1>2, <1>3 DEF Joined
  <2>2. ASSUME Apart(l), Last(l).s <= iv.s, NEW i \in 1 .. n PROVE l[i].e < iv.s
    <3>1. CASE i = n
      BY <1>3, <3>1
    <3>2. CASE i # n
      <4>0. DOMAIN l = 1 .. n /\ n \in Int
        BY <1>1
      <4>1. i < n /\ DOMAIN l = 1 .. n
        BY <3>2, <4>0
      <4>2. l[i].e < l[n].s
        BY <1>2, <2>2, <4>1 DEF Apart
      <4> QED BY <1>2, <2>2, <4>2
    <3> QED BY <3>1, <3>2
  <2>3. DOMAIN l = 1 .. n /\ l \in Seq(Interval) /\ iv.s <= iv.s
    BY <1>1, <1>2
  <2> QED BY <1>1, <2>1, <2>2, <2>3, Appending
<1>4. CASE ~(l[n].e < iv.s)
  <2>1. PICK e \in Int : /\ e = Max({l[n].e, iv.e}) /\ e >= l[n].e /\ e >= iv.e /\ (e = l[n].e \/ e = iv.e)
    BY <1>2, MaxOfTwo
  <2>2. j = [l EXCEPT ![n].e = e]
    BY <1>1, <1>2, <1>4, <2>1 DEF Joined
  <2>3. /\ DOMAIN j = 1 .. n /\ DOMAIN l = 1 .. n
        /\ j[n] = [l[n] EXCEPT !.e = e] /\ \A i \in 1 .. n : i # n => j[i] = l[i]
    BY <1>1, <1>2, <2>2
  <2>4. j[n] \in Interval /\ j[n].s = l[n].s /\ j[n].e = e
    <3>1. l[n] \in [s : Int, e : Int]
      BY <1>2 DEF Interval
    <3> QED BY <2>1, <2>3, <3>1 DEF Interval
  <2>5. j \in Seq(Interval) /\ j # <<>> /\ Last(j) = j[n]
    <3>1. \A i \in 1 .. n : j[i] \in Interval
      BY <1>2, <2>3, <2>4
    <3>2. j = [i \in 1 .. n |-> j[i]]
      BY <1>1, <2>2
    <3>3. j \in [1 .. n -> Interval]
      BY <3>1, <3>2
    <3>4. j \in Seq(Interval) /\ Len(j) = n
      BY <3>3, LenProperties
    <3> QED BY <2>3, <3>4 DEF Last
  <2>6. ASSUME Apart(l), Last(l).s <= iv.s, NEW t \in Int
        PROVE  CoveredBy(j, t) <=> CoveredBy(l, t) \/ Covers(iv, t)
    <3>1. Covers(j[n], t) <=> Covers(l[n], t) \/ Covers(iv, t)
      BY <1>2, <1>4, <2>1, <2>4, <2>6 DEF Covers
    <3> QED BY <1>2, <2>3, <3>1 DEF CoveredBy
  <2>7. ASSUME Apart(l) PROVE Apart(j)
    <3> SUFFICES ASSUME NEW i \in 1 .. n, NEW k \in 1 .. n, i < k PROVE j[i].e < j[k].s
      BY <2>3 DEF Apart
    <3>0. n \in Int /\ k <= n /\ i < k /\ i \in Int /\ k \in Int
      OBVIOUS
    <3>1. i # n
      BY <3>0
    <3>2. j[i] = l[i] /\ j[k].s = l[k].s
      BY <2>3, <2>4, <3>1
    <3> QED BY <2>3, <2>7, <3>2 DEF Apart
  <2> QED BY <1>1, <1>2, <2>4, <2>5, <2>6, <2>7
<1> QED BY <1>3, <1>4

\* mergeIntervals: the list is apart and covers what the intervals cover.
LEMMA MergedIs ==
  ASSUME NEW ivs \in SUBSET Interval, IsFiniteSet(ivs)
  PROVE  /\ MergeIntervals(ivs) \in Seq(Interval) /\ Apart(MergeIntervals(ivs))
         /\ \A t \in Int : CoveredBy(MergeIntervals(ivs), t) <=> \E iv \in ivs : Covers(iv, t)
<1>1. CASE ivs = {}
  <2>1. MergeIntervals(ivs) = <<>>
    BY <1>1 DEF MergeIntervals
  <2>2. MergeIntervals(ivs) \in Seq(Interval) /\ DOMAIN MergeIntervals(ivs) = {}
    BY <2>1
  <2> QED BY <1>1, <2>2 DEF Apart, CoveredBy
<1>2. CASE ivs # {}
  <2> DEFINE Before == {x \in ivs \X ivs : x[1].s < x[2].s}
             q == InOrder(ivs, Before)
             V == Seq(Interval) \ {<<>>}
             IsMerge(f) == f = [n \in DOMAIN q |-> IF n = 1 THEN <<q[1]>> ELSE Joined(f[n - 1], q[n])]
             merged == CHOOSE f : IsMerge(f)
  <2>1. PICK N \in Nat \ {0} : N = Cardinality(ivs)
    <3>1. Cardinality(ivs) \in Nat /\ Cardinality(ivs) # 0
      BY <1>2, FS_CardinalityType, FS_EmptySet
    <3> QED BY <3>1
  <2>2. \A x \in ivs : x \in Interval /\ x.s \in Int /\ x.e \in Int
    BY DEF Interval
  <2>3. /\ q \in [1 .. N -> ivs] /\ \A x \in ivs : \E i \in 1 .. N : q[i] = x
        /\ \A h, k \in 1 .. N : h < k => <<q[k], q[h]>> \notin Before
    <3>1. IsStrict(Before, ivs)
      BY <2>2 DEF IsStrict
    <3> HIDE DEF Before
    <3>2. Lists(q, ivs, Before) /\ \A x \in ivs : \E i \in 1 .. N : q[i] = x
      BY <2>1, <3>1, InOrderListsAll
    <3> QED BY <2>1, <3>2 DEF Lists
  <2>4. /\ DOMAIN q = 1 .. N
        /\ \A h \in 1 .. N : q[h] \in ivs /\ q[h] \in Interval
        /\ \A h, k \in 1 .. N : h < k => q[h].s <= q[k].s
    <3> HIDE DEF q
    <3>1. DOMAIN q = 1 .. N /\ \A h \in 1 .. N : q[h] \in ivs /\ q[h] \in Interval
      BY <2>2, <2>3
    <3>2. ASSUME NEW h \in 1 .. N, NEW k \in 1 .. N, h < k PROVE q[h].s <= q[k].s
      <4>1. <<q[k], q[h]>> \notin Before /\ q[k] \in ivs /\ q[h] \in ivs
        BY <2>3, <3>1, <3>2
      <4>2. ~(q[k].s < q[h].s)
        BY <4>1
      <4> QED BY <2>2, <4>1, <4>2
    <3> QED BY <3>1, <3>2
  <2> DEFINE next == [z \in (2 .. N) \X V |-> Joined(z[2], q[z[1]])]
  <2>5. PICK f \in [1 .. N -> V] : \A n \in 1 .. N : f[n] = IF n = 1 THEN <<q[1]>> ELSE next[<<n, f[n - 1]>>]
    <3>1. <<q[1]>> \in V
      <4> HIDE DEF q
      <4> QED BY <2>4, 1 \in 1 .. N
    <3>2. \A n \in 2 .. N : \A v \in V : next[<<n, v>>] \in V
      <4> SUFFICES ASSUME NEW n \in 2 .. N, NEW v \in V PROVE next[<<n, v>>] \in V
        OBVIOUS
      <4> HIDE DEF q
      <4>1. q[n] \in Interval
        BY <2>4
      <4>2. Joined(v, q[n]) \in V
        BY <4>1, Joining
      <4> QED BY <4>2
    <3>3. PICK first : first = <<q[1]>>
      OBVIOUS
    <3> HIDE DEF next, V, q
    <3>4. N \in Nat /\ first \in V
      BY <3>1, <3>3
    <3>5. GoesAlong(N, V, next)
      BY <3>2 DEF GoesAlong
    <3>6. PICK f : Follows(f, N, V, first, next)
      BY <3>4, <3>5, PrefixRecursion
    <3> QED BY <3>3, <3>6 DEF Follows
  <2>6. IsMerge(f)
    <3> HIDE DEF q
    <3>1. ASSUME NEW n \in 1 .. N PROVE f[n] = IF n = 1 THEN <<q[1]>> ELSE Joined(f[n - 1], q[n])
      <4>1. CASE n = 1
        BY <2>5, <4>1
      <4>2. CASE n # 1
        <5>1. n \in 2 .. N /\ n - 1 \in 1 .. N
          BY <4>2
        <5>2. f[n - 1] \in V
          <6> HIDE DEF V
          <6> QED BY <2>5, <5>1
        <5>3. next[<<n, f[n - 1]>>] = Joined(f[n - 1], q[n])
          <6> HIDE DEF V
          <6> QED BY <5>1, <5>2
        <5> QED BY <2>5, <4>2, <5>3
      <4> QED BY <4>1, <4>2
    <3> HIDE DEF V
    <3> QED BY <2>4, <2>5, <3>1
  <2>7. IsMerge(merged) /\ MergeIntervals(ivs) = merged[N]
    <3>1. MergeIntervals(ivs) = merged[Cardinality(ivs)]
      BY <1>2 DEF MergeIntervals
    <3>2. IsMerge(merged)
      <4> HIDE DEF IsMerge
      <4> QED BY <2>6
    <3> QED BY <2>1, <3>1, <3>2
  <2>8. \A n \in 1 .. N : merged[n] = IF n = 1 THEN <<q[1]>> ELSE Joined(merged[n - 1], q[n])
    <3> HIDE DEF merged, q
    <3> QED BY <2>4, <2>7
  <2> DEFINE Good(n) == /\ merged[n] \in Seq(Interval) \ {<<>>} /\ Apart(merged[n]) /\ Last(merged[n]).s <= q[n].s
                        /\ \A t \in Int : CoveredBy(merged[n], t) <=> \E h \in 1 .. n : Covers(q[h], t)
             Bad == {n \in 1 .. N : ~Good(n)}
  <2>9. Bad = {}
    <3> SUFFICES ASSUME Bad # {} PROVE FALSE
      OBVIOUS
    <3> HIDE DEF merged, q
    <3>1. PICK n \in Bad : \A m \in Bad : n <= m
      <4>1. Bad \subseteq Nat
        OBVIOUS
      <4> HIDE DEF Bad
      <4> QED BY <4>1, LeastNatural
    <3>2. n \in 1 .. N /\ ~Good(n) /\ q[n] \in Interval /\ q[n].s \in Int
      BY <2>4 DEF Interval
    <3>3. CASE n = 1
      <4>1. merged[n] = <<q[n]>>
        BY <2>8, <3>2, <3>3
      <4>2. /\ merged[n] \in Seq(Interval) /\ Len(merged[n]) = 1 /\ DOMAIN merged[n] = {1} /\ merged[n][1] = q[n]
            /\ merged[n] # <<>>
        BY <3>2, <4>1
      <4>3. Apart(merged[n]) /\ Last(merged[n]).s <= q[n].s
        BY <3>2, <4>2 DEF Apart, Last
      <4>4. \A t \in Int : CoveredBy(merged[n], t) <=> \E h \in 1 .. n : Covers(q[h], t)
        BY <3>3, <4>2 DEF CoveredBy
      <4> QED BY <3>2, <4>2, <4>3, <4>4
    <3>4. CASE n # 1
      <4>1. n - 1 \in 1 .. N /\ n - 1 < n
        BY <3>2, <3>4
      <4>2. Good(n - 1)
        <5>1. ~(n <= n - 1)
          BY <3>2
        <5>2. n - 1 \notin Bad
          <6> HIDE DEF Bad
          <6> QED BY <3>1, <5>1
        <5> HIDE DEF Good
        <5> QED BY <4>1, <5>2
      <4>3. PICK l \in Seq(Interval) \ {<<>>} : l = merged[n - 1]
        BY <4>2
      <4>4. Apart(l) /\ Last(l).s <= q[n].s
        <5>1. q[n - 1].s <= q[n].s /\ q[n - 1].s \in Int
          BY <2>4, <3>2, <4>1 DEF Interval
        <5>2. Last(l).s \in Int
          <6>1. Len(l) \in 1 .. Len(l)
            BY LenProperties
          <6>2. l[Len(l)] \in Interval
            BY <6>1
          <6> QED BY <6>2 DEF Last, Interval
        <5> QED BY <3>2, <4>2, <4>3, <5>1, <5>2
      <4>5. PICK j : j = Joined(l, q[n])
        OBVIOUS
      <4>6. /\ j \in Seq(Interval) \ {<<>>} /\ Apart(j) /\ Last(j).s <= q[n].s
            /\ \A t \in Int : CoveredBy(j, t) <=> CoveredBy(l, t) \/ Covers(q[n], t)
        BY <3>2, <4>4, <4>5, Joining
      <4>7. merged[n] = j
        BY <2>8, <3>2, <3>4, <4>3, <4>5
      <4>8. \A h : h \in 1 .. n <=> h \in 1 .. n - 1 \/ h = n
        BY <3>2
      <4>9. \A t \in Int : CoveredBy(j, t) <=> \E h \in 1 .. n : Covers(q[h], t)
        BY <4>2, <4>3, <4>6, <4>8
      <4> QED BY <3>2, <4>6, <4>7, <4>9
    <3> QED BY <3>3, <3>4
  <2>10. Good(N)
    <3>1. N \in 1 .. N
      OBVIOUS
    <3> HIDE DEF Good
    <3> QED BY <2>9, <3>1
  <2>11. ASSUME NEW t \in Int PROVE (\E h \in 1 .. N : Covers(q[h], t)) <=> \E iv \in ivs : Covers(iv, t)
    <3> HIDE DEF q
    <3> QED BY <2>3, <2>4
  <2> HIDE DEF merged, q
  <2> QED BY <2>7, <2>10, <2>11
<1> QED BY <1>1, <1>2

LEMMA MinOfTwo ==
  ASSUME NEW a \in Int, NEW b \in Int
  PROVE  Min({a, b}) = IF a <= b THEN a ELSE b
BY DEF Min

LEMMA ItemsAreIntervals ==
  ASSUME NEW l \in Seq(Interval), NEW i \in DOMAIN l
  PROVE  i \in Int /\ l[i] \in Interval /\ l[i].s \in Int /\ l[i].e \in Int
<1>1. i \in Int /\ l[i] \in Interval
  OBVIOUS
<1> QED BY <1>1 DEF Interval

\* Adding what two intervals have in common, when that is anything.
LEMMA Overlapping ==
  ASSUME NEW out \in Seq(Interval), NEW u \in Interval, NEW v \in Interval, NEW o, o = WithCommon(out, u, v)
  PROVE  /\ o \in Seq(Interval)
         /\ \A m \in DOMAIN o : (m \in DOMAIN out /\ o[m] = out[m]) \/ (o[m].e <= u.e /\ o[m].e <= v.e)
         /\ Apart(out) /\ (\A m \in DOMAIN out : out[m].e < u.s \/ out[m].e < v.s) => Apart(o)
         /\ \A t \in Int : CoveredBy(o, t) <=> CoveredBy(out, t) \/ (Covers(u, t) /\ Covers(v, t))
<1>1. u.s \in Int /\ u.e \in Int /\ v.s \in Int /\ v.e \in Int
  BY DEF Interval
<1>2. PICK s \in Int, e \in Int : /\ s = Max({u.s, v.s}) /\ s >= u.s /\ s >= v.s /\ (s = u.s \/ s = v.s)
                                  /\ e = Min({u.e, v.e}) /\ e <= u.e /\ e <= v.e /\ (e = u.e \/ e = v.e)
  BY <1>1, MaxOfTwo, MinOfTwo
<1>3. PICK c \in Interval : c = [s |-> Max({u.s, v.s}), e |-> Min({u.e, v.e})] /\ c.s = s /\ c.e = e
  <2>1. [s |-> s, e |-> e] \in Interval
    BY DEF Interval
  <2>2. [s |-> Max({u.s, v.s}), e |-> Min({u.e, v.e})] = [s |-> s, e |-> e]
    BY <1>2, Zenon
  <2> QED BY <2>1, <2>2
<1>4. \A t \in Int : Covers(u, t) /\ Covers(v, t) <=> Covers(c, t)
  BY <1>1, <1>2, <1>3 DEF Covers
<1>5. CASE c.e > c.s
  <2>1. o = Append(out, c)
    BY <1>3, <1>5 DEF WithCommon
  <2>2. \A m \in DOMAIN o : (m \in DOMAIN out /\ o[m] = out[m]) \/ o[m] = c
    BY <1>3, <2>1, Appending
  <2>3. ASSUME \A m \in DOMAIN out : out[m].e < u.s \/ out[m].e < v.s PROVE \A m \in DOMAIN out : out[m].e < c.s
    <3>1. \A m \in DOMAIN out : out[m].e \in Int
      BY ItemsAreIntervals
    <3> QED BY <1>1, <1>2, <1>3, <2>3, <3>1
  <2>4. o \in Seq(Interval) /\ (Apart(out) /\ (\A m \in DOMAIN out : out[m].e < c.s) => Apart(o))
        /\ \A t : CoveredBy(o, t) <=> CoveredBy(out, t) \/ Covers(c, t)
    <3>1. PICK j : j = Append(out, c)
      OBVIOUS
    <3>2. j \in Seq(Interval) /\ (Apart(out) /\ (\A m \in DOMAIN out : out[m].e < c.s) => Apart(j))
          /\ \A t : CoveredBy(j, t) <=> CoveredBy(out, t) \/ Covers(c, t)
      BY <3>1, Appending
    <3> QED BY <2>1, <3>1, <3>2
  <2>5. \A m \in DOMAIN o : (m \in DOMAIN out /\ o[m] = out[m]) \/ (o[m].e <= u.e /\ o[m].e <= v.e)
    BY <1>2, <1>3, <2>2
  <2> QED BY <1>4, <2>3, <2>4, <2>5
<1>6. CASE ~(c.e > c.s)
  <2>1. \A t \in Int : ~Covers(c, t)
    BY <1>2, <1>3, <1>6 DEF Covers
  <2>2. o = out
    BY <1>3, <1>6 DEF WithCommon
  <2> QED BY <1>4, <2>1, <2>2
<1> QED BY <1>5, <1>6

\* What is still to be found: an instant both lists cover, from the cursors on.
ToCome(a, b, x, t) ==
  \E i \in DOMAIN a, k \in DOMAIN b : i >= x.i /\ k >= x.k /\ Covers(a[i], t) /\ Covers(b[k], t)

\* What was found lies before what is still to be found.
InTurn(a, b, x) ==
  /\ Apart(x.out)
  /\ \A m \in DOMAIN x.out : \A i \in DOMAIN a, k \in DOMAIN b :
       i >= x.i /\ k >= x.k => x.out[m].e < a[i].s \/ x.out[m].e < b[k].s

\* A step moves a cursor on and loses nothing.
LEMMA Furthering ==
  ASSUME NEW a \in Seq(Interval), NEW b \in Seq(Interval), NEW x \in Meets, ~IsReadOut(a, b, x),
         NEW y, y = Further(a, b, x)
  PROVE  /\ y \in Meets /\ y.i + y.k = x.i + x.k + 1
         /\ Apart(a) /\ Apart(b) /\ InTurn(a, b, x) =>
              /\ InTurn(a, b, y)
              /\ \A t \in Int : CoveredBy(y.out, t) \/ ToCome(a, b, y, t) <=> CoveredBy(x.out, t) \/ ToCome(a, b, x, t)
<1>0. PICK i \in Nat \ {0}, k \in Nat \ {0}, out \in Seq(Interval) : i = x.i /\ k = x.k /\ out = x.out
  BY DEF Meets
<1>1. PICK u, v, o :
        /\ i = x.i /\ k = x.k /\ out = x.out /\ u = a[i] /\ v = b[k] /\ o = WithCommon(out, u, v)
  BY <1>0
<1>2. /\ i \in DOMAIN a /\ k \in DOMAIN b /\ u \in Interval /\ v \in Interval
      /\ u.s \in Int /\ u.e \in Int /\ v.s \in Int /\ v.e \in Int
  <2>1. i \in 1 .. Len(a) /\ k \in 1 .. Len(b)
    BY <1>1 DEF IsReadOut
  <2>2. i \in DOMAIN a /\ k \in DOMAIN b /\ u \in Interval /\ v \in Interval
    BY <1>1, <2>1
  <2> QED BY <2>2 DEF Interval
<1>3. y = [i |-> IF EndsFirst(u, v) THEN i + 1 ELSE i, k |-> IF EndsFirst(u, v) THEN k ELSE k + 1, out |-> o]
  BY <1>1 DEF Further
<1>4. /\ o \in Seq(Interval)
      /\ \A m \in DOMAIN o : (m \in DOMAIN out /\ o[m] = out[m]) \/ (o[m].e <= u.e /\ o[m].e <= v.e)
      /\ Apart(out) /\ (\A m \in DOMAIN out : out[m].e < u.s \/ out[m].e < v.s) => Apart(o)
      /\ \A t \in Int : CoveredBy(o, t) <=> CoveredBy(out, t) \/ (Covers(u, t) /\ Covers(v, t))
  <2>1. out \in Seq(Interval) /\ u \in Interval /\ v \in Interval /\ o = WithCommon(out, u, v)
    BY <1>1, <1>2
  <2> QED BY <2>1, Overlapping
<1>5. y \in Meets /\ y.i + y.k = x.i + x.k + 1
  <2>1. PICK p, q : y = [i |-> p, k |-> q, out |-> o] /\ ((p = i + 1 /\ q = k) \/ (p = i /\ q = k + 1))
    BY <1>3
  <2>2. p \in Nat \ {0} /\ q \in Nat \ {0} /\ p + q = i + k + 1
    BY <2>1
  <2> QED BY <1>1, <1>4, <2>1, <2>2 DEF Meets
<1>6. /\ \A h \in DOMAIN a : h \in Int /\ a[h].s \in Int /\ a[h].e \in Int
      /\ \A h \in DOMAIN b : h \in Int /\ b[h].s \in Int /\ b[h].e \in Int
      /\ \A h \in DOMAIN o : o[h].e \in Int
  BY <1>4, ItemsAreIntervals
<1>7. ASSUME Apart(a), Apart(b), InTurn(a, b, x) PROVE InTurn(a, b, y)
  <2>1. Apart(o)
    <3>1. i >= x.i /\ k >= x.k
      BY <1>1
    <3>2. Apart(out) /\ \A m \in DOMAIN out : out[m].e < u.s \/ out[m].e < v.s
      BY <1>1, <1>2, <1>7, <3>1 DEF InTurn
    <3> QED BY <1>4, <3>2
  <2>2. ASSUME NEW m \in DOMAIN o, NEW h \in DOMAIN a, NEW l \in DOMAIN b, h >= y.i, l >= y.k
        PROVE  o[m].e < a[h].s \/ o[m].e < b[l].s
    <3>1. h >= i /\ l >= k
      BY <1>1, <1>3, <1>6, <2>2
    <3>2. CASE m \in DOMAIN out /\ o[m] = out[m]
      BY <1>1, <1>7, <3>1, <3>2 DEF InTurn
    <3>3. CASE o[m].e <= u.e /\ o[m].e <= v.e
      <4>1. CASE EndsFirst(u, v)
        <5>1. u.e < a[h].s
          <6>1. i < h
            BY <1>3, <1>6, <2>2, <4>1
          <6> QED BY <1>1, <1>2, <1>7, <6>1 DEF Apart
        <5> QED BY <1>2, <1>6, <3>3, <5>1
      <4>2. CASE ~EndsFirst(u, v)
        <5>1. v.e < b[l].s
          <6>1. k < l
            BY <1>3, <1>6, <2>2, <4>2
          <6> QED BY <1>1, <1>2, <1>7, <6>1 DEF Apart
        <5> QED BY <1>2, <1>6, <3>3, <5>1
      <4> QED BY <4>1, <4>2
    <3> QED BY <1>4, <3>2, <3>3
  <2> QED BY <1>3, <2>1, <2>2 DEF InTurn
<1>8. ASSUME Apart(a), Apart(b), InTurn(a, b, x), NEW t \in Int
      PROVE  CoveredBy(y.out, t) \/ ToCome(a, b, y, t) <=> CoveredBy(x.out, t) \/ ToCome(a, b, x, t)
  <2>1. ToCome(a, b, y, t) => ToCome(a, b, x, t)
    <3>1. \A h \in DOMAIN a, l \in DOMAIN b : h >= y.i /\ l >= y.k => h >= i /\ l >= k
      BY <1>1, <1>3, <1>6
    <3> QED BY <1>1, <3>1 DEF ToCome
  <2>2. Covers(u, t) /\ Covers(v, t) => ToCome(a, b, x, t)
    BY <1>1, <1>2 DEF ToCome
  <2>3. ASSUME ToCome(a, b, x, t), ~ToCome(a, b, y, t) PROVE Covers(u, t) /\ Covers(v, t)
    <3>1. PICK h \in DOMAIN a, l \in DOMAIN b : h >= i /\ l >= k /\ Covers(a[h], t) /\ Covers(b[l], t)
      BY <1>1, <2>3 DEF ToCome
    <3>2. ~(h >= y.i /\ l >= y.k)
      BY <2>3, <3>1 DEF ToCome
    <3>3. CASE EndsFirst(u, v)
      <4>1. h = i
        BY <1>1, <1>3, <1>6, <3>1, <3>2, <3>3
      <4>2. l = k \/ v.e < b[l].s
        <5>1. l = k \/ k < l
          BY <1>1, <1>6, <3>1
        <5> QED BY <1>1, <1>2, <1>8, <5>1 DEF Apart
      <4>3. ~(v.e < b[l].s)
        BY <1>1, <1>2, <1>6, <3>1, <3>3, <4>1 DEF Covers, EndsFirst
      <4> QED BY <1>1, <3>1, <4>1, <4>2, <4>3
    <3>4. CASE ~EndsFirst(u, v)
      <4>1. l = k
        BY <1>1, <1>3, <1>6, <3>1, <3>2, <3>4
      <4>2. h = i \/ u.e < a[h].s
        <5>1. h = i \/ i < h
          BY <1>1, <1>6, <3>1
        <5> QED BY <1>1, <1>2, <1>8, <5>1 DEF Apart
      <4>3. ~(u.e < a[h].s)
        BY <1>1, <1>2, <1>6, <3>1, <3>4, <4>1 DEF Covers, EndsFirst
      <4> QED BY <1>1, <3>1, <4>1, <4>2, <4>3
    <3> QED BY <3>3, <3>4
  <2>4. y.out = o /\ x.out = out /\ (CoveredBy(o, t) <=> CoveredBy(out, t) \/ (Covers(u, t) /\ Covers(v, t)))
    BY <1>1, <1>3, <1>4
  <2> QED BY <2>1, <2>2, <2>3, <2>4
<1> QED BY <1>5, <1>7, <1>8

\* The intersection is the recursive function it is written as.
LEMMA MeetSteps ==
  ASSUME NEW a \in Seq(Interval), NEW b \in Seq(Interval)
  PROVE  \E meet : /\ IntersectIntervals(a, b) = meet[[i |-> 1, k |-> 1, out |-> <<>>]]
                   /\ \A x \in Meets : meet[x] = IF IsReadOut(a, b, x) THEN x.out ELSE meet[Further(a, b, x)]
<1> DEFINE Ends == {x \in Meets : IsReadOut(a, b, x)}
           next == [x \in Meets |-> Further(a, b, x)]
           out == [x \in Meets |-> x.out]
           IsMeet(f) == f = [x \in Meets |-> IF IsReadOut(a, b, x) THEN x.out ELSE f[Further(a, b, x)]]
           meet == CHOOSE f : IsMeet(f)
<1>1. \E f : Computes(f, Meets, Ends, next, out)
  <2>1. GoesBy(Meets, Ends, next, out)
    BY Furthering DEF GoesBy
  <2> HIDE DEF Ends, next, out
  <2> QED BY <2>1, TailRecursion
<1>2. \E f : IsMeet(f)
  <2>1. PICK f : /\ f = [x \in Meets |-> f[x]]
                 /\ \A x \in Meets : f[x] = IF x \in Ends THEN out[x] ELSE f[next[x]]
    BY <1>1 DEF Computes
  <2>2. \A x \in Meets : f[x] = (IF IsReadOut(a, b, x) THEN x.out ELSE f[Further(a, b, x)])
    BY <2>1
  <2> HIDE DEF Ends, next, out
  <2> QED BY <2>1, <2>2
<1>3. IsMeet(meet)
  <2> HIDE DEF IsMeet
  <2> QED BY <1>2
<1>4. IntersectIntervals(a, b) = meet[[i |-> 1, k |-> 1, out |-> <<>>]]
  BY DEF IntersectIntervals
<1> HIDE DEF meet
<1> QED BY <1>3, <1>4

\* Two lists, each of them apart, have in common what both cover.
LEMMA IntersectionIs ==
  ASSUME NEW a \in Seq(Interval), NEW b \in Seq(Interval)
  PROVE  /\ IntersectIntervals(a, b) \in Seq(Interval)
         /\ Apart(a) /\ Apart(b) =>
              /\ Apart(IntersectIntervals(a, b))
              /\ \A t \in Int : CoveredBy(IntersectIntervals(a, b), t) <=> CoveredBy(a, t) /\ CoveredBy(b, t)
<1>1. PICK meet : /\ IntersectIntervals(a, b) = meet[[i |-> 1, k |-> 1, out |-> <<>>]]
                  /\ \A x \in Meets : meet[x] = IF IsReadOut(a, b, x) THEN x.out ELSE meet[Further(a, b, x)]
  BY MeetSteps
<1> DEFINE Good(x) == /\ meet[x] \in Seq(Interval)
                      /\ Apart(a) /\ Apart(b) /\ InTurn(a, b, x) =>
                           /\ Apart(meet[x])
                           /\ \A t \in Int : CoveredBy(meet[x], t) <=> CoveredBy(x.out, t) \/ ToCome(a, b, x, t)
           Bad == {x \in Meets : ~Good(x)}
           m == [x \in Meets |-> IF IsReadOut(a, b, x) THEN 0 ELSE Len(a) + Len(b) + 1 - (x.i + x.k)]
<1>2. \A x \in Meets : x.i \in Nat /\ x.k \in Nat /\ x.i + x.k \in Nat /\ x.out \in Seq(Interval)
  BY DEF Meets
<1>3. Len(a) \in Nat /\ Len(b) \in Nat /\ Len(a) + Len(b) \in Nat
  BY LenProperties
<1>4. \A x \in Meets : m[x] \in Nat /\ (~IsReadOut(a, b, x) => m[x] = Len(a) + Len(b) + 1 - (x.i + x.k) /\ m[x] > 0)
  BY <1>2, <1>3 DEF IsReadOut
<1>5. Bad = {}
  <2> SUFFICES ASSUME Bad # {} PROVE FALSE
    OBVIOUS
  <2>1. PICK x \in Bad : \A y \in Bad : m[x] <= m[y]
    <3>1. \A y \in Bad : m[y] \in Nat
      BY <1>4
    <3> HIDE DEF Bad, m
    <3> QED BY <3>1, LeastMeasured
  <2>2. x \in Meets /\ ~Good(x)
    OBVIOUS
  <2>3. CASE IsReadOut(a, b, x)
    <3>1. meet[x] = x.out /\ x.out \in Seq(Interval)
      BY <1>1, <1>2, <2>2, <2>3
    <3>2. \A i \in DOMAIN a, k \in DOMAIN b : ~(i >= x.i /\ k >= x.k)
      BY <1>2, <1>3, <2>2, <2>3, LenProperties DEF IsReadOut
    <3>3. \A t : ~ToCome(a, b, x, t)
      BY <3>2 DEF ToCome
    <3>4. InTurn(a, b, x) => Apart(x.out)
      BY DEF InTurn
    <3> QED BY <2>2, <3>1, <3>3, <3>4
  <2>4. CASE ~IsReadOut(a, b, x)
    <3>1. PICK y : y = Further(a, b, x)
      OBVIOUS
    <3>2. /\ y \in Meets /\ y.i + y.k = x.i + x.k + 1
          /\ Apart(a) /\ Apart(b) /\ InTurn(a, b, x) =>
               /\ InTurn(a, b, y)
               /\ \A t \in Int : CoveredBy(y.out, t) \/ ToCome(a, b, y, t) <=> CoveredBy(x.out, t) \/ ToCome(a, b, x, t)
      BY <2>2, <2>4, <3>1, Furthering
    <3>3. meet[x] = meet[y]
      BY <1>1, <2>2, <2>4, <3>1
    <3>4. ~(m[x] <= m[y])
      <4>1. m[y] \in Nat /\ m[x] \in Nat /\ m[x] > 0 /\ m[x] = Len(a) + Len(b) + 1 - (x.i + x.k)
        BY <1>4, <2>2, <2>4, <3>2
      <4>2. IsReadOut(a, b, y) => m[y] = 0
        BY <3>2
      <4>3. ~IsReadOut(a, b, y) => m[y] = Len(a) + Len(b) + 1 - (y.i + y.k)
        BY <1>4, <3>2
      <4>4. x.i + x.k \in Nat /\ y.i + y.k \in Nat
        BY <1>2, <2>2, <3>2
      <4> HIDE DEF m
      <4> QED BY <1>3, <3>2, <4>1, <4>2, <4>3, <4>4
    <3>5. Good(y)
      <4>1. y \notin Bad
        <5> HIDE DEF Bad
        <5> QED BY <2>1, <3>4
      <4> HIDE DEF Good
      <4> QED BY <3>2, <4>1
    <3> QED BY <2>2, <3>2, <3>3, <3>5
  <2> QED BY <2>3, <2>4
<1>6. PICK x \in Meets : x = [i |-> 1, k |-> 1, out |-> <<>>] /\ x.i = 1 /\ x.k = 1 /\ x.out = <<>>
  <2>1. 1 \in Nat \ {0} /\ <<>> \in Seq(Interval)
    OBVIOUS
  <2>2. PICK none : none = <<>>
    OBVIOUS
  <2>3. [i |-> 1, k |-> 1, out |-> none] \in Meets
    BY <2>1, <2>2 DEF Meets
  <2> QED BY <2>2, <2>3
<1>7. Good(x)
  <2> HIDE DEF Good
  <2> QED BY <1>5, <1>6
<1>8. InTurn(a, b, x) /\ \A t : ~CoveredBy(x.out, t)
  <2>1. DOMAIN x.out = {}
    BY <1>6
  <2> QED BY <2>1 DEF InTurn, Apart, CoveredBy
<1>9. \A t \in Int : ToCome(a, b, x, t) <=> CoveredBy(a, t) /\ CoveredBy(b, t)
  <2>1. (\A i \in DOMAIN a : i >= x.i) /\ (\A k \in DOMAIN b : k >= x.k)
    BY <1>6
  <2> QED BY <2>1 DEF ToCome, CoveredBy
<1> QED BY <1>1, <1>6, <1>7, <1>8, <1>9

\* The intervals of a pool, one set per member.
Pool(busy) == busy \in Seq(SUBSET Interval) /\ \A i \in DOMAIN busy : IsFiniteSet(busy[i])

\* poolBusyIntervals, for any number of members and windows.
LEMMA PoolIs ==
  ASSUME NEW busy, Pool(busy)
  PROVE  \A t \in Int : CoveredBy(PoolBusyIntervals(busy), t)
                          <=> busy # <<>> /\ \A i \in DOMAIN busy : \E iv \in busy[i] : Covers(iv, t)
<1>1. PICK N \in Nat : N = Len(busy) /\ DOMAIN busy = 1 .. N
  BY LenProperties DEF Pool
<1>2. CASE N = 0
  <2>1. busy = <<>>
    BY <1>1, <1>2, EmptySeq DEF Pool
  <2>2. PoolBusyIntervals(busy) = <<>>
    BY <2>1 DEF PoolBusyIntervals
  <2> QED BY <2>1, <2>2 DEF CoveredBy
<1>3. CASE N # 0
  <2> DEFINE own(n) == MergeIntervals({iv \in busy[n] : iv.e > iv.s})
             IsCommon(f) == f = [n \in DOMAIN busy |-> IF n = 1 THEN own(1) ELSE IntersectIntervals(f[n - 1], own(n))]
             common == CHOOSE f : IsCommon(f)
             next == [z \in (2 .. N) \X Seq(Interval) |-> IntersectIntervals(z[2], own(z[1]))]
  <2>1. ASSUME NEW n \in 1 .. N
        PROVE  /\ own(n) \in Seq(Interval) /\ Apart(own(n))
               /\ \A t \in Int : CoveredBy(own(n), t) <=> \E iv \in busy[n] : Covers(iv, t)
    <3>1. busy[n] \in SUBSET Interval /\ IsFiniteSet(busy[n])
      BY <1>1 DEF Pool
    <3>2. PICK ivs : ivs = {iv \in busy[n] : iv.e > iv.s}
      OBVIOUS
    <3>3. ivs \in SUBSET Interval /\ IsFiniteSet(ivs)
      BY <3>1, <3>2, FS_Subset
    <3>4. \A t \in Int : (\E iv \in ivs : Covers(iv, t)) <=> \E iv \in busy[n] : Covers(iv, t)
      <4>1. \A iv \in Interval, t \in Int : Covers(iv, t) => iv.e > iv.s
        BY DEF Interval, Covers
      <4> QED BY <3>1, <3>2, <4>1
    <3>5. own(n) = MergeIntervals(ivs)
      BY <3>2
    <3> QED BY <3>3, <3>4, <3>5, MergedIs
  <2>2. PICK f : Follows(f, N, Seq(Interval), own(1), next)
    <3>1. GoesAlong(N, Seq(Interval), next)
      <4> SUFFICES ASSUME NEW n \in 2 .. N, NEW v \in Seq(Interval) PROVE next[<<n, v>>] \in Seq(Interval)
        BY DEF GoesAlong
      <4>1. PICK o \in Seq(Interval) : o = own(n)
        BY <2>1, n \in 1 .. N
      <4>2. next[<<n, v>>] = IntersectIntervals(v, o)
        BY <4>1
      <4> QED BY <4>2, IntersectionIs
    <3>2. PICK first \in Seq(Interval) : first = own(1)
      <4>1. 1 \in 1 .. N
        BY <1>3
      <4> QED BY <2>1, <4>1
    <3> HIDE DEF next, own
    <3> QED BY <3>1, <3>2, PrefixRecursion
  <2>3. IsCommon(f)
    <3>1. ASSUME NEW n \in 1 .. N PROVE f[n] = IF n = 1 THEN own(1) ELSE IntersectIntervals(f[n - 1], own(n))
      <4>0. /\ f \in [1 .. N -> Seq(Interval)]
            /\ f[n] = IF n = 1 THEN own(1) ELSE next[<<n, f[n - 1]>>]
        <5> HIDE DEF next, own
        <5> QED BY <2>2 DEF Follows
      <4>1. CASE n = 1
        BY <4>0, <4>1
      <4>2. CASE n # 1
        <5>1. n \in 2 .. N /\ n - 1 \in 1 .. N
          BY <4>2
        <5>2. f[n - 1] \in Seq(Interval)
          <6> HIDE DEF next, own
          <6> QED BY <4>0, <5>1
        <5>3. next[<<n, f[n - 1]>>] = IntersectIntervals(f[n - 1], own(n))
          BY <5>1, <5>2
        <5> QED BY <4>0, <4>2, <5>3
      <4> QED BY <4>1, <4>2
    <3> HIDE DEF next, own
    <3>2. f \in [1 .. N -> Seq(Interval)]
      BY <2>2 DEF Follows
    <3> QED BY <1>1, <3>1, <3>2
  <2>4. IsCommon(common) /\ PoolBusyIntervals(busy) = common[N]
    <3>1. PoolBusyIntervals(busy) = common[Len(busy)]
      BY <1>1, <1>3 DEF PoolBusyIntervals
    <3>2. IsCommon(common)
      <4> HIDE DEF IsCommon
      <4> QED BY <2>3
    <3> QED BY <1>1, <3>1, <3>2
  <2>5. \A n \in 1 .. N : common[n] = IF n = 1 THEN own(1) ELSE IntersectIntervals(common[n - 1], own(n))
    <3> HIDE DEF common, own
    <3> QED BY <1>1, <2>4
  <2> DEFINE Good(n) == /\ common[n] \in Seq(Interval) /\ Apart(common[n])
                        /\ \A t \in Int : CoveredBy(common[n], t) <=> \A h \in 1 .. n : \E iv \in busy[h] : Covers(iv, t)
             Bad == {n \in 1 .. N : ~Good(n)}
  <2>6. Bad = {}
    <3> SUFFICES ASSUME Bad # {} PROVE FALSE
      OBVIOUS
    <3> HIDE DEF common, own
    <3>1. PICK n \in Bad : \A m \in Bad : n <= m
      <4>1. Bad \subseteq Nat
        OBVIOUS
      <4> HIDE DEF Bad
      <4> QED BY <4>1, LeastNatural
    <3>2. n \in 1 .. N /\ ~Good(n)
      OBVIOUS
    <3>3. CASE n = 1
      <4>1. common[n] = own(1)
        BY <2>5, <3>2, <3>3
      <4>2. \A h : h \in 1 .. n <=> h = 1
        BY <3>3
      <4> QED BY <2>1, <3>2, <3>3, <4>1, <4>2
    <3>4. CASE n # 1
      <4>1. n - 1 \in 1 .. N /\ n - 1 < n
        BY <3>2, <3>4
      <4>2. Good(n - 1)
        <5>1. ~(n <= n - 1)
          BY <3>2
        <5>2. n - 1 \notin Bad
          <6> HIDE DEF Bad
          <6> QED BY <3>1, <5>1
        <5> HIDE DEF Good
        <5> QED BY <4>1, <5>2
      <4>3. PICK l \in Seq(Interval), o \in Seq(Interval) : l = common[n - 1] /\ o = own(n)
        BY <2>1, <3>2, <4>2
      <4>4. Apart(l) /\ Apart(o)
        BY <2>1, <3>2, <4>2, <4>3
      <4>5. PICK j : j = IntersectIntervals(l, o)
        OBVIOUS
      <4>6. /\ j \in Seq(Interval) /\ Apart(j)
            /\ \A t \in Int : CoveredBy(j, t) <=> CoveredBy(l, t) /\ CoveredBy(o, t)
        BY <4>4, <4>5, IntersectionIs
      <4>7. common[n] = j
        BY <2>5, <3>2, <3>4, <4>3, <4>5
      <4>8. \A h : h \in 1 .. n <=> h \in 1 .. n - 1 \/ h = n
        BY <3>2
      <4>9. \A t \in Int : CoveredBy(o, t) <=> \E iv \in busy[n] : Covers(iv, t)
        BY <2>1, <3>2, <4>3
      <4>10. \A t \in Int : CoveredBy(j, t) <=> \A h \in 1 .. n : \E iv \in busy[h] : Covers(iv, t)
        BY <4>2, <4>3, <4>6, <4>8, <4>9
      <4> QED BY <3>2, <4>6, <4>7, <4>10
    <3> QED BY <3>3, <3>4
  <2>7. Good(N)
    <3>1. N \in 1 .. N
      BY <1>3
    <3> HIDE DEF Good
    <3> QED BY <2>6, <3>1
  <2>8. busy # <<>>
    BY <1>1, <1>3
  <2> HIDE DEF common
  <2> QED BY <1>1, <2>4, <2>7, <2>8
<1> QED BY <1>2, <1>3

\* What the board asks of a pool: one set of intervals per member, each finite.
LEMMA PoolsAre ==
  ASSUME ShopOK, NEW p \in Printers, NEW kind
  PROVE  Pool(PoolOf(p, kind))
<1> DEFINE T == {n \in Options(p) : Kind[n] = kind}
           Before == {x \in Nozzles \X Nozzles : x[1] < x[2]}
           q == InOrder(T, Before)
<1>1. T \subseteq Nozzles /\ IsFiniteSet(T) /\ Nozzles \subseteq Nat
  <2>1. T \subseteq Nozzles
    BY DEF Options
  <2>2. IsFiniteSet(Nozzles) /\ Nozzles \subseteq Nat
    BY PackerAssumption
  <2> QED BY <2>1, <2>2, FS_Subset
<1>2. IsStrict(Before, T)
  <2> HIDE DEF T
  <2> QED BY <1>1 DEF IsStrict
<1>3. PICK N \in Nat : N = Cardinality(T) /\ q \in [1 .. N -> T]
  <2> HIDE DEF T, Before
  <2> QED BY <1>1, <1>2, InOrderListsAll, FS_CardinalityType DEF Lists
<1>4. \A n : BusyOf(n) \in SUBSET Interval /\ IsFiniteSet(BusyOf(n))
  <2> SUFFICES ASSUME NEW n PROVE BusyOf(n) \in SUBSET Interval /\ IsFiniteSet(BusyOf(n))
    OBVIOUS
  <2> DEFINE js == {i \in OnBoard : job[i].nozzle = n}
             window == [j \in js |-> [s |-> job[j].s, e |-> job[j].e]]
  <2>1. js \subseteq Jobs /\ IsFiniteSet(js)
    <3>1. js \subseteq Jobs
      BY DEF OnBoard
    <3> HIDE DEF js
    <3> QED BY <3>1, FS_Subset, PackerAssumption
  <2>2. \A j \in js : job[j].s \in Int /\ job[j].e \in Int
    <3> HIDE DEF js
    <3> QED BY <2>1 DEF ShopOK, RowOK
  <2>3. \A j \in js : window[j] \in Interval
    <3> HIDE DEF js
    <3> QED BY <2>2 DEF Interval
  <2>4. window \in Surjection(js, BusyOf(n))
    BY DEF Surjection, BusyOf
  <2>5. BusyOf(n) \in SUBSET Interval
    BY <2>3 DEF BusyOf
  <2> HIDE DEF js, window
  <2> QED BY <2>1, <2>4, <2>5, FS_Surjection
<1>5. PoolOf(p, kind) = [i \in DOMAIN q |-> BusyOf(q[i])]
  BY DEF PoolOf
<1> DEFINE pool == [i \in 1 .. N |-> BusyOf(q[i])]
<1>6. PoolOf(p, kind) = pool
  <2> HIDE DEF q
  <2> QED BY <1>3, <1>5
<1>7. pool \in Seq(SUBSET Interval) /\ DOMAIN pool = 1 .. N /\ \A i \in 1 .. N : IsFiniteSet(pool[i])
  <2> HIDE DEF q
  <2> QED BY <1>4
<1> HIDE DEF pool
<1> QED BY <1>6, <1>7 DEF Pool

(* Whatever has been booked, moved and cleared, the busy windows a printer's
   pool of one kind is given cover an instant exactly when every nozzle of
   the pool is committed then -- for any number of nozzles and windows. *)
THEOREM PoolsAreBusyWhenAllAre == PackerSpec => []PoolIsBusyWhenAllAre
<1>1. PackerInit => PlanInv
  BY PlanStarts
<1>2. PlanInv /\ [PackerNext]_packerVars => PlanInv'
  BY PlanKept
<1>3. PlanInv => PoolIsBusyWhenAllAre
  <2> SUFFICES ASSUME ShopOK, NEW p \in Printers, NEW n \in Nozzles, NEW t \in 0 .. Horizon
               PROVE  LET pool == PoolOf(p, Kind[n])
                          busy == PoolBusyIntervals(pool)
                      IN  (\E i \in DOMAIN busy : Covers(busy[i], t))
                            <=> pool # <<>> /\ \A i \in DOMAIN pool : \E iv \in pool[i] : Covers(iv, t)
    BY DEF PlanInv, PoolIsBusyWhenAllAre
  <2>1. t \in Int
    BY PackerAssumption
  <2>2. Pool(PoolOf(p, Kind[n]))
    BY PoolsAre
  <2> QED BY <2>1, <2>2, PoolIs DEF CoveredBy
<1> QED BY <1>1, <1>2, <1>3, PTL DEF PackerSpec
=============================================================================
