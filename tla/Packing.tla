------------------------------- MODULE Packing -------------------------------
(***************************************************************************)
(* The scheduling kernel (packing.ts), the nozzle pool (nozzle-pool.ts)    *)
(* and the spool preference (spool-choice.ts): pure functions from a board *)
(* to a decision.  Instants are whole ticks and a busy interval [s, e) is  *)
(* a record; ids are numbers where the code breaks a tie by id.            *)
(***************************************************************************)
EXTENDS Integers, SequencesExt

CONSTANTS
  DayLength,    \* ticks of a local day
  ZoneOffset,   \* tzOffsetMinutes: ticks to add to reach the shop's clock
  Never         \* Infinity

ASSUME KernelAssumption == DayLength \in Nat \ {0} /\ ZoneOffset \in Int /\ Never \in Nat

None == 0       \* no printer, nozzle, spool, ... (null)
Unset == 0      \* an unspecified diameter or material of a nozzle

\* Lexicographic order of two keys of one length.
Precedes(a, b) ==
  \E i \in DOMAIN a : a[i] < b[i] /\ \A h \in 1 .. i - 1 : a[h] = b[h]

\* The member of S with the least key.
Least(S, Key(_)) == CHOOSE x \in S : \A y \in S : ~Precedes(Key(y), Key(x))

\* The finite set S in the order of Before, a set of pairs; ties in any order.
InOrder(S, Before) ==
  CHOOSE q \in [1 .. Cardinality(S) -> S] :
    \A h, k \in DOMAIN q : h < k => q[h] # q[k] /\ <<q[k], q[h]>> \notin Before

-----------------------------------------------------------------------------
(* Working hours.  A window [start, latest) says when a print may START;   *)
(* one whose latest start is not after its start wraps midnight.           *)

Hours == [start : 0 .. DayLength - 1, latest : 0 .. DayLength - 1]

HourOf(t) == (t + ZoneOffset) % DayLength

IsWithinWorkWindow(t, w) ==
  \/ w.start = w.latest
  \/ w.start < w.latest /\ HourOf(t) >= w.start /\ HourOf(t) < w.latest
  \/ w.start > w.latest /\ (HourOf(t) >= w.start \/ HourOf(t) < w.latest)

NextAllowedStart(t, w) ==
  LET opensToday == t - HourOf(t) + w.start
  IN  IF IsWithinWorkWindow(t, w) THEN t
      ELSE IF opensToday > t THEN opensToday ELSE opensToday + DayLength

-----------------------------------------------------------------------------
(* The fit.  A job is constrained by several timelines at once, each a     *)
(* sequence of intervals ordered by start.                                 *)

\* A busy stretch of a printer, a nozzle or a tank.
Interval == [s : Int, e : Int]

\* Keeps the list ordered by start; behind its equals.
PushInterval(list, iv) ==
  InsertAt(list, 1 + Cardinality({i \in DOMAIN list : list[i].s <= iv.s}), iv)

\* A walk over the timelines: how far each is read, and the start so far.
Walks(lists) == [cursors : [DOMAIN lists -> Nat \ {0}], start : Int]

\* The list with the earliest unread head, the first of them on a tie.
EarliestHead(lists, cursors) ==
  LET open == {i \in DOMAIN lists : cursors[i] <= Len(lists[i])}
  IN  IF open = {} THEN None
      ELSE Least(open, LAMBDA i : <<lists[i][cursors[i]].s, i>>)

HeadOf(lists, x) ==
  LET i == EarliestHead(lists, x.cursors) IN lists[i][x.cursors[i]]

\* Everything is read, or the next interval, and all behind it, leave room.
Clears(lists, x, dur, gap) ==
  \/ EarliestHead(lists, x.cursors) = None
  \/ /\ HeadOf(lists, x).e + gap > x.start
     /\ HeadOf(lists, x).s - gap >= x.start + dur

\* Past the next interval: it is behind the start, or the start settles behind it.
Past(lists, x, gap) ==
  [cursors |-> [x.cursors EXCEPT ![EarliestHead(lists, x.cursors)] = @ + 1],
   start   |-> Max({x.start, HeadOf(lists, x).e + gap})]

\* One forward scan over every conflict.
Scan(lists, from, dur, gap) ==
  LET scan[x \in Walks(lists)] ==
        IF Clears(lists, x, dur, gap) THEN x ELSE scan[Past(lists, x, gap)]
  IN  scan[from]

\* A scan from the next opening on.
Reopened(lists, x, dur, gap, w) ==
  Scan(lists, [x EXCEPT !.start = NextAllowedStart(@, w)], dur, gap)

\* Mutant: a start pushed past closing by a conflict is not moved to the next opening.
FitWithoutReopening(lists, dur, notBefore, gap, w) ==
  Reopened(lists, [cursors |-> [i \in DOMAIN lists |-> 1], start |-> notBefore], dur, gap, w).start

\* Alternates opening hours and scans until neither moves the start.
EarliestFitAcross(lists, dur, notBefore, gap, w) ==
  LET settle[x \in Walks(lists)] ==
        LET after == Reopened(lists, x, dur, gap, w)
        IN  IF after.start = x.start THEN x.start ELSE settle[after]
  IN  settle[[cursors |-> [i \in DOMAIN lists |-> 1], start |-> notBefore]]

-----------------------------------------------------------------------------
(* Nozzles.  kind[n] is its [dia, mat]; fitted[n] the printer it sits on.  *)

NozzleFits(kind, need) ==
  /\ need.dia # Unset => kind.dia = need.dia
  /\ need.mat # Unset /\ kind.mat # Unset => kind.mat = need.mat

HandlingRank(fittedOn, printer) == IF fittedOn \in {None, printer} THEN 1 ELSE 2

\* chooseNozzle: which of `options` a job assigned to `assigned` takes, given
\* the earliest start each one opens.
ChooseNozzle(assigned, printer, options, fitted, earliest, policy, pinned) ==
  LET rank(n) == IF n # assigned THEN HandlingRank(fitted[n], printer)
                 ELSE IF n \in options THEN 0 ELSE 3
  IN  IF assigned = None \/ options = {} \/ policy = "keep_assigned" THEN assigned
      ELSE IF policy # "minimise_changes"
      THEN Least(options \cup {assigned}, LAMBDA n : <<earliest[n], rank(n), n>>)
      ELSE IF pinned \in options THEN pinned ELSE Least(options, LAMBDA n : <<rank(n), n>>)

\* chooseInterchangeableNozzle: the stand-in of exactly the same kind.
Twin(assigned, printer, options, kind, fitted, free) ==
  LET twins == {n \in (options \ {assigned}) \cap free : kind[n] = kind[assigned]}
  IN  IF twins = {} THEN None
      ELSE Least(twins, LAMBDA n : <<HandlingRank(fitted[n], printer), n>>)

-----------------------------------------------------------------------------
(* The order of a plan.  An item is [id, due, dur, setup, place]: its      *)
(* deadline, length, printer and nozzle kind, and place in the queue.      *)

SlackOf(x, now) == IF x.due = Never THEN Never ELSE x.due - now - x.dur

SlackKey(x, now) == <<SlackOf(x, now), x.due, x.setup, x.place>>

BySlack(items, now) ==
  InOrder(items, {x \in items \X items : Precedes(SlackKey(x[1], now), SlackKey(x[2], now))})

\* Whole setups, the one with the most urgent job first.
ForFewestSetups(items, now) ==
  LET group(x)  == {y \in items : y.setup = x.setup}
      urgency(x) == Min({SlackOf(y, now) : y \in group(x)})
      soonest(x) == Min({y.due : y \in group(x)})
      key(x)    == <<urgency(x), soonest(x), x.setup>> \o SlackKey(x, now)
  IN  InOrder(items, {x \in items \X items : Precedes(key(x[1]), key(x[2]))})

-----------------------------------------------------------------------------
(* Spools.  A spool is [initial, left, held, child].                       *)

FreeOn(sp) == Max({0, sp.left - sp.held})

\* Sealed stock comes after anything opened, reserved of, or split off.
IsStorage(sp) == ~sp.child /\ sp.left >= sp.initial /\ sp.held <= 0

SpoolKey(s, stock) == <<IF IsStorage(stock[s]) THEN 1 ELSE 0, 0 - FreeOn(stock[s]), s>>

\* filamentPlanCore: the grams of each spool of `fits` a job of `grams` would
\* draw: one spool that covers it, else several in order, else nothing.
PlanSpools(stock, fits, grams) ==
  LET whole  == {s \in fits : FreeOn(stock[s]) >= grams}
      before(s) == {u \in fits : Precedes(SpoolKey(u, stock), SpoolKey(s, stock))}
      drawn(S)  == MapThenSumSet(LAMBDA u : FreeOn(stock[u]), S)
      best   == Least(whole, LAMBDA s : SpoolKey(s, stock))
      nothing == [s \in DOMAIN stock |-> 0]
  IN  IF grams = 0 THEN nothing
      ELSE IF whole # {} THEN [nothing EXCEPT ![best] = grams]
      ELSE IF drawn(fits) < grams THEN nothing
      ELSE [s \in DOMAIN stock |->
              IF s \notin fits THEN 0
              ELSE Min({FreeOn(stock[s]), Max({0, grams - drawn(before(s))})})]

-----------------------------------------------------------------------------
(* When every nozzle of a pool is busy (poolBusyIntervals).                *)

\* A list of intervals in order, with iv, which starts no earlier than any of it.
Joined(list, iv) ==
  IF Last(list).e < iv.s THEN Append(list, iv)
  ELSE [list EXCEPT ![Len(list)].e = Max({@, iv.e})]

\* mergeIntervals, of a set: ordered, disjoint, touching ones joined.
MergeIntervals(ivs) ==
  LET q == InOrder(ivs, {x \in ivs \X ivs : x[1].s < x[2].s})
      merged[n \in DOMAIN q] == IF n = 1 THEN <<q[1]>> ELSE Joined(merged[n - 1], q[n])
  IN  IF ivs = {} THEN <<>> ELSE merged[Cardinality(ivs)]

\* Two lists read side by side: the cursors, and the overlaps so far.
Meets == [i : Nat \ {0}, k : Nat \ {0}, out : Seq(Interval)]

\* Mutant: the list whose interval ends later is the one moved on.
EndsLater(u, v) == u.e >= v.e

\* Which of the two lists is moved on: the one whose interval ends first.
EndsFirst(u, v) == u.e < v.e

IsReadOut(a, b, x) == x.i > Len(a) \/ x.k > Len(b)

\* The list with what u and v have in common, if that is anything.
WithCommon(list, u, v) ==
  LET common == [s |-> Max({u.s, v.s}), e |-> Min({u.e, v.e})]
  IN  IF common.e > common.s THEN Append(list, common) ELSE list

Further(a, b, x) ==
  LET u == a[x.i]
      v == b[x.k]
  IN  [i |-> IF EndsFirst(u, v) THEN x.i + 1 ELSE x.i,
       k |-> IF EndsFirst(u, v) THEN x.k ELSE x.k + 1,
       out |-> WithCommon(x.out, u, v)]

\* What two such lists have in common.
IntersectIntervals(a, b) ==
  LET meet[x \in Meets] == IF IsReadOut(a, b, x) THEN x.out ELSE meet[Further(a, b, x)]
  IN  meet[[i |-> 1, k |-> 1, out |-> <<>>]]

\* `busy` holds one set of intervals per member of the pool; empty ones are dropped.
PoolBusyIntervals(busy) ==
  LET own(n) == MergeIntervals({iv \in busy[n] : iv.e > iv.s})
      common[n \in DOMAIN busy] ==
        IF n = 1 THEN own(1) ELSE IntersectIntervals(common[n - 1], own(n))
  IN  IF busy = <<>> THEN <<>> ELSE common[Len(busy)]
=============================================================================
