------------------------------ MODULE Licences ------------------------------
(***************************************************************************)
(* What a company may do and what it is billed: its subscription, the      *)
(* grant codes that carry plans, the holds of the platform's admins, the   *)
(* status the guard of every request reads through a cache, the invoices   *)
(* and discount codes of the platform, and the notices of a period's end.  *)
(*                                                                         *)
(* A desk is one request of a tenant or of an admin.  A handler of a single *)
(* statement is one step with the invalidation of the cache that follows   *)
(* it; one that decides on what it read is a step for the reading and one  *)
(* for the writing, and the two transactions on a grant hold its row lock  *)
(* in between.  Time is in days, so the minute of the cache is the         *)
(* freedom to expire at any moment.  Prices, names and texts are left out. *)
(***************************************************************************)
EXTENDS Integers, FiniteSets

CONSTANTS
  Companies, Desks, Grants, Discounts, Plans, Trial, Priced, Caps, None,
  Unreachable,   \* companies without an owner email
  PlanCap, TrialDays, GraceDays, Lookback,
  TrialReminders, RenewalReminders,  \* days before the end
  Enforced, MaxUses,
  Days, MaxDay, MaxInvoices, MaxPrinters   \* Days: what end dates and extensions are drawn from

ASSUME LicencesAssumption ==
  /\ Trial \in Plans /\ Priced \subseteq Plans \ {Trial}
  /\ Unreachable \subseteq Companies
  /\ None \notin Companies \cup Grants \cup Plans \cup Discounts \cup {"grace", "suspended", "banned"}
  /\ PlanCap \in [Plans -> Nat \cup {None}] /\ Caps \subseteq Nat
  /\ {TrialDays, GraceDays, Lookback, MaxDay, MaxInvoices, MaxPrinters, MaxUses} \subseteq Nat
  /\ TrialReminders \cup RenewalReminders \subseteq Nat \ {0} /\ GraceDays > 0
  /\ Days \subseteq Nat \ {0} /\ Enforced \in BOOLEAN

VARIABLES
  day,
  company,   \* companies: [stage, hold, deleted, printers]
  sub,       \* company_subscriptions
  grant,     \* license_grants
  tiers,     \* plans that are on record
  cache,     \* LicensingService.cache
  invoices,  \* subscription_invoices by the number they were minted
  minted,    \* subscription_invoice_sequences
  discount,  \* discount_codes: whether each is switched on
  redeemed,  \* discount_redemptions
  sweep,     \* the tick of the notices in progress
  settled,   \* license_emails, as <<company, rung, anchor>>
  mailed,    \* history: the notices that left, as [co, ladder, anchor, rung]
  blotted,   \* history: companies one of whose notices could not be recorded
  desk       \* desk[d]: the request in progress

plan  == <<sub, grant, tiers>>
bills == <<invoices, minted, discount, redeemed>>
notes == <<sweep, settled, mailed, blotted>>
licenceVars == <<day, company, plan, cache, bills, notes, desk>>

NoSub     == [plan |-> None]
NoGrant   == [plan |-> None]
NoInvoice == [co |-> None]
AtRest    == [op |-> "none"]
NoSweep   == [rows |-> [c \in {} |-> NoSub], settled |-> {}, sent |-> None]

TrialSub == [plan |-> Trial, status |-> "trialing", source |-> "trial", ends |-> day + TrialDays,
             grant |-> None, over |-> None, cap |-> None, chosen |-> None]

Open == {c \in Companies : company[c].stage = "open"}

LicencesInit ==
  /\ day = 0
  /\ \E C, D \in SUBSET Companies :   \* of those there at first, D were soft-deleted by an earlier version
       company = [c \in Companies |-> [stage |-> IF c \in C THEN "open" ELSE "new", hold |-> None,
                                       deleted |-> c \in C \cap D, printers |-> 0]]
  /\ \E T \in SUBSET Open : sub = [c \in Companies |-> IF c \in T THEN TrialSub ELSE NoSub]
  /\ grant = [g \in Grants |-> NoGrant]
  /\ tiers \in {Plans, {Trial} \cup Priced}
  /\ cache = [c \in Companies |-> None]
  /\ invoices = [n \in 1..MaxInvoices |-> NoInvoice] /\ minted = 0
  /\ discount = [k \in Discounts |-> FALSE] /\ redeemed = {}
  /\ sweep = NoSweep /\ settled = {} /\ mailed = {} /\ blotted = {}
  /\ desk = [d \in Desks |-> AtRest]

Licensed == {c \in Open : sub[c] # NoSub}
Idle(d) == desk[d] = AtRest
Hold(d, r) == desk' = [desk EXCEPT ![d] = r]

----------------------------------------------------------------------------
(* The status of a company.                                                *)

\* A cap agreed with the company goes before its plan's; without one it has no limit.
EffectiveMax(s) == IF s.cap # None THEN s.cap ELSE PlanCap[s.plan]
Over(c, s) == EffectiveMax(s) # None /\ company[c].printers > EffectiveMax(s)

\* The first resolution that sees a company over its cap stamps the row.
Stamped(c, s) ==
  [s EXCEPT !.over = IF ~Over(c, s) THEN None ELSE IF @ = None THEN day ELSE @]

\* A row that is canceled or revoked always has an end: the moment it was.
Lapsed(s) == s.status \in {"canceled", "revoked"} \/ (s.ends # None /\ day > s.ends)

\* The days on which its graces run out; a trial has none.
Graces(s) ==
  (IF Lapsed(s) THEN {s.ends + (IF s.source = "trial" THEN 0 ELSE GraceDays)} ELSE {})
    \cup (IF s.over # None THEN {s.over + GraceDays} ELSE {})

Billing(s) ==
  CASE Graces(s) = {} -> "ok"
    [] \E g \in Graces(s) : day >= g -> "readonly"
    [] OTHER -> "grace"

\* resolve: a hold of an admin goes before what billing says.  When the query
\* for it fails, the company is taken to have none, and not to be deleted.
Standing(c, s, blind) ==
  LET hold    == IF blind THEN None ELSE company[c].hold
      deleted == ~blind /\ company[c].deleted IN
  [plan |-> s.plan, hold |-> hold, deleted |-> deleted, blind |-> blind,
   state |-> IF deleted \/ hold \in {"banned", "suspended"} THEN "readonly"
             ELSE IF hold = "grace" THEN "grace" ELSE Billing(s)]

\* LicenseGuard.canActivate.
Admits(st, mutation) ==
  /\ ~st.deleted /\ st.hold # "banned"
  /\ mutation => st.state # "readonly" \/ ~(Enforced \/ st.hold = "suspended")

\* ensureTrial, unless the company has a row.
Ensured(c) == IF sub[c] = NoSub THEN TrialSub ELSE sub[c]

\* getStatus on a miss, or skipping the cache.
ReadStatus(d, c, blind) ==
  /\ Idle(d) /\ c \in Open
  /\ LET s == Stamped(c, Ensured(c)) IN
       /\ sub' = [sub EXCEPT ![c] = s]
       /\ Hold(d, [op |-> "status", co |-> c, saw |-> Standing(c, s, blind), late |-> FALSE])
  /\ UNCHANGED <<day, company, grant, tiers, cache, bills, notes>>

\* The resolver fails at a query before that: this one request passes as if all
\* were well, nothing is kept, and what was written of the row stays.
FailOpen(c) ==
  /\ c \in Open
  /\ \E s \in {Ensured(c), Stamped(c, Ensured(c))} : sub' = [sub EXCEPT ![c] = s]
  /\ UNCHANGED <<day, company, grant, tiers, cache, bills, notes, desk>>

\* What was resolved is kept, whatever was decided about it since.
KeepStatus(d) ==
  /\ desk[d].op = "status"
  /\ cache' = [cache EXCEPT ![desk[d].co] = [saw |-> desk[d].saw, late |-> desk[d].late]]
  /\ Hold(d, AtRest)
  /\ UNCHANGED <<day, company, plan, bills, notes>>

ExpireStatus(c) ==
  /\ cache[c] # None
  /\ cache' = [cache EXCEPT ![c] = None]
  /\ UNCHANGED <<day, company, plan, bills, notes, desk>>

\* History: the resolutions in flight for companies C have been overtaken.
Overtaken(C) ==
  [d \in Desks |-> IF desk[d].op = "status" THEN [desk[d] EXCEPT !.late = @ \/ desk[d].co \in C] ELSE desk[d]]

Invalidated(C) == [c \in Companies |-> IF c \in C THEN None ELSE cache[c]]

\* A handler that ends with the rows of C written: the status of each is
\* forgotten, and the desk goes on as r.
Decided(d, C, r) ==
  /\ cache' = Invalidated(C)
  /\ desk' = [Overtaken(C) EXCEPT ![d] = r]

----------------------------------------------------------------------------
(* Plans and grant codes.                                                  *)

Checkout(d, c, pl) ==
  /\ Idle(d) /\ c \in Open /\ pl \in Priced
  /\ sub' = [sub EXCEPT ![c] = [Ensured(c) EXCEPT !.chosen = pl]]
  /\ Decided(d, {c}, AtRest)
  /\ UNCHANGED <<day, company, grant, tiers, bills, notes>>

CreateGrant(g, pl, end) ==
  /\ grant[g] = NoGrant /\ pl \in tiers
  /\ grant' = [grant EXCEPT ![g] = [plan |-> pl, ends |-> end, revoked |-> FALSE, by |-> None]]
  /\ UNCHANGED <<day, company, sub, tiers, cache, bills, notes, desk>>

Locked(g) == \E d \in Desks : desk[d].op \in {"redeem", "revoke"} /\ desk[d].grant = g

MayRedeem(c, g) ==
  /\ grant[g] # NoGrant /\ ~grant[g].revoked
  /\ grant[g].ends # None => grant[g].ends >= day
  /\ grant[g].by \in {None, c}

\* Mutant: the row is read without FOR UPDATE.
ReadGrantUnlocked(d, c, g) ==
  /\ Idle(d) /\ c \in Open /\ MayRedeem(c, g)
  /\ Hold(d, [op |-> "redeem", co |-> c, grant |-> g, saw |-> grant[g]])
  /\ UNCHANGED <<day, company, plan, cache, bills, notes>>

\* redeem, up to its refusals; the row is locked.
ReadGrant(d, c, g) ==
  /\ Idle(d) /\ c \in Open /\ ~Locked(g) /\ MayRedeem(c, g)
  /\ Hold(d, [op |-> "redeem", co |-> c, grant |-> g, saw |-> grant[g]])
  /\ UNCHANGED <<day, company, plan, cache, bills, notes>>

\* What a new plan leaves of the row that was there.
Upserted(c, s) ==
  [Ensured(c) EXCEPT !.plan = s.plan, !.status = s.status, !.source = s.source,
                     !.ends = s.ends, !.grant = s.grant, !.over = None]

\* Its transaction; a company purged meanwhile fails the foreign key.
RedeemTx(d) ==
  /\ desk[d].op = "redeem"
  /\ LET c == desk[d].co  g == desk[d].grant IN
       IF c \in Open
       THEN /\ sub' = [sub EXCEPT ![c] = Upserted(c, [plan |-> desk[d].saw.plan, status |-> "active", source |-> "grant_code",
                                                   ends |-> desk[d].saw.ends, grant |-> g])]
            /\ grant' = [grant EXCEPT ![g].by = c]
            /\ Decided(d, {c}, [op |-> "issue", todo |-> {c}, source |-> "grant_code", code |-> None])
       ELSE Hold(d, AtRest) /\ UNCHANGED <<sub, grant, cache>>
  /\ UNCHANGED <<day, company, tiers, bills, notes>>

\* revokeGrant: the row is locked; a second call changes nothing.
ReadRevoked(d, g) ==
  /\ Idle(d) /\ grant[g] # NoGrant /\ ~Locked(g) /\ ~grant[g].revoked
  /\ Hold(d, [op |-> "revoke", grant |-> g, by |-> grant[g].by])
  /\ UNCHANGED <<day, company, plan, cache, bills, notes>>

RevokeTx(d) ==
  /\ desk[d].op = "revoke"
  /\ LET g == desk[d].grant
         C == {c \in Licensed : c = desk[d].by /\ sub[c].source = "grant_code" /\ sub[c].grant = g} IN
       /\ grant' = [grant EXCEPT ![g].revoked = TRUE]
       /\ sub' = [c \in Companies |-> IF c \in C THEN [sub[c] EXCEPT !.status = "revoked", !.ends = day] ELSE sub[c]]
       /\ Decided(d, {desk[d].by} \cap Companies, AtRest)
  /\ UNCHANGED <<day, company, tiers, bills, notes>>

\* assignPlan and bulkAssign, which is one transaction over all of C.
Assign(d, C, pl, status, end, code) ==
  /\ Idle(d) /\ C \subseteq Open /\ pl \in tiers
  /\ sub' = [c \in Companies |->
               IF c \in C THEN Upserted(c, [plan |-> pl, status |-> status, source |-> "manual", grant |-> None,
                                         ends |-> IF status = "canceled" THEN day ELSE end])
               ELSE sub[c]]
  /\ Decided(d, C, IF status = "canceled" THEN AtRest
                   ELSE [op |-> "issue", todo |-> C, source |-> "manual", code |-> code])
  /\ UNCHANGED <<day, company, grant, tiers, bills, notes>>

\* setCustomPlan: a cap of its own, or none again.
SetCustomPlan(d, c, cap) ==
  /\ Idle(d) /\ c \in Open
  /\ sub' = [sub EXCEPT ![c] = [Ensured(c) EXCEPT !.cap = cap, !.over = None]]
  /\ Decided(d, {c}, AtRest)
  /\ UNCHANGED <<day, company, grant, tiers, bills, notes>>

SaveCustomTier(pl) ==
  /\ pl \notin tiers
  /\ tiers' = tiers \cup {pl}
  /\ UNCHANGED <<day, company, sub, grant, cache, bills, notes, desk>>

\* endTrial decides on the status it read and then writes unguarded.
ReadTrial(d, c) ==
  /\ Idle(d) /\ c \in Licensed /\ sub[c].status = "trialing"
  /\ Hold(d, [op |-> "endTrial", co |-> c])
  /\ UNCHANGED <<day, company, plan, cache, bills, notes>>

Ended(s) == [s EXCEPT !.ends = day - 1, !.over = None]

EndTrial(d) ==
  /\ desk[d].op = "endTrial"
  /\ LET c == desk[d].co IN
       /\ sub' = IF c \in Licensed THEN [sub EXCEPT ![c] = Ended(sub[c])] ELSE sub
       /\ Decided(d, {c}, AtRest)
  /\ UNCHANGED <<day, company, grant, tiers, bills, notes>>

\* bulkEndTrial and bulkExtend are one guarded statement.
BulkEndTrial(d, C) ==
  LET hit == {c \in C \cap Licensed : sub[c].status = "trialing" /\ (sub[c].ends = None \/ sub[c].ends > day)} IN
  /\ Idle(d) /\ hit # {}
  /\ sub' = [c \in Companies |-> IF c \in hit THEN Ended(sub[c]) ELSE sub[c]]
  /\ Decided(d, hit, AtRest)
  /\ UNCHANGED <<day, company, grant, tiers, bills, notes>>

BulkExtend(d, C, n) ==
  LET hit == {c \in C \cap Licensed : sub[c].ends # None /\ sub[c].status \in {"trialing", "active"}} IN
  /\ Idle(d) /\ hit # {}
  /\ \A c \in hit : sub[c].ends <= MaxDay
  /\ sub' = [c \in Companies |->
               IF c \in hit THEN [sub[c] EXCEPT !.ends = n + (IF @ > day THEN @ ELSE day)] ELSE sub[c]]
  /\ Decided(d, hit, AtRest)
  /\ UNCHANGED <<day, company, grant, tiers, bills, notes>>

\* Mutant: the status in the cache is left to run out.
SetHoldKeepingStatus(d, C, hold) ==
  /\ Idle(d) /\ C \subseteq Open
  /\ company' = [c \in Companies |-> IF c \in C THEN [company[c] EXCEPT !.hold = hold] ELSE company[c]]
  /\ desk' = Overtaken(C) /\ UNCHANGED cache
  /\ UNCHANGED <<day, plan, bills, notes>>

\* setHold and bulkHold.
SetHold(d, C, hold) ==
  /\ Idle(d) /\ C \subseteq Open
  /\ company' = [c \in Companies |-> IF c \in C THEN [company[c] EXCEPT !.hold = hold] ELSE company[c]]
  /\ Decided(d, C, AtRest)
  /\ UNCHANGED <<day, plan, bills, notes>>

RestoreCompany(d, c) ==
  /\ Idle(d) /\ c \in Open
  /\ company' = [company EXCEPT ![c].deleted = FALSE]
  /\ Decided(d, {c}, AtRest)
  /\ UNCHANGED <<day, plan, bills, notes>>

----------------------------------------------------------------------------
(* Discounts and invoices.                                                 *)

SwitchDiscount(k, on) ==
  /\ discount[k] # on
  /\ discount' = [discount EXCEPT ![k] = on]
  /\ UNCHANGED <<day, company, plan, cache, invoices, minted, redeemed, notes, desk>>

\* DiscountService.resolve: the code is on, and used neither up nor by c.
Applies(k, c) ==
  /\ k # None /\ discount[k] /\ <<k, c>> \notin redeemed
  /\ Cardinality({x \in redeemed : x[1] = k}) < MaxUses

\* issue looks for an invoice of the same period under the status 'issued'.
Issued(c, source) ==
  \E n \in DOMAIN invoices : LET i == invoices[n] IN
    i.co = c /\ i.source = source /\ i.plan = sub[c].plan /\ i.ends = sub[c].ends /\ i.status = "issued"

\* issueForSubscription for the next company: nothing to invoice, or what
\* will be on it.  The amount is nothing for a grant and for a plan without a
\* price, and then no discount is tried.
ReadIssue(d, c) ==
  /\ desk[d].op = "issue" /\ c \in desk[d].todo
  /\ IF c \notin Licensed \/ (c \in Licensed /\ (sub[c].plan = Trial \/ sub[c].status = "trialing" \/ Issued(c, desk[d].source)))
     THEN Hold(d, IF desk[d].todo = {c} THEN AtRest ELSE [desk[d] EXCEPT !.todo = @ \ {c}])
     ELSE Hold(d, [op |-> "discount", todo |-> desk[d].todo, source |-> desk[d].source, code |-> desk[d].code, co |-> c,
                   off |-> IF desk[d].source = "manual" /\ sub[c].plan \in Priced /\ Applies(desk[d].code, c)
                           THEN desk[d].code ELSE None,
                   plan |-> sub[c].plan, ends |-> sub[c].ends])
  /\ UNCHANGED <<day, company, plan, cache, bills, notes>>

\* recordRedemption; a conflict is ignored.
RecordRedemption(d) ==
  /\ desk[d].op = "discount"
  /\ redeemed' = redeemed \cup (IF desk[d].off = None \/ desk[d].co \notin Open THEN {} ELSE {<<desk[d].off, desk[d].co>>})
  /\ Hold(d, [desk[d] EXCEPT !.op = "insert"])
  /\ UNCHANGED <<day, company, plan, cache, invoices, minted, discount, notes>>

Draft(c, source, pl, ends, off, by) ==
  [co |-> c, source |-> source, plan |-> pl, ends |-> ends, off |-> off, by |-> by,
   status |-> "draft", file |-> FALSE]

\* The number is minted, the operators are mailed, the draft is recorded.
InsertInvoice(d) ==
  /\ desk[d].op = "insert" /\ minted < MaxInvoices
  /\ LET r == desk[d]  left == r.todo \ {r.co} IN
       /\ minted' = minted + 1
       /\ invoices' = IF r.co \notin Open THEN invoices
                      ELSE [invoices EXCEPT ![minted + 1] = Draft(r.co, r.source, r.plan, r.ends, r.off, "issue")]
       /\ Hold(d, IF left = {} THEN AtRest
                  ELSE [op |-> "issue", todo |-> left, source |-> r.source, code |-> r.code])
  /\ UNCHANGED <<day, company, plan, cache, discount, redeemed, notes>>

CreateInvoice(d, c, pl, end) ==
  /\ Idle(d) /\ c \in Open /\ minted < MaxInvoices
  /\ minted' = minted + 1
  /\ invoices' = [invoices EXCEPT ![minted + 1] = Draft(c, "manual", pl, end, None, "hand")]
  /\ UNCHANGED <<day, company, plan, cache, discount, redeemed, notes, desk>>

Kept == {n \in DOMAIN invoices : invoices[n] # NoInvoice}

\* loadInvoice and the refusals of its caller.
LoadInvoice(d, op, n) ==
  /\ Idle(d) /\ n \in Kept
  /\ op \in {"edit", "mail"} => invoices[n].status # "sent"
  /\ op = "mail" => invoices[n].file
  /\ Hold(d, [op |-> op, n |-> n, saw |-> invoices[n].status])
  /\ UNCHANGED <<day, company, plan, cache, bills, notes>>

\* updateInvoice (its period), deleteInvoice, finalizeInvoice, and the mark
\* sendToTenant leaves: each on the number it loaded, whatever it is by now.
WriteInvoice(d, end) ==
  LET r == desk[d] IN
  /\ r.op \in {"edit", "drop", "finalize", "mailed"}
  /\ invoices' =
       IF r.n \notin Kept THEN invoices
       ELSE [invoices EXCEPT ![r.n] =
               CASE r.op = "edit" -> [@ EXCEPT !.ends = end]
                 [] r.op = "drop" -> IF r.saw = "sent" THEN [@ EXCEPT !.status = "void"] ELSE NoInvoice
                 [] r.op = "finalize" -> [@ EXCEPT !.file = TRUE, !.status = IF @ = "sent" THEN @ ELSE "ready"]
                 [] OTHER -> [@ EXCEPT !.status = "sent"]]
  /\ Hold(d, AtRest)
  /\ UNCHANGED <<day, company, plan, cache, minted, discount, redeemed, notes>>

\* sendToTenant mails the attached file; only then is the row marked.
MailInvoice(d) ==
  /\ desk[d].op = "mail"
  /\ Hold(d, IF desk[d].n \in Kept /\ invoices[desk[d].n].co \notin Unreachable
             THEN [desk[d] EXCEPT !.op = "mailed"] ELSE AtRest)
  /\ UNCHANGED <<day, company, plan, cache, bills, notes>>

----------------------------------------------------------------------------
(* The notices of a period's end.                                          *)

\* A rung is the days before the end at which it is due: 0 is the end, and
\* the days of grace after it are where a paid plan goes read-only.
LadderOf(s) == IF s.status = "trialing" \/ s.source = "trial" THEN "trial" ELSE "paid"
Rungs(s) ==
  IF LadderOf(s) = "trial" THEN TrialReminders \cup {0}
  ELSE (IF s.status = "active" THEN RenewalReminders ELSE {}) \cup {0, -GraceDays}
Due(s) == {r \in Rungs(s) : day + r >= s.ends}
Stale(s, r) ==
  CASE r > 0 -> FALSE
    [] LadderOf(s) = "paid" /\ r = 0 -> day >= s.ends + GraceDays
    [] OTHER -> day > s.ends - r + Lookback

SweepBegin ==
  LET C == {c \in Licensed : sub[c].ends # None /\ ~company[c].deleted /\ company[c].hold \in {None, "grace"}} IN
  /\ sweep = NoSweep /\ C # {}
  /\ sweep' = [rows |-> [c \in C |-> sub[c]], settled |-> settled, sent |-> None]
  /\ UNCHANGED <<day, company, plan, cache, bills, settled, mailed, blotted, desk>>

Owed(c) == {r \in Due(sweep.rows[c]) : <<c, r, sweep.rows[c].ends>> \notin sweep.settled}
Latest(R) == CHOOSE r \in R : \A q \in R : r <= q
Without(c) == LET rows == [x \in DOMAIN sweep.rows \ {c} |-> sweep.rows[x]] IN
              IF DOMAIN rows = {} THEN NoSweep ELSE [sweep EXCEPT !.rows = rows, !.sent = None]

\* record: each of rungs R, but for those whose write fails.
RecordedAs(c, R, failed) ==
  /\ settled' = settled \cup {<<c, r, sweep.rows[c].ends>> : r \in IF c \in Open THEN R \ failed ELSE {}}
  /\ blotted' = blotted \cup (IF R \cap failed = {} THEN {} ELSE {c})

\* Mutant: the earlier rungs are passed over, not recorded.
NotifyTargetOnly(c, sent, failed) ==
  /\ c \in DOMAIN sweep.rows /\ sweep.sent = None /\ Owed(c) # {}
  /\ LET s == sweep.rows[c]  t == Latest(Owed(c)) IN
       IF Stale(s, t) \/ c \in Unreachable
       THEN RecordedAs(c, {t}, failed) /\ sweep' = Without(c) /\ UNCHANGED mailed
       ELSE /\ UNCHANGED <<settled, blotted>>
            /\ sweep' = IF sent THEN [sweep EXCEPT !.sent = <<c, t>>] ELSE Without(c)
            /\ mailed' = IF sent THEN mailed \cup {[co |-> c, ladder |-> LadderOf(s), anchor |-> s.ends, rung |-> t]} ELSE mailed
  /\ UNCHANGED <<day, company, plan, cache, bills, desk>>

\* notifyCompany: of the rungs owed only the latest is sent; the others are
\* recorded as superseded, and it when it is stale or nobody can be mailed.
Notify(c, sent, failed) ==
  /\ c \in DOMAIN sweep.rows /\ sweep.sent = None /\ Owed(c) # {}
  /\ LET s == sweep.rows[c]  t == Latest(Owed(c)) IN
       IF Stale(s, t) \/ c \in Unreachable
       THEN RecordedAs(c, Owed(c), failed) /\ sweep' = Without(c) /\ UNCHANGED mailed
       ELSE /\ RecordedAs(c, Owed(c) \ {t}, failed)
            /\ sweep' = IF sent THEN [sweep EXCEPT !.sent = <<c, t>>] ELSE Without(c)
            /\ mailed' = IF sent THEN mailed \cup {[co |-> c, ladder |-> LadderOf(s), anchor |-> s.ends, rung |-> t]} ELSE mailed
  /\ UNCHANGED <<day, company, plan, cache, bills, desk>>

\* What was sent is recorded, in a write that may fail.
RecordSent(fails) ==
  /\ sweep.sent # None
  /\ LET c == sweep.sent[1]  R == {sweep.sent[2]} IN
       RecordedAs(c, R, IF fails THEN R ELSE {}) /\ sweep' = Without(c)
  /\ UNCHANGED <<day, company, plan, cache, bills, mailed, desk>>

NotifyQuiet(c) ==
  /\ c \in DOMAIN sweep.rows /\ sweep.sent = None /\ Owed(c) = {}
  /\ sweep' = Without(c)
  /\ UNCHANGED <<day, company, plan, cache, bills, settled, mailed, blotted, desk>>

----------------------------------------------------------------------------

\* Printers come and go as in Fleet.
Printers(c, n) ==
  /\ c \in Open /\ n # company[c].printers
  /\ company' = [company EXCEPT ![c].printers = n]
  /\ UNCHANGED <<day, plan, cache, bills, notes, desk>>

Tick ==
  /\ day < MaxDay /\ day' = day + 1
  /\ UNCHANGED <<company, plan, cache, bills, notes, desk>>

\* The process dies with its requests, its sweep and its cache.
Crash ==
  /\ desk' = [d \in Desks |-> AtRest] /\ sweep' = NoSweep /\ cache' = [c \in Companies |-> None]
  /\ desk' # desk \/ sweep' # sweep
  /\ UNCHANGED <<day, company, plan, bills, settled, mailed, blotted>>

Ends == {None} \cup {day + n : n \in Days}

Groups == (SUBSET Companies) \ {{}}

StatusNext ==
  \/ \E d \in Desks : KeepStatus(d) \/ \E c \in Companies, blind \in BOOLEAN : ReadStatus(d, c, blind)
  \/ \E c \in Companies : ExpireStatus(c) \/ FailOpen(c)

HoldNext ==
  \/ \E d \in Desks, C \in Groups, hold \in {None, "grace", "suspended", "banned"} : SetHold(d, C, hold)
  \/ \E d \in Desks, c \in Companies : RestoreCompany(d, c)
  \/ \E c \in Companies, n \in 0..MaxPrinters : Printers(c, n)

GrantNext ==
  \/ \E g \in Grants, pl \in Plans \ {Trial}, end \in Ends : CreateGrant(g, pl, end)
  \/ \E d \in Desks, g \in Grants : ReadRevoked(d, g) \/ \E c \in Companies : ReadGrant(d, c, g)
  \/ \E d \in Desks : RedeemTx(d) \/ RevokeTx(d)

AssignNext ==
  \E d \in Desks, C \in Groups, pl \in Plans, status \in {"active", "canceled"}, end \in Ends, k \in Discounts \cup {None} :
    Assign(d, C, pl, status, end, k)

TermNext ==
  \/ \E d \in Desks, C \in Groups : BulkEndTrial(d, C) \/ \E n \in Days : BulkExtend(d, C, n)
  \/ \E d \in Desks, c \in Companies : ReadTrial(d, c)
  \/ \E d \in Desks : EndTrial(d)

DealNext ==
  \/ \E d \in Desks, c \in Companies : (\E cap \in Caps \cup {None} : SetCustomPlan(d, c, cap)) \/ \E pl \in Plans : Checkout(d, c, pl)
  \/ \E pl \in Plans : SaveCustomTier(pl)

IssueNext ==
  \/ \E d \in Desks, c \in Companies : ReadIssue(d, c)
  \/ \E d \in Desks : RecordRedemption(d) \/ InsertInvoice(d)
  \/ \E k \in Discounts, on \in BOOLEAN : SwitchDiscount(k, on)

InvoiceNext ==
  \/ \E d \in Desks, c \in Companies, pl \in Plans \ {Trial}, end \in Ends : CreateInvoice(d, c, pl, end)
  \/ \E d \in Desks, op \in {"edit", "drop", "finalize", "mail"}, n \in 1..MaxInvoices : LoadInvoice(d, op, n)
  \/ \E d \in Desks : MailInvoice(d) \/ \E end \in Ends : WriteInvoice(d, end)

NoticeNext ==
  \/ SweepBegin
  \/ \E c \in DOMAIN sweep.rows :
       NotifyQuiet(c) \/ \E sent \in BOOLEAN : \E failed \in SUBSET Owed(c) : Notify(c, sent, failed)
  \/ \E fails \in BOOLEAN : RecordSent(fails)

LicencesNext == StatusNext \/ HoldNext \/ GrantNext \/ AssignNext \/ TermNext \/ DealNext
                \/ IssueNext \/ InvoiceNext \/ NoticeNext \/ Tick \/ Crash

----------------------------------------------------------------------------
(* Properties.                                                             *)

\* A grant code backs at most one company, and one that is revoked backs no
\* plan in force, whoever redeemed it while it was being revoked
\* (redeem, revokeGrant).
CodesCarryOneCompany ==
  \A c \in Licensed : LET g == sub[c].grant IN g # None =>
    /\ grant[g].by = c /\ sub[c].source = "grant_code"
    /\ \A e \in Licensed : sub[e].grant = g => e = c
    /\ grant[g].revoked => sub[c].status = "revoked"

\* A change of plan, a hold or a deletion undone is what the guard goes by in
\* the cache from the moment it is decided.  Two statuses that say otherwise are
\* served for their minute: one that was being resolved when the decision came,
\* and, of holds and deletion, one whose query for them failed after the last
\* decision; neither ever locks out a company nobody holds (getStatus, resolve,
\* invalidate).
DecisionsReachTheGuard ==
  \A c \in Licensed : cache[c] # None /\ ~cache[c].late =>
    LET saw == cache[c].saw IN
    /\ saw.plan = sub[c].plan
    /\ company[c].hold = None /\ ~company[c].deleted => Admits(saw, FALSE)
    /\ ~saw.blind => /\ saw.deleted = company[c].deleted
                     /\ company[c].hold = "banned" => ~Admits(saw, FALSE)
                     /\ company[c].hold = "suspended" => ~Admits(saw, TRUE)

\* Of one end of one plan no company is told an earlier stage after a later
\* one, across crashes, failed deliveries and sweeps that were late, unless a
\* notice could not be recorded (notifyCompany).
NoticesComeInOrder ==
  [][\A x \in mailed' \ mailed : x.co \in blotted \/
       (\A y \in mailed : y.co = x.co /\ y.ladder = x.ladder /\ y.anchor = x.anchor => x.rung < y.rung)]_licenceVars

=============================================================================
