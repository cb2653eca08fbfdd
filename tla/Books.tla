-------------------------------- MODULE Books --------------------------------
(***************************************************************************)
(* The documents of a company over its ledger: invoices, bills, payments,  *)
(* expenses, recurring bills, purchases of stock and wasted material.      *)
(*                                                                         *)
(* A handler that locks the rows it decides on (FOR UPDATE) is one step.   *)
(* Four requests are split at the awaits between what they read and what   *)
(* they write: drafting an invoice from an order, posting a recurring      *)
(* bill, recording a purchase, which is a chain of separate transactions,  *)
(* and issuing, which reads the lock of the books before its entry: other  *)
(* posting handlers do that too, and are taken as one step here.  A date   *)
(* stands for its month: the period of a recurring bill is the day itself. *)
(* Names, numbers, terms and memos are left out, and the lines of a        *)
(* document are taken as one.                                              *)
(***************************************************************************)
EXTENDS Ledger

CONSTANTS
  Invoices, Bills,      \* ids of documents
  Payments, Expenses,
  Recurring,            \* templates of recurring bills
  Orders,               \* orders invoices are drafted from
  Amounts,              \* prices, in cents
  Receipts,             \* amounts of payments
  RatePct,              \* the tax rate of the company, in percent
  Spools, Stock,        \* what each spool or tank cost and held, its material,
                        \* and whether it is one bought whole
  Ruined,               \* the quantities a failed print may waste, by source
  Routes,               \* the requests that are split
  Workers, Alone,       \* concurrent requests; those nothing runs beside
  MaxWaste              \* bound on recorded waste

VARIABLES
  doc,       \* doc[d]: the row of an invoice or a bill, with its line
  payment,   \* payment[p]: a payment and its applications
  expense,   \* expense[e]
  template,  \* template[r]: a recurring bill
  price,     \* price[o]: what order o sells for now, 0 when it is not priced
  rate,      \* the tax rate: "absent", "active" or "inactive"
  waste,     \* the rows of filament_waste_events
  req        \* req[w]: the request worker w is in the middle of

documents == <<doc, payment, expense, template, price, rate, waste>>
vars == <<ledger, documents, req>>

Docs == Invoices \cup Bills
Live == {"open", "partial", "paid"}

ASSUME BooksAssumption ==
  /\ Amounts \subseteq Nat \ {0} /\ Receipts \subseteq Nat \ {0}
  /\ RatePct \in 0..100 /\ MaxWaste \in Nat /\ Alone \subseteq Routes
  /\ Stock \in [Spools -> [price : Nat, held : Nat, material : STRING, whole : BOOLEAN]]

ASSUME KindsAreDistinct ==
  /\ Invoices \cap Bills = {}
  /\ (Expenses \cup {None}) \cap (Docs \cup Payments) = {}

ASSUME RowsAreFinite ==
  /\ IsFiniteSet(Docs) /\ IsFiniteSet(Payments) /\ IsFiniteSet(Spools)
  /\ \A lost \in Ruined : DOMAIN lost \subseteq Spools /\ \A s \in DOMAIN lost : lost[s] \in Nat

NoDoc == [status |-> "absent", net |-> 0, tax |-> 0, paid |-> 0, entry |-> 0,
          date |-> 1, account |-> None, order |-> None, template |-> None]
NoPayment == [status |-> "absent", amount |-> 0, entry |-> 0,
              applied |-> [d \in {} |-> 0]]
NoExpense == [status |-> "absent", entry |-> 0, accounts |-> {}]
NoTemplate == [status |-> "absent", amount |-> 0, account |-> None, last |-> 0]
Idle == [op |-> "none", at |-> "none", d |-> None, of |-> None, date |-> 1, paid |-> FALSE,
         row |-> NoTemplate]

Init ==
  /\ LedgerInit
  /\ doc = [d \in Docs |-> NoDoc]
  /\ payment = [p \in Payments |-> NoPayment]
  /\ expense = [e \in Expenses |-> NoExpense]
  /\ template = [r \in Recurring |-> NoTemplate]
  /\ price = [o \in Orders |-> 0]
  /\ rate = "absent"
  /\ waste = <<>>
  /\ req = [w \in Workers |-> Idle]

Free == \A w \in Workers : req[w].op \notin Alone

Total(row) == row.net + row.tax
Due(row) == Total(row) - row.paid

\* Accounts a row of a document refers to: they cannot be deleted.
Referenced ==
  {doc[d].account : d \in Docs} \cup (UNION {expense[e].accounts : e \in Expenses})
    \cup {template[r].account : r \in Recurring}

\* Part of n in percent, half a cent rounded up.
Rounded(part, whole) == (2 * part + whole) \div (2 * whole)
TaxOn(net) == Rounded(net * RatePct, 100)

----------------------------------------------------------------------------
(* Drafts.                                                                 *)

LineTypes(d) == IF d \in Invoices THEN {"revenue"} ELSE {"expense", "asset"}

\* The line of a document, as it is written: the account and the rate it
\* names are checked, and the rate is applied to the stored amount.
LineAllowed(d, a, taxed) == /\ a # None => Usable(a, LineTypes(d))
                            /\ taxed => rate = "active"

Lined(row, net, a, taxed) ==
  [row EXCEPT !.net = net, !.account = a, !.tax = IF taxed THEN TaxOn(net) ELSE 0]

Draft(d, net, a, taxed, date) ==
  /\ doc[d].status = "absent" /\ LineAllowed(d, a, taxed)
  /\ doc' = [doc EXCEPT ![d] = Lined([NoDoc EXCEPT !.status = "draft", !.date = date],
                                     net, a, taxed)]

\* A change of a draft, of its lines only when some are given (net is not 0).
Redraft(d, net, a, taxed, date) ==
  /\ doc[d].status = "draft"
  /\ net # 0 => LineAllowed(d, a, taxed)
  /\ LET row == [doc[d] EXCEPT !.date = date]
     IN doc' = [doc EXCEPT ![d] = IF net = 0 THEN row ELSE Lined(row, net, a, taxed)]

OnlyDocs == UNCHANGED <<ledger, payment, expense, template, price, rate, waste, req>>

CreateInvoice(d, net, a, taxed, date) ==
  Free /\ d \in Invoices /\ Draft(d, net, a, taxed, date) /\ OnlyDocs
UpdateInvoice(d, net, a, taxed, date) ==
  Free /\ d \in Invoices /\ Redraft(d, net, a, taxed, date) /\ OnlyDocs
CreateBill(d, net, a, taxed, date) ==
  Free /\ d \in Bills /\ Draft(d, net, a, taxed, date) /\ OnlyDocs
UpdateBill(d, net, a, taxed, date) ==
  Free /\ d \in Bills /\ Redraft(d, net, a, taxed, date) /\ OnlyDocs

----------------------------------------------------------------------------
(* Posting and voiding.                                                    *)

\* What a document posts, from the side of the company: the control account
\* against the account of the line, the tax, and for an invoice of an order
\* the cost of the goods (half of the price here) out of the inventory.
Or(a, role) == IF a = None THEN role ELSE a
CostOf(o) == IF o = None THEN 0 ELSE price[o] \div 2

InvoiceLines(row) ==
  << <<"accounts_receivable", Total(row)>>, <<Or(row.account, "sales"), -row.net>> >>
    \o LineOf("sales_tax_payable", -row.tax)
    \o LineOf("cogs", CostOf(row.order)) \o LineOf("inventory", -CostOf(row.order))

BillLines(row) ==
  << <<Or(row.account, "operating_expenses"), row.net>> >>
    \o LineOf("input_tax_receivable", row.tax)
    \o << <<"accounts_payable", -Total(row)>> >>

Named(lines) == {lines[i][1] : i \in DOMAIN lines} \cap SystemAccounts

Write(d, lines) ==
  /\ Balanced(lines) /\ Len(journal) < MaxEntries
  /\ journal' = Posted(doc[d].date, "document", d, lines)
  /\ account' = Healed(Named(lines))
  /\ doc' = [doc EXCEPT ![d].status = "open", ![d].entry = Len(journal) + 1]
  /\ UNCHANGED <<lock, today, edits>>

Post(d, lines) == doc[d].status = "draft" /\ Total(doc[d]) > 0
                  /\ Unlocked(doc[d].date) /\ Write(d, lines)

Rest == UNCHANGED <<payment, expense, template, price, rate, waste>>

IssueInvoice(d) ==
  Free /\ d \in Invoices /\ Post(d, InvoiceLines(doc[d])) /\ Rest /\ UNCHANGED req

\* The same, when the books are locked between the check and the entry.  The
\* row of the invoice stays locked meanwhile.
IssueRead(w, d) ==
  /\ Free /\ d \in Invoices /\ "issue" \in Routes /\ req[w] = Idle
  /\ doc[d].status = "draft" /\ Total(doc[d]) > 0 /\ Unlocked(doc[d].date)
  /\ req' = [req EXCEPT ![w] = [Idle EXCEPT !.op = "issue", !.at = "post", !.d = d,
                                            !.date = lock]]
  /\ UNCHANGED <<ledger, documents>>

IssueWrite(w) ==
  /\ req[w].op = "issue" /\ Write(req[w].d, InvoiceLines(doc[req[w].d]))
  /\ req' = [req EXCEPT ![w] = Idle] /\ Rest

OpenBill(d) ==
  Free /\ d \in Bills /\ Post(d, BillLines(doc[d])) /\ Rest /\ UNCHANGED req

Voidable(row) == row.status \notin {"absent", "void"} /\ row.paid = 0

Void(d) ==
  /\ Free /\ Voidable(doc[d])
  /\ IF doc[d].status = "draft" THEN UNCHANGED journal
     ELSE Reversible(doc[d].entry) /\ journal' = Reversed(doc[d].entry, d)
  /\ doc' = [doc EXCEPT ![d].status = "void"]
  /\ UNCHANGED <<account, lock, today, edits, req>> /\ Rest

VoidInvoice(d) == d \in Invoices /\ Void(d)
VoidBill(d) == d \in Bills /\ Void(d)

----------------------------------------------------------------------------
(* Payments: in settles invoices, out settles bills; the rest is credit.   *)

StatusPaid(row, paid) == IF paid >= Total(row) THEN "paid" ELSE "partial"

Settled(applied) ==
  [d \in Docs |->
     IF d \in DOMAIN applied
     THEN LET paid == doc[d].paid + applied[d]
          IN [doc[d] EXCEPT !.paid = paid, !.status = StatusPaid(doc[d], paid)]
     ELSE doc[d]]

PaymentLines(incoming, amount, applied) ==
  LET rest == amount - applied
  IN IF incoming
     THEN << <<"cash", amount>> >> \o LineOf("accounts_receivable", -applied)
            \o LineOf("customer_credits", -rest)
     ELSE LineOf("accounts_payable", applied) \o LineOf("vendor_prepayments", rest)
            \o << <<"cash", -amount>> >>

Payable(applied, amount) ==
  /\ \A d \in DOMAIN applied : doc[d].status \in {"open", "partial"} /\ applied[d] <= Due(doc[d])
  /\ SumFunction(applied) <= amount

Pay(p, incoming, amount, applied, date) ==
  LET lines == PaymentLines(incoming, amount, SumFunction(applied))
  IN /\ payment[p].status = "absent" /\ Usable("cash", {"asset"})
     /\ DOMAIN applied \subseteq (IF incoming THEN Invoices ELSE Bills)
     /\ Payable(applied, amount) /\ Postable(date, lines)
     /\ doc' = Settled(applied)
     /\ journal' = Posted(date, "payment", p, lines)
     /\ account' = Healed(Named(lines))
     /\ payment' = [payment EXCEPT ![p] = [status |-> "recorded", amount |-> amount,
                                           entry |-> Len(journal) + 1, applied |-> applied]]
     /\ UNCHANGED <<lock, today, edits, expense, template, price, rate, waste>>

CreatePayment(p, incoming, amount, applied, date) ==
  Free /\ Pay(p, incoming, amount, applied, date) /\ UNCHANGED req

Monus(a, b) == IF a > b THEN a - b ELSE 0

\* Mutant: the settlements stay when the payment goes.
KeptSettlements(applied) == doc

Unsettled(applied) ==
  [d \in Docs |->
     IF d \in DOMAIN applied /\ doc[d].status # "void"
     THEN LET paid == Monus(doc[d].paid, applied[d])
          IN [doc[d] EXCEPT !.paid = paid, !.status = IF paid = 0 THEN "open" ELSE "partial"]
     ELSE doc[d]]

VoidPayment(p) ==
  /\ Free /\ payment[p].status = "recorded" /\ Reversible(payment[p].entry)
  /\ doc' = Unsettled(payment[p].applied)
  /\ journal' = Reversed(payment[p].entry, p)
  /\ payment' = [payment EXCEPT ![p].status = "void"]
  /\ UNCHANGED <<account, lock, today, edits, expense, template, price, rate, waste, req>>

----------------------------------------------------------------------------
(* Expenses, tax rates, templates and prices.                              *)

CreateExpense(e, category, amount, date) ==
  LET lines == << <<category, amount>>, <<"cash", -amount>> >>
  IN /\ Free /\ expense[e].status = "absent" /\ category # "cash"
     /\ Usable(category, {"expense", "asset"}) /\ Usable("cash", {"asset"})
     /\ Postable(date, lines)
     /\ journal' = Posted(date, "expense", e, lines)
     /\ expense' = [expense EXCEPT ![e] = [status |-> "recorded", entry |-> Len(journal) + 1,
                                           accounts |-> {category, "cash"}]]
     /\ UNCHANGED <<account, lock, today, edits, doc, payment, template, price, rate, waste, req>>

VoidExpense(e) ==
  /\ Free /\ expense[e].status = "recorded" /\ Reversible(expense[e].entry)
  /\ journal' = Reversed(expense[e].entry, e)
  /\ expense' = [expense EXCEPT ![e].status = "void"]
  /\ UNCHANGED <<account, lock, today, edits, doc, payment, template, price, rate, waste, req>>

CreateTaxRate == /\ Free /\ Edit /\ rate = "absent" /\ rate' = "active"
                 /\ UNCHANGED <<account, journal, lock, today, doc, payment, expense,
                                template, price, waste, req>>

UpdateTaxRate == /\ Free /\ Edit /\ rate # "absent"
                 /\ rate' = IF rate = "active" THEN "inactive" ELSE "active"
                 /\ UNCHANGED <<account, journal, lock, today, doc, payment, expense,
                                template, price, waste, req>>

SetTemplate(r, row) ==
  /\ Free /\ Edit /\ template' = [template EXCEPT ![r] = row]
  /\ UNCHANGED <<account, journal, lock, today, doc, payment, expense, price, rate, waste, req>>

CreateRecurringBill(r, amount, a) ==
  /\ template[r].status = "absent" /\ a # None => account[a] # "absent"
  /\ SetTemplate(r, [status |-> "active", amount |-> amount, account |-> a, last |-> 0])

UpdateRecurringBill(r, amount) ==
  /\ template[r].status \notin {"absent", "deleted"}
  /\ SetTemplate(r, [template[r] EXCEPT !.amount = amount,
                       !.status = IF @ = "active" THEN "inactive" ELSE "active"])

DeleteRecurringBill(r) ==
  /\ template[r].status \notin {"absent", "deleted"}
  /\ SetTemplate(r, [NoTemplate EXCEPT !.status = "deleted"])

\* Operators reprice an order for as long as they like.
Reprice(o, amount) ==
  /\ Free /\ Edit /\ price[o] # amount /\ price' = [price EXCEPT ![o] = amount]
  /\ UNCHANGED <<account, journal, lock, today, doc, payment, expense, template, rate, waste, req>>

----------------------------------------------------------------------------
(* Requests that are split.                                                *)

Begin(w, op, at, r) ==
  /\ Free /\ op \in Routes /\ req[w] = Idle
  /\ req' = [req EXCEPT ![w] = [r EXCEPT !.op = op, !.at = at]]
  /\ UNCHANGED <<ledger, documents>>

At(w, op, at) == req[w].op = op /\ req[w].at = at
End(w) == req' = [req EXCEPT ![w] = Idle]

\* A request fails at its next statement, or the process goes away: what its
\* finished transactions wrote stays.
Die(w) == /\ req[w] # Idle /\ End(w) /\ UNCHANGED <<ledger, documents>>

\* An invoice from an order.  What it read of the invoice the order already
\* has, if any, decides what it writes.
Prior(o) == {d \in Invoices : doc[d].order = o /\ doc[d].status \notin {"absent", "void"}}

FromOrder(w, o) ==
  \E d \in (IF Prior(o) = {} THEN {None} ELSE Prior(o)) :
    /\ price[o] > 0
    /\ d # None => doc[d].status = "draft" /\ doc[d].paid = 0
    /\ Begin(w, "from_order", "write", [Idle EXCEPT !.of = o, !.d = d])

\* The lines are rewritten whatever became of the invoice meanwhile; the
\* constraint amount_paid <= total is all that may refuse.  A tax rate that
\* is no longer active falls back to no tax.
FromOrderTx(w) ==
  LET o == req[w].of
      priced(row) == Lined(row, price[o], None, rate = "active")
  IN /\ At(w, "from_order", "write") /\ price[o] > 0
     /\ IF req[w].d = None
        THEN \E d \in Invoices :
               /\ doc[d].status = "absent"
               /\ doc' = [doc EXCEPT ![d] = priced([NoDoc EXCEPT !.status = "draft",
                                                   !.date = today, !.order = o])]
        ELSE LET row == priced(doc[req[w].d])
             IN row.paid <= Total(row) /\ doc' = [doc EXCEPT ![req[w].d] = row]
     /\ End(w) /\ UNCHANGED ledger /\ Rest

\* Mutant: the month is marked before its bill is drafted.
MarkedFirst(w, r) ==
  /\ template[r].status = "active" /\ template[r].last # today
  /\ Free /\ "recurring" \in Routes /\ req[w] = Idle
  /\ template' = [template EXCEPT ![r].last = today]
  /\ req' = [req EXCEPT ![w] = [Idle EXCEPT !.op = "recurring", !.at = "draft",
                                            !.of = r, !.date = today, !.row = template[r]]]
  /\ UNCHANGED <<ledger, doc, payment, expense, price, rate, waste>>

\* A recurring bill: checked, drafted and marked in three steps.
PostRecurringBill(w, r) ==
  /\ template[r].status = "active" /\ template[r].last # today
  /\ Begin(w, "recurring", "draft", [Idle EXCEPT !.of = r, !.date = today, !.row = template[r]])

\* The draft, and the mark that follows it, are of the template as read.
RecurringDraft(w) ==
  LET row == req[w].row IN
  /\ At(w, "recurring", "draft")
  /\ \E d \in Bills :
       /\ doc[d].status = "absent" /\ LineAllowed(d, row.account, FALSE)
       /\ doc' = [doc EXCEPT ![d] =
            Lined([NoDoc EXCEPT !.status = "draft", !.date = today,
                                !.template = <<req[w].of, req[w].date>>],
                  row.amount, row.account, FALSE)]
  /\ req' = [req EXCEPT ![w].at = "mark"] /\ UNCHANGED ledger /\ Rest

RecurringMark(w) ==
  /\ At(w, "recurring", "mark")
  /\ template' = [template EXCEPT ![req[w].of].last =
                    IF template[req[w].of].status = "deleted" THEN @ ELSE req[w].date]
  /\ End(w) /\ UNCHANGED <<ledger, doc, payment, expense, price, rate, waste>>

\* A purchase of stock: drafted, opened and, when it was paid for, settled
\* from cash, each in a transaction of its own.  The default rate applies.
RecordInventoryPurchase(w, amount, date, paid) ==
  \E d \in Bills :
    /\ Free /\ "purchase" \in Routes /\ req[w] = Idle /\ doc[d].status = "absent"
    /\ doc' = [doc EXCEPT ![d] = Lined([NoDoc EXCEPT !.status = "draft", !.date = date],
                                       amount, "inventory", rate = "active")]
    /\ account' = Healed({"inventory", "operating_expenses", "cash"})
    /\ Usable("inventory", {"asset"}) \/ account["inventory"] = "absent"
    /\ req' = [req EXCEPT ![w] = [Idle EXCEPT !.op = "purchase", !.at = "open", !.d = d,
                                              !.date = date, !.paid = paid]]
    /\ UNCHANGED <<journal, lock, today, edits>> /\ Rest

PurchaseOpen(w) ==
  /\ At(w, "purchase", "open") /\ Post(req[w].d, BillLines(doc[req[w].d]))
  /\ IF req[w].paid THEN req' = [req EXCEPT ![w].at = "pay"] ELSE End(w)
  /\ Rest

PurchasePay(w) ==
  \E p \in Payments :
    LET d == req[w].d IN
    /\ At(w, "purchase", "pay")
    /\ Pay(p, FALSE, Total(doc[d]), [b \in {d} |-> Total(doc[d])], req[w].date)
    /\ End(w)

----------------------------------------------------------------------------
(* Wasted material, costed from what its spool or tank was bought for or,  *)
(* when that is not known, from what its material costs on average.        *)

Priced(s) == Stock[s].price > 0 /\ Stock[s].held > 0

Kin(s) == {t \in Spools : Priced(t) /\ Stock[t].whole /\ Stock[t].material = Stock[s].material}

CostCents(s, q) ==
  LET cost == SumFunction([t \in Kin(s) |-> Stock[t].price])
      held == SumFunction([t \in Kin(s) |-> Stock[t].held])
  IN IF Priced(s) THEN Rounded(q * Stock[s].price, Stock[s].held)
     ELSE IF Kin(s) = {} THEN 0 ELSE Rounded(q * cost, held)

\* Mutant: the total is rounded once, over all the rows of an entry.
RoundedOnce(lost) ==
  LET whole(s) == IF Priced(s) THEN (lost[s] * Stock[s].price) \div Stock[s].held ELSE 0
  IN MapThenSumSet(whole, DOMAIN lost)

Costs(lost) == [s \in DOMAIN lost |-> CostCents(s, lost[s])]
WasteTotal(lost) == SumFunction(Costs(lost))

\* One entry for the priced total and one row for each source; a row that
\* costs nothing is not covered by the entry.
BookWaste(lost) ==
  LET total == WasteTotal(lost)
      lines == << <<"filament_waste", total>>, <<"inventory", -total>> >>
  IN /\ Free /\ Len(waste) < MaxWaste
     /\ DOMAIN lost # {} /\ \A s \in DOMAIN lost : lost[s] > 0
     /\ IF total = 0 THEN UNCHANGED <<journal, account>>
        ELSE /\ Postable(today, lines)
             /\ journal' = Posted(today, "waste", None, lines)
             /\ account' = Healed(Named(lines))
     /\ waste' = Append(waste,
          [entry |-> IF total > 0 THEN Len(journal) + 1 ELSE 0, cost |-> Costs(lost)])
     /\ UNCHANGED <<lock, today, edits, doc, payment, expense, template, price, rate, req>>

\* A failed piece in filament, from its spools; one in resin, from its one
\* tank; and a whole plate, a row for each piece and source.
RecordFilamentWaste(lost) == BookWaste(lost)
RecordResinWaste(lost) == Cardinality(DOMAIN lost) = 1 /\ BookWaste(lost)
RecordPlateWaste(lost) == Cardinality(DOMAIN lost) > 1 /\ BookWaste(lost)

----------------------------------------------------------------------------
(* The dashboard.                                                          *)

OwedOn(ids) ==
  SumFunction([d \in {x \in ids : doc[x].status \in {"open", "partial"}} |-> Due(doc[d])])

Summary ==
  [cash |-> Balance("cash"), receivables |-> OwedOn(Invoices), payables |-> OwedOn(Bills),
   month |-> ProfitAndLoss(today, MaxDay),
   drafts |-> Cardinality({d \in Invoices : doc[d].status = "draft"}),
   posted |-> Len(journal)]

----------------------------------------------------------------------------

\* The lines, amounts and dates requests carry.
LineAccounts(d) == {None} \cup {a \in UserAccounts : TypeOf(a) \in LineTypes(d)}

Applications(amount) ==
  UNION {[S -> 1..amount] : S \in (SUBSET Invoices) \cup (SUBSET Bills)}

Chart(Act) == Free /\ Act /\ UNCHANGED <<documents, req>>

ChartNext ==
  \/ Chart(Midnight)
  \/ \E d \in 0..MaxDay : UpdateSettings(d) /\ UNCHANGED <<documents, req>>
  \/ \E a \in Accounts : \/ Chart(CreateAccount(a))
                         \/ Chart(UpdateAccount(a))
                         \/ Chart(DeleteAccount(a, Referenced))
  \/ \E a \in UserAccounts, x \in Amounts, d \in Days :
       Chart(CreateManualEntry(d, << <<a, x>>, <<"cash", -x>> >>))

DraftNext ==
  \/ \E d \in Docs, x \in Amounts, taxed \in BOOLEAN, on \in Days : \E a \in LineAccounts(d) :
       CreateInvoice(d, x, a, taxed, on) \/ CreateBill(d, x, a, taxed, on)
  \/ \E d \in Docs, x \in Amounts \cup {0}, taxed \in BOOLEAN, on \in Days :
       \E a \in LineAccounts(d) :
         UpdateInvoice(d, x, a, taxed, on) \/ UpdateBill(d, x, a, taxed, on)

TermsNext ==
  \/ CreateTaxRate \/ UpdateTaxRate
  \/ \E r \in Recurring, x \in Amounts : \/ \E a \in LineAccounts(r) : CreateRecurringBill(r, x, a)
                                        \/ UpdateRecurringBill(r, x)
  \/ \E r \in Recurring : DeleteRecurringBill(r)
  \/ \E o \in Orders, x \in Amounts : Reprice(o, x)

IssueNext ==
  \/ \E d \in Docs : IssueInvoice(d) \/ OpenBill(d) \/ VoidInvoice(d) \/ VoidBill(d)
  \/ \E w \in Workers : IssueWrite(w) \/ \E d \in Docs : IssueRead(w, d)

PayNext ==
  \/ \E p \in Payments, x \in Receipts, incoming \in BOOLEAN, d \in Days :
       \E applied \in Applications(x) : CreatePayment(p, incoming, x, applied, d)
  \/ \E p \in Payments : VoidPayment(p)

SpendNext ==
  \/ \E e \in Expenses, a \in UserAccounts, x \in Amounts, d \in Days : CreateExpense(e, a, x, d)
  \/ \E e \in Expenses : VoidExpense(e)
  \/ \E lost \in Ruined : RecordFilamentWaste(lost) \/ RecordResinWaste(lost) \/ RecordPlateWaste(lost)

RequestNext ==
  \E w \in Workers :
    \/ Die(w) \/ FromOrderTx(w) \/ RecurringDraft(w) \/ RecurringMark(w)
    \/ PurchaseOpen(w) \/ PurchasePay(w)
    \/ \E o \in Orders : FromOrder(w, o)
    \/ \E r \in Recurring : PostRecurringBill(w, r)
    \/ \E x \in Amounts, d \in Days, paid \in BOOLEAN : RecordInventoryPurchase(w, x, d, paid)

Next == \/ ChartNext \/ DraftNext \/ TermsNext \/ IssueNext \/ PayNext
        \/ SpendNext \/ RequestNext

Spec == Init /\ [][Next]_vars

----------------------------------------------------------------------------
(* Properties.                                                             *)

\* Rows hold what their columns may.
TypeOK ==
  /\ LedgerTypeOK
  /\ \A d \in Docs : /\ doc[d].status \in {"absent", "draft", "void"} \cup Live
                      /\ {doc[d].net, doc[d].tax, doc[d].paid} \subseteq Nat
                      /\ doc[d].entry \in 0..Len(journal) /\ doc[d].date \in Days
  /\ \A p \in Payments : /\ payment[p].status \in {"absent", "recorded", "void"}
                          /\ DOMAIN payment[p].applied \subseteq Docs
  /\ \A r \in Recurring : template[r].last \in 0..MaxDay
  /\ Len(waste) \in 0..MaxWaste

EntriesOf(x) == {n \in DOMAIN journal : journal[n].of = x}

\* The control accounts, the dashboard and the rows tell the same story: what
\* documents, payments and their reversals left on receivables and payables
\* is what the open documents still owe, and what waste entries put on the
\* waste account is what the waste rows cost, each row rounded on its own.
ControlAccountsReconcile ==
  LET trade == UNION {EntriesOf(x) : x \in Docs \cup Payments}
  IN /\ Net("accounts_receivable", trade) = Summary.receivables
     /\ -Net("accounts_payable", trade) = Summary.payables
     /\ Net("filament_waste", {n \in DOMAIN journal : journal[n].source = "waste"})
          = SumFunction([i \in DOMAIN waste |-> SumFunction(waste[i].cost)])

\* amount_paid of a document is the sum of the payments that stand, its
\* status says so, and no payment is left on a document that went away.
DocumentsOweWhatPaymentsLeave ==
  \A d \in Docs :
    LET standing == {p \in Payments : payment[p].status = "recorded" /\ d \in DOMAIN payment[p].applied}
    IN /\ doc[d].paid = SumFunction([p \in standing |-> payment[p].applied[d]])
       /\ doc[d].paid > 0 => doc[d].status = IF Due(doc[d]) = 0 THEN "paid" ELSE "partial"
       /\ Due(doc[d]) >= 0

\* Rows are well formed, no account disappears under its history, and assets
\* equal claims on every day.
HistoryStaysWhole == TypeOK /\ EntriesAreSound /\ SheetsBalance

\* A month a template is marked for has its bill, whatever died half-way.
MarkedMonthWasBilled ==
  \A r \in Recurring : template[r].last # 0 =>
    \E d \in Bills : doc[d].template = <<r, template[r].last>>

\* While the books are locked, no report over the locked days changes, whether
\* documents are back-dated, voided or bought; the one exception is a request
\* that read the lock before it moved over its day.
ClosedBooksStayClosed ==
  [][\A d \in 1..lock :
       \/ /\ BalanceSheet(d)' = BalanceSheet(d)
          /\ ProfitAndLoss(1, d)' = ProfitAndLoss(1, d)
       \/ \E w \in Workers : req[w].op = "issue" /\ req[w].date < d]_vars

=============================================================================
