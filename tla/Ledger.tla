------------------------------- MODULE Ledger -------------------------------
(***************************************************************************)
(* The double-entry ledger of one company: the chart of accounts, the      *)
(* posting engine, the period lock and the reports over posted entries.    *)
(*                                                                         *)
(* A line of an entry is a pair <<account, amount>>: a debit is positive,  *)
(* a credit negative, in whole cents.  Entries are only ever added: the    *)
(* triggers of journal_entries and journal_lines refuse anything else.     *)
(* An account is named by its code, a system account by the role           *)
(* (account_subtype) through which the engine finds it.                    *)
(***************************************************************************)
EXTENDS Integers, Sequences, FiniteSetsExt, Functions

CONSTANTS
  UserAccounts, UserType,  \* accounts operators create, and their types
  MaxDay,                  \* bound on dates
  MaxEntries,              \* bound on the journal
  MaxEdits,                \* bound on changes of the accounts and settings
  None

\* The accounts a company is seeded with.
SystemType ==
  [cash |-> "asset", accounts_receivable |-> "asset", inventory |-> "asset",
   input_tax_receivable |-> "asset", vendor_prepayments |-> "asset",
   accounts_payable |-> "liability", sales_tax_payable |-> "liability",
   customer_credits |-> "liability", sales |-> "revenue", cogs |-> "expense",
   operating_expenses |-> "expense", filament_waste |-> "expense"]

SystemAccounts == DOMAIN SystemType
Accounts == SystemAccounts \cup UserAccounts
Types == {"asset", "liability", "equity", "revenue", "expense"}
TypeOf(a) == IF a \in SystemAccounts THEN SystemType[a] ELSE UserType[a]

ASSUME LedgerAssumption ==
  /\ UserAccounts \cap SystemAccounts = {}
  /\ UserType \in [UserAccounts -> Types]
  /\ MaxDay \in Nat \ {0} /\ {MaxEntries, MaxEdits} \subseteq Nat

ASSUME ChartIsFinite == IsFiniteSet(UserAccounts)

VARIABLES
  account,  \* account[a]: "absent", "active" or "inactive"
  journal,  \* the posted entries, in order
  lock,     \* the books are locked through this day, 0 when they are not
  today,    \* the date
  edits     \* changes made to the accounts and the settings so far

ledger == <<account, journal, lock, today, edits>>

Days == 1..MaxDay

LedgerInit ==
  /\ account = [a \in Accounts |-> IF a \in SystemAccounts THEN "active" ELSE "absent"]
  /\ journal = <<>>
  /\ lock = 0
  /\ today = 1
  /\ edits = 0

----------------------------------------------------------------------------
(* Posting.                                                                *)

SumOf(lines, Part(_)) == SumFunction([i \in DOMAIN lines |-> Part(lines[i][2])])

Debit(x)  == IF x > 0 THEN x ELSE 0
Credit(x) == IF x < 0 THEN -x ELSE 0
Debits(lines)  == SumOf(lines, Debit)
Credits(lines) == SumOf(lines, Credit)

Balanced(lines) ==
  Len(lines) >= 2 /\ Debits(lines) = Credits(lines) /\ Debits(lines) > 0

\* Mutant: the last day of the locked period is left open.
UnlockedButLast(date) == date >= lock

Unlocked(date) == date > lock

\* Whether an entry may be posted, and the journal with it.
Postable(date, lines) ==
  Balanced(lines) /\ Unlocked(date) /\ Len(journal) < MaxEntries

Entry(date, source, of, lines) ==
  [date |-> date, source |-> source, of |-> of, reverses |-> 0, lines |-> lines]

Posted(date, source, of, lines) == Append(journal, Entry(date, source, of, lines))

Mirror(n) == [i \in DOMAIN journal[n].lines |->
                <<journal[n].lines[i][1], -journal[n].lines[i][2]>>]

Reversible(n) == Postable(today, Mirror(n))

Reversed(n, of) ==
  Append(journal, [Entry(today, "reversal", of, Mirror(n)) EXCEPT !.reverses = n])

\* What an account receives from the lines: they are left out when zero.
LineOf(a, amount) == IF amount = 0 THEN <<>> ELSE << <<a, amount>> >>

\* The accounts after the engine looked up the given roles: a missing one
\* makes it seed every default account again.
Healed(roles) ==
  IF \E a \in roles : account[a] = "absent"
  THEN [a \in Accounts |-> IF a \in SystemAccounts /\ account[a] = "absent"
                           THEN "active" ELSE account[a]]
  ELSE account

\* An account a request names must exist, be active and be of an allowed type.
Usable(a, types) == account[a] = "active" /\ TypeOf(a) \in types

----------------------------------------------------------------------------
(* The chart of accounts and the settings.                                 *)

Edit == edits < MaxEdits /\ edits' = edits + 1

CreateAccount(a) ==
  /\ Edit /\ a \in UserAccounts /\ account[a] = "absent"
  /\ account' = [account EXCEPT ![a] = "active"]
  /\ UNCHANGED <<journal, lock, today>>

UpdateAccount(a) ==
  /\ Edit /\ account[a] # "absent"
  /\ account' = [account EXCEPT ![a] = IF @ = "active" THEN "inactive" ELSE "active"]
  /\ UNCHANGED <<journal, lock, today>>

\* Mutant: an account goes whatever was posted to it.
NeverActive(a) == FALSE

HasActivity(a) ==
  \E n \in DOMAIN journal : \E i \in DOMAIN journal[n].lines : journal[n].lines[i][1] = a

\* referenced: the accounts a foreign key of a document holds on to.
DeleteAccount(a, referenced) ==
  /\ Edit /\ account[a] # "absent" /\ ~HasActivity(a) /\ a \notin referenced
  /\ account' = [account EXCEPT ![a] = "absent"]
  /\ UNCHANGED <<journal, lock, today>>

UpdateSettings(date) ==
  /\ Edit /\ lock' = date
  /\ UNCHANGED <<account, journal, today>>

CreateManualEntry(date, lines) ==
  /\ \A i \in DOMAIN lines : Usable(lines[i][1], Types)
  /\ Postable(date, lines)
  /\ journal' = Posted(date, "manual", None, lines)
  /\ UNCHANGED <<account, lock, today, edits>>

Midnight == /\ today < MaxDay /\ today' = today + 1
            /\ UNCHANGED <<account, journal, lock, edits>>

----------------------------------------------------------------------------
(* Reports over the posted entries dated from..to.                         *)

Within(from, to) == {n \in DOMAIN journal : journal[n].date \in from..to}

Net(a, entries) ==
  LET net(n) == SumFunction([i \in DOMAIN journal[n].lines |->
                               IF journal[n].lines[i][1] = a THEN journal[n].lines[i][2] ELSE 0])
  IN SumFunction([n \in entries |-> net(n)])

DebitNormal == {"asset", "expense"}

\* accountLedger and listAccounts, without a period.
Balance(a) == Net(a, DOMAIN journal)

\* What an account shows: positive on the normal side of its type.
Shown(a, entries) ==
  IF TypeOf(a) \in DebitNormal THEN Net(a, entries) ELSE -Net(a, entries)

OfType(type, entries) ==
  SumFunction([a \in {b \in Accounts : TypeOf(b) = type} |-> Shown(a, entries)])

\* The trial balance joins the entries of the period to lines it has already
\* taken: the period drops the entry from a row, never the line from the sum.
TrialBalance(a, from, to) ==
  LET of(x) == IF x[1] = a THEN x[2] ELSE 0
      side(Part(_)) == SumFunction([n \in DOMAIN journal |->
                         SumFunction([i \in DOMAIN journal[n].lines |-> Part(of(journal[n].lines[i]))])])
  IN [debit |-> side(Debit), credit |-> side(Credit)]

ProfitAndLoss(from, to) ==
  LET n == Within(from, to)
  IN [revenue |-> OfType("revenue", n), expenses |-> OfType("expense", n),
      net |-> OfType("revenue", n) - OfType("expense", n)]

BalanceSheet(asOf) ==
  LET n == Within(1, asOf)
      earnings == OfType("revenue", n) - OfType("expense", n)
  IN [assets |-> OfType("asset", n),
      claims |-> OfType("liability", n) + OfType("equity", n) + earnings]

----------------------------------------------------------------------------
(* Properties.                                                             *)

LedgerTypeOK ==
  /\ account \in [Accounts -> {"absent", "active", "inactive"}]
  /\ Len(journal) \in 0..MaxEntries
  /\ \A n \in DOMAIN journal : journal[n].date \in Days
  /\ lock \in 0..MaxDay /\ today \in Days /\ edits \in 0..MaxEdits

\* Every entry balances, is dated, and names accounts that still exist: no
\* account disappears under the history that was posted to it.
EntriesAreSound ==
  \A n \in DOMAIN journal :
    /\ Balanced(journal[n].lines)
    /\ \A i \in DOMAIN journal[n].lines : account[journal[n].lines[i][1]] # "absent"

\* Assets equal liabilities, equity and earnings on every day one may ask for,
\* and the two sides of the trial balance are equal.
SheetsBalance ==
  /\ \A d \in Days : BalanceSheet(d).assets = BalanceSheet(d).claims
  /\ SumFunction([a \in Accounts |-> TrialBalance(a, 1, MaxDay).debit])
       = SumFunction([a \in Accounts |-> TrialBalance(a, 1, MaxDay).credit])
=============================================================================
