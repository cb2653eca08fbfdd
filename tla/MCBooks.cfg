CONSTANTS
  UserAccounts = {shop}  UserType <- MCUserType
  MaxDay = 2  MaxEntries = 4  MaxEdits = 1  None = None
  Invoices = {i}  Bills = {b}  Payments = {p, q}  Expenses = {e}
  Recurring = {r}  Orders = {o}
  Amounts = {3}  Receipts = {3}  RatePct = 50
  shop = shop  s1 = s1  s2 = s2  s3 = s3
  Spools = {s1, s2, s3}  Stock <- MCStock  Ruined <- MCRuined
  Routes = {"from_order", "recurring", "purchase", "issue"}
  Workers = {w}  Alone = {"from_order", "issue"}
  MaxWaste = 1
  Scenes = {{"chart", "draft", "issue"}, {"draft", "issue", "pay"}, {"chart", "spend"},
            {"terms", "request", "issue", "pay"}}
SPECIFICATION MCSpec
INVARIANTS ControlAccountsReconcile DocumentsOweWhatPaymentsLeave HistoryStaysWhole MarkedMonthWasBilled
PROPERTIES ClosedBooksStayClosed
SYMMETRY MCSymmetry
CHECK_DEADLOCK FALSE
