CONSTANTS
  Companies = {c, e}  Desks = {d, f}  Grants = {g}  Discounts = {k}
  Plans = {trial, paid, custom}  Trial = trial  Priced = {paid}  Caps = {0}  None = None
  Unreachable = {}
  PlanCap <- MCPlanCap  TrialDays = 2  GraceDays = 1  Lookback = 1
  TrialReminders = {1, 2}  RenewalReminders = {1, 2}
  Enforced = TRUE  MaxUses = 1  Days = {2}  MaxDay = 4  MaxInvoices = 2  MaxPrinters = 1
  People = {u, v, w}  Invites = {i, j}  InviteDays = 1
  Scenes = {{"grant", "day", "issue", "crash"}, {"grant", "assign", "crash"}, {"grant", "term", "day", "issue"},
            {"issue", "assign"}, {"issue", "assign", "one"}, {"invoice"},
            {"notice", "day", "crash"}, {"notice", "day", "term"}, {"notice", "day", "assign", "crash"},
            {"status", "hold"}, {"status", "assign"}, {"status", "term"}, {"status", "deal"}, {"grant", "status"},
            {"purge", "grant"}, {"member", "crash"}, {"member", "day"}, {"member", "purge"}}
SPECIFICATION MCSpec
INVARIANTS CodesCarryOneCompany DecisionsReachTheGuard
PROPERTIES InvitesAdmitOnce NoticesComeInOrder
SYMMETRY MCSymmetry
CHECK_DEADLOCK FALSE
