SPECIFICATION Spec
CONSTANTS
  h1 = h1
  h2 = h2
  f1 = f1
  f2 = f2
  f3 = f3
  same = same
  nothing = nothing
  Handlers = {h1, h2}
  Kinds <- MCKinds
  Budgets <- MCBudgets
  MaxRetry = 1
  Scanned = {"shop"}
  Contents <- MCContents
  Committed <- MCCommitted
  Advisories <- MCAdvisories
  Affected <- MCAffected
  Aliases <- MCAliases
  Advised <- MCAdvised
  Catalog = {"CVE-1"}
  Findings = {f1, f2, f3}
  Facts <- MCFacts
  CategoryOf <- MCCategoryOf
  Scans = {"semgrep", "gosec"}
  Summarized = {f1, f2, f3}
  Described = {f3}
  Signature <- MCSignature
  Triaged = {f1, f2}
  Statuses = {"open", "fixed"}
  Owners = {"ann", "team"}
  Members = {"ann"}
  Same = same
  Nothing = nothing
  Changes <- MCChanges
  JiraChanges <- MCJiraChanges
  PolicyActions <- MCPolicyActions
  Webhooks = {"hook"}
  Topics = {"finding.critical", "finding.sla_breach"}
  Subscriptions = {{"finding.created"}, {"finding.sla_breach"}}
  Overdue <- MCOverdue
  ListLimit = 1
  SettingsEdits <- MCSettingsEdits
  DefaultSettings <- MCSettings
  Schedulers = {"worker"}
  HoursPerDay = 2
  MinutesPerHour = 2
  DigestHour = 1
  Pause = 1
  StartTimes = {2}
SYMMETRY HandlerSymmetry
INVARIANTS
  HitsAreReportedOnce
  InventoryIsBounded
  ConfidenceIsEarned
  SummariesAreAwaited
  DetailIsFresh
  TicketsAreLinked
  DeliveriesAreAccounted
  AlertsAreBounded
  PeriodicalsComeOnce
CHECK_DEADLOCK FALSE
