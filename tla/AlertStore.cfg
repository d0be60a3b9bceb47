SPECIFICATION Spec
CONSTANTS
  Queries <- MCQueries
  PromAlerts <- MCPromAlerts
  Tenant = {"application", "infrastructure"}
  LokiAlerts <- MCLokiAlerts
  Managed <- MCManaged
INVARIANTS
  Sound
  RuleAlertsKept
CHECK_DEADLOCK FALSE
