SPECIFICATION Spec
CONSTANTS
  Queries <- MCQueries
  PromAlerts <- MCPromAlerts
  Tenant = {"application", "infrastructure"}
  LokiAlerts <- MCLokiAlerts
  Managed <- MCManaged
INVARIANTS
  TimesOfSame
CHECK_DEADLOCK FALSE
