SPECIFICATION Spec
CONSTANTS
  c1 = c1
  c2 = c2
  c3 = c3
  Container = {c1, c2, c3}
  Log <- MCLog
  Limit = 2
  Worker = {"w1", "w2"}
  QueryString = {"log", "bad"}
  BadString = {"bad"}
  LogString = "log"
INVARIANTS
  RunOnce
  NoSendOnClosed
  Complete
PROPERTIES
  ImplementsAnswer
  WorkerReturns
CHECK_DEADLOCK FALSE
