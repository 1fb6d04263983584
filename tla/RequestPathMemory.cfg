CONSTANTS
  Calls = {c1, c2}
  Requests <- MCOneRequest
  Modes = {"memory"}
  Signed = {FALSE}
  MaxAttempts = 2
  MaxFaults = 2
  Parts = {"request"}
  Premises = {p1, p2}
  Inputs <- MCInputs
  MaxVersion = 2
  MaxCommits = 3
  Deliveries = {w1, w2}
  MaxRetries = 1
  DedupEntries = 1
  MaxAge = 0
  DeliveryClock = 1
  MaxRestarts = 1
  Keys = {y1, y2}
  Callers = {u1, u2}
  Ttl = 1
  MaxInvalidations = 2
  MaxClock = 2
  Events = {e1, e2, e3}
  Secrets = {e3}
  AuditEntries = 3
  MaxMishaps = 3
SPECIFICATION MCSpec
INVARIANT RepetitionReturnsResult
CHECK_DEADLOCK FALSE
