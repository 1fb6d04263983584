\* In the process: two callers; one resource with two scopes for one version and
\* a scope for another; three flights.  In the database: two workers with
\* unrelated clocks, one scope, two receipts, instants and tokens up to 3.
\* The bound on flights uses up the calls: deadlock is not checked.
CONSTANTS
  a1 = a1
  a2 = a2
  b1 = b1
  v1 = v1
  v2 = v2
  r1 = r1
  Callers = {c1, c2}
  Scopes = {a1, a2, b1}
  Resources = {r1}
  Versions = {v1, v2}
  ResourceOf <- MCResourceOf
  VersionOf <- MCVersionOf
  Options <- MCOptions
  MaxFlights = 3
  PgScopes = {s1}
  Workers = {w1, w2}
  Receipts = {q1, q2}
  MaxSafeInteger = 3
SPECIFICATION MCSpec
SYMMETRY MCSymmetry
INVARIANT FencedExactlyWhenOvertaken
INVARIANT NobodyWaitsInVain
INVARIANT OneReceiptPerToken
PROPERTY NothingOldIsUsed
CHECK_DEADLOCK FALSE
