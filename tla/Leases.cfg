\* Two managers with clocks of their own in front of the in-memory store, or
\* two connections whose clocks are unrelated; two callers with one lease
\* identifier, one scope, time and tokens up to a "MAX_SAFE_INTEGER" of 3.
CONSTANTS
  Scopes = {s1}
  Owners = {o1, o2}
  LeaseIds = {l1}
  MaxSafeInteger = 3
  Managers = {m1, m2}
  Durations = {1, 2}
  Clients = {k1, k2}
SPECIFICATION MCSpec
INVARIANT LeaseInv
PROPERTY AcceptedOnlyWhileHeld
PROPERTY GrantsNeverOverlap
PROPERTY OnlyNewestTokenAccepted
PROPERTY ImplementsContract
PROPERTY PostgresImplementsContract
SYMMETRY MCSymmetry
