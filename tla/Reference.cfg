CONSTANTS
  Memories = {m1, m2, m3}
  Sources = {s1}
  Envelopes <- MCEnvelopes
  MaxTime = 1
  Tenants = {t1, t2}
  Resources = {r1}
  MaxEntries = 2
  MaxEntriesPerTenant = 1
  MaxIncarnation = 1
  StoreTime = 2
SPECIFICATION MCSpec
INVARIANT StatusesAreExact
INVARIANT ReplayAgrees
INVARIANT LimitsHold
 
CHECK_DEADLOCK FALSE
SYMMETRY MCSymmetry
