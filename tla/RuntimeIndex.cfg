\* Three memories on one source, a store with or without a revision, one outside
\* write.
CONSTANTS
  Memories = {m1, m2, m3}
  Sources = {s1}
  Inputs <- MCInputs
  OutsideInputs <- MCOutsideInputs
  Snapshots <- MCSnapshots
  MaxOutside = 1
SYMMETRY MemorySymmetry
SPECIFICATION IndexSpec
INVARIANT SignalReachesConcerned
INVARIANT IndexesMatchRecords
