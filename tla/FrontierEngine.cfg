\* Three nodes: a chain, or a pair of roots to which a join is added; one change
\* of the graph, every set of nodes marked with two severities.
CONSTANTS
  Nodes <- MCNodes
  Dirty = {"STALE", "UNKNOWN"}
  InitialGraphs <- MCGraphs
  Edits <- MCEdits
  Snapshots <- MCSnapshots
  MaxChanges = 1
SPECIFICATION Spec
INVARIANT AnswersAreExact
