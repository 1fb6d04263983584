\* Liveness: two concurrent calls over a memory with two sources, asked one after
\* the other through shared flights, and a memory without evidence.
CONSTANTS
  m1 = m1
  m2 = m2
  s1 = s1
  s2 = s2
  c1 = c1
  c2 = c2
  Memories = {m1, m2}
  Sources = {s1, s2}
  Calls = {c1, c2}
  EvidenceOf <- TwoSources
  DependsOn <- SecondOnFirst
  Batches = {}
  Results = {"UNCHANGED", "THROWS"}
  Modes <- AllModes
  MaxDisturbances = 1
SPECIFICATION FairSpec
PROPERTY EveryCallSettles
