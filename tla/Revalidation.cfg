\* Two concurrent calls over two memories on one source: shared flights and
\* receipts, a store with compare-and-swap or with a revision only.
CONSTANTS
  m1 = m1
  m2 = m2
  s1 = s1
  s2 = s2
  c1 = c1
  c2 = c2
  Memories = {m1, m2}
  Sources = {s1}
  Calls = {c1, c2}
  EvidenceOf <- OneSource
  DependsOn <- SecondOnFirst
  Batches <- BothMemories
  Results = {"UNCHANGED", "CHANGED", "UNKNOWN", "THROWS"}
  Modes <- SharingModes
  MaxDisturbances = 2
SYMMETRY CallSymmetry
SPECIFICATION Spec
 
 
PROPERTY CommitsOnCurrentRecord
