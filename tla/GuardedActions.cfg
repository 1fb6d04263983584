CONSTANTS
  Requests <- MCRequests
  Agents = {a1, a2}
  Tools = {p1, p2}
  Keys = {k1, k2}
  Actions = {d1, d2}
  Sessions = {s1, s2}
  MaxEntries = 1
  MaxVersion = 3
  MaxFaults = 2
SPECIFICATION MCSpec
INVARIANT KeyHasOneEffect
INVARIANT DefiniteAnswersAreTrue
 
CHECK_DEADLOCK FALSE
SYMMETRY MCSymmetry
