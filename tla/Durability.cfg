\* The mirror: two records, two events, a queue of three tasks, one fault.
\* The tables: two tenants, one writer (as the mirror's chain of event tasks is),
\* two replay calls of one consumer, one restore.  The journal: crashes inside
\* every write, one write that fails while the process goes on, three cursors.
\* A store that was closed or refuses to load stays as it is: deadlock is not
\* checked.
CONSTANTS
  Records = {r1, r2}
  Keys = {k1, k2}
  Ids = {i1}
  Requests = {q1}
  Concurrency = 2
  MaxPending = 3
  MaxBatch = 2
  MaxTasks = 4
  MaxFaults = 1
  Tenants = {t1, t2}
  Sessions = {w1}
  Consumers = {c1, c2}
  Appends <- MCAppends
  BatchSize = 1
  MaxSequence = 3
  MaxRestores = 1
  JournalKeys = {j1, j2}
  EventIds = {e1, e2}
  MaxFailures = 1
  MaxCursor = 3
SYMMETRY MCSymmetry
SPECIFICATION MCSpec
INVARIANT AnsweredIsDurable
INVARIANT WritesKeepTheirOrder
INVARIANT QueueProceeds
 
INVARIANT JournalKeepsEntries
CHECK_DEADLOCK FALSE
