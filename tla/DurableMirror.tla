---------------------------- MODULE DurableMirror ----------------------------
(***************************************************************************)
(* DurableMirrorStore (ops/runtime-store.mjs): the operations of the       *)
(* runtime change an in-memory mirror at once and enqueue what PostgreSQL  *)
(* is to be told.  A task waits for the tasks it depends on, at most       *)
(* Concurrency tasks run, events of one turn of the event loop share a     *)
(* batch, and the first failure ends all writing.  The response barrier of *)
(* ops/server.mjs answers a write after flush.                             *)
(*                                                                         *)
(* JavaScript runs an operation to its end, so each operation is a step;   *)
(* between two steps statements of started tasks reach the database, their *)
(* answers come back, answers are lost and the process crashes.  A record  *)
(* is the revision of the write that stored it.                            *)
(***************************************************************************)
EXTENDS Integers, Sequences, FiniteSets, SequencesExt, FiniteSetsExt

CONSTANTS Records,
          Keys, Ids,        \* idempotency keys and identities of events
          Requests,         \* callers of flush
          Concurrency,      \* started tasks, 1 .. 64
          MaxPending,       \* maxPendingWrites
          MaxBatch,         \* MAX_EVENT_BATCH_SIZE
          MaxTasks,         \* bound: tasks ever enqueued
          MaxFaults         \* bound: failed statements and crashes

ASSUME MirrorAssumption ==
  /\ {Concurrency, MaxPending, MaxBatch, MaxTasks} \subseteq Nat \ {0}
  /\ MaxFaults \in Nat

Events == [key : Keys, id : Ids]

VARIABLES mirror,     \* records, events (in order), epoch: the last restore
          db,         \* the same in PostgreSQL
          tasks,      \* unsettled tasks by number
          ready,      \* tasks without dependencies that wait for a writer
          tails,      \* record -> its last task, 0 when there was none
          lastEventTask, restoreTask, eventBatch,   \* task numbers, 0 for none
          failure,    \* a statement failed: nothing is written any more
          closed,     \* the store was closed
          flushing,   \* request -> its flush, or none
          promised,   \* history: what the answered flushes covered
          enqueued, faults    \* counters for the bounds

queue == <<tasks, ready, tails, lastEventTask, restoreTask, eventBatch>>
vars  == <<mirror, db, queue, failure, closed, flushing, promised, enqueued, faults>>

Contents == [records : [Records -> 0 .. MaxTasks], events : Seq(Events),
             epoch : 0 .. MaxTasks]
Empty == [records |-> [r \in Records |-> 0], events |-> <<>>, epoch |-> 0]

NoFlush == [waits |-> {}, covers |-> {}]

(* put, putAndAppend, an event batch and restore write the records and     *)
(* append the events they hold; "waits" are the record writes a batch      *)
(* awaits once it was closed.                                              *)
Tasks == [kind : {"put", "both", "batch", "restore"},
          records : UNION {[R -> 1 .. MaxTasks] : R \in SUBSET Records},
          events : Seq(Events), deps : SUBSET (1 .. MaxTasks),
          waits : SUBSET (1 .. MaxTasks),
          phase : {"queued", "started", "closed", "written"}]

TypeOK ==
  /\ mirror \in Contents /\ db \in Contents
  /\ DOMAIN tasks \subseteq 1 .. enqueued
  /\ \A t \in DOMAIN tasks : tasks[t] \in Tasks
  /\ ToSet(ready) \subseteq DOMAIN tasks /\ IsInjective(ready)
  /\ tails \in [Records -> 0 .. enqueued]
  /\ {lastEventTask, restoreTask, eventBatch} \subseteq 0 .. enqueued
  /\ failure \in BOOLEAN /\ closed \in BOOLEAN
  /\ \A c \in Requests : /\ flushing[c].waits \subseteq 1 .. enqueued
                         /\ flushing[c].covers \subseteq Contents
                         /\ Cardinality(flushing[c].covers) <= 1
  /\ promised \in Contents
  /\ enqueued \in 0 .. MaxTasks /\ faults \in 0 .. MaxFaults

Init ==
  /\ mirror = Empty /\ db = Empty
  /\ tasks = [t \in {} |-> {}] /\ ready = <<>>
  /\ tails = [r \in Records |-> 0]
  /\ lastEventTask = 0 /\ restoreTask = 0 /\ eventBatch = 0
  /\ failure = FALSE /\ closed = FALSE
  /\ flushing = [c \in Requests |-> NoFlush]
  /\ promised = Empty
  /\ enqueued = 0 /\ faults = 0
-----------------------------------------------------------------------------
Pending == DOMAIN tasks

Started(ts) == {t \in DOMAIN ts : ts[t].phase # "queued"}

EnsureWritable == ~failure /\ ~closed
EnsureCapacity == Cardinality(Pending) < MaxPending

(* pump: the tasks at the head of ready start while a writer is free.      *)
Pump(ts, rd) ==
  LET free  == Concurrency - Cardinality(Started(ts))
      n     == IF free < Len(rd) THEN free ELSE Len(rd)
      begun == {rd[i] : i \in 1 .. n}
  IN /\ tasks' = [t \in DOMAIN ts |-> IF t \in begun
                                      THEN [ts[t] EXCEPT !.phase = "started"]
                                      ELSE ts[t]]
     /\ ready' = SubSeq(rd, n + 1, Len(rd))

Task(kind, records, events, deps) ==
  [kind |-> kind, records |-> records, events |-> events,
   deps |-> deps \cap Pending, waits |-> {}, phase |-> "queued"]

(* enqueue: task number enqueued + 1. *)
Enqueue(task) ==
  /\ enqueued < MaxTasks
  /\ enqueued' = enqueued + 1
  /\ Pump([t \in Pending \cup {enqueued + 1} |->
             IF t = enqueued + 1 THEN task ELSE tasks[t]],
          IF task.deps = {} THEN Append(ready, enqueued + 1) ELSE ready)

(* The dependents of settled tasks that wait for nothing else are ready,   *)
(* in the order in which they were enqueued.                               *)
Ascending(S) == CHOOSE s \in SetToSeqs(S) : \A i, j \in DOMAIN s : i < j => s[i] < s[j]

Released(ts, gone) ==
  Ascending({t \in DOMAIN ts : /\ ts[t].phase = "queued" /\ ts[t].deps # {}
                               /\ ts[t].deps \subseteq gone})

(* settle: a settled task is nobody's dependency any more. *)
Forget(t, gone) == IF t \in gone THEN 0 ELSE t

Settled(gone) ==
  LET left == [t \in Pending \ gone |->
                 [tasks[t] EXCEPT !.deps = @ \ gone, !.waits = @ \ gone]]
  IN /\ Pump(left, ready \o Released([t \in Pending \ gone |-> tasks[t]], gone))
     /\ tails' = [r \in Records |-> Forget(tails[r], gone)]
     /\ lastEventTask' = Forget(lastEventTask, gone)
     /\ restoreTask' = Forget(restoreTask, gone)
     /\ flushing' = [c \in Requests |-> [flushing[c] EXCEPT !.waits = @ \ gone]]

Stored(e) == \E i \in DOMAIN mirror.events : mirror.events[i] = e
Conflicts(e) == \E i \in DOMAIN mirror.events : /\ mirror.events[i].key = e.key
                                                /\ mirror.events[i].id # e.id

Added(events, e) == IF e \in ToSet(events) THEN events ELSE Append(events, e)

PendingPuts == {t \in Pending : tasks[t].kind \in {"put", "both"}}

Now(r) == [x \in {r} |-> enqueued + 1]
-----------------------------------------------------------------------------
Put(r) ==
  /\ EnsureWritable /\ EnsureCapacity
  /\ mirror' = [mirror EXCEPT !.records[r] = enqueued + 1]
  /\ Enqueue(Task("put", Now(r), <<>>, {restoreTask, tails[r]}))
  /\ tails' = [tails EXCEPT ![r] = enqueued + 1]
  /\ UNCHANGED <<db, lastEventTask, restoreTask, eventBatch, failure, closed,
                 flushing, promised, faults>>

BatchStaysOpen(t) == UNCHANGED eventBatch  \* mutant: putAndAppend leaves the batch open
BatchCloses(t) == eventBatch' = 0

PutAndAppend(r, e) ==
  /\ EnsureWritable /\ EnsureCapacity /\ ~Conflicts(e)
  /\ mirror' = [mirror EXCEPT !.records[r] = enqueued + 1, !.events = Added(@, e)]
  /\ BatchCloses(enqueued + 1)
  /\ Enqueue(Task("both", Now(r), <<e>>, {restoreTask, lastEventTask, tails[r]}))
  /\ tails' = [tails EXCEPT ![r] = enqueued + 1]
  /\ lastEventTask' = enqueued + 1
  /\ UNCHANGED <<db, restoreTask, failure, closed, flushing, promised, faults>>

(* An event joins the open batch, which then waits for every record write  *)
(* that is pending now, or opens one.                                      *)
BatchWaits == PendingPuts \cup ({restoreTask} \cap Pending)

StillOpen(n) == n < MaxBatch

AppendEvent(e) ==
  /\ EnsureWritable /\ EnsureCapacity /\ ~Conflicts(e) /\ ~Stored(e)
  /\ mirror' = [mirror EXCEPT !.events = Append(@, e)]
  /\ \/ /\ eventBatch # 0
        /\ LET joined == [tasks[eventBatch] EXCEPT !.events = Append(@, e),
                                            !.waits = @ \cup BatchWaits]
           IN /\ tasks' = [tasks EXCEPT ![eventBatch] = joined]
              /\ eventBatch' = IF StillOpen(Len(joined.events)) THEN eventBatch ELSE 0
        /\ UNCHANGED <<ready, lastEventTask, enqueued>>
     \/ /\ eventBatch = 0
        /\ Enqueue([Task("batch", [x \in {} |-> 0], <<e>>, {lastEventTask, restoreTask})
                     EXCEPT !.waits = BatchWaits])
        /\ eventBatch' = IF StillOpen(1) THEN enqueued + 1 ELSE 0
        /\ lastEventTask' = enqueued + 1
  /\ UNCHANGED <<db, tails, restoreTask, failure, closed, flushing, promised, faults>>

(* restore is a barrier: it depends on every task, and later tasks on it.  *)
RestoreOvertakes(n) == {}                \* mutant: restore does not wait
RestoreFollows(n) == Pending

Restore(es) ==
  /\ EnsureWritable /\ EnsureCapacity
  /\ mirror' = [records |-> [r \in Records |-> enqueued + 1], events |-> es,
                epoch |-> enqueued + 1]
  /\ eventBatch' = 0
  /\ Enqueue(Task("restore", [r \in Records |-> enqueued + 1], es,
                  RestoreFollows(enqueued + 1)))
  /\ restoreTask' = enqueued + 1
  /\ UNCHANGED <<db, tails, lastEventTask, failure, closed, flushing, promised, faults>>
-----------------------------------------------------------------------------
(* setImmediate of flushEventBatch: the batch closes for good.             *)
BatchTurn(t) ==
  /\ tasks[t].kind = "batch" /\ tasks[t].phase = "started"
  /\ tasks' = [tasks EXCEPT ![t].phase = "closed"]
  /\ eventBatch' = IF eventBatch = t THEN 0 ELSE eventBatch
  /\ UNCHANGED <<mirror, db, ready, tails, lastEventTask, restoreTask, failure, closed,
                 flushing, promised, enqueued, faults>>

(* The statement of a task may reach the database. *)
Runnable(t) ==
  LET x == tasks[t]
  IN IF x.kind = "batch" THEN x.phase = "closed" /\ x.waits \cap Pending = {} /\ ~failure
     ELSE x.phase = "started"

(* The statements of a task append its events one after the other.         *)
AddedAll(events, more) ==
  LET after[n \in 0 .. Len(more)] ==
        IF n = 0 THEN events ELSE Added(after[n - 1], more[n])
  IN after[Len(more)]

(* What the database holds after the transaction of a task.                *)
Applied(t) ==
  LET x == tasks[t]
  IN IF x.kind = "restore"
     THEN [records |-> x.records, events |-> x.events, epoch |-> t]
     ELSE [db EXCEPT !.records = [r \in Records |-> IF r \in DOMAIN x.records
                                                    THEN x.records[r] ELSE @[r]],
                     !.events = AddedAll(@, x.events)]

Write(t) ==
  /\ Runnable(t)
  /\ db' = Applied(t)
  /\ tasks' = [tasks EXCEPT ![t].phase = "written"]
  /\ UNCHANGED <<mirror, ready, tails, lastEventTask, restoreTask, eventBatch, failure,
                 closed, flushing, promised, enqueued, faults>>

Settle(t) ==
  /\ tasks[t].phase = "written"
  /\ Settled({t})
  /\ UNCHANGED <<mirror, db, eventBatch, failure, closed, promised, enqueued, faults>>

(* A statement fails, or only its answer is lost, or a batch meets the     *)
(* failure of another task: what has not started is cancelled.             *)
Fail(t) ==
  /\ \/ /\ Runnable(t) \/ tasks[t].phase = "written"
        /\ faults < MaxFaults /\ faults' = faults + 1
     \/ /\ failure /\ tasks[t].kind = "batch" /\ tasks[t].phase = "closed"
        /\ tasks[t].waits \cap Pending = {}
        /\ UNCHANGED faults
  /\ failure' = TRUE
  /\ tasks' = [u \in Started(tasks) \ {t} |-> [tasks[u] EXCEPT !.deps = {}]]
  /\ ready' = <<>>
  /\ UNCHANGED <<mirror, db, tails, lastEventTask, restoreTask, eventBatch, closed,
                 flushing, promised, enqueued>>
-----------------------------------------------------------------------------
(* flush waits for the tasks there are, and covers what the mirror holds.  *)
BeginFlush(c) ==
  /\ flushing[c] = NoFlush
  /\ flushing' = [flushing EXCEPT ![c] = [waits |-> Pending, covers |-> {mirror}]]
  /\ UNCHANGED <<mirror, db, queue, failure, closed, promised, enqueued, faults>>

Later(a, b) == IF a.epoch > b.epoch THEN a
               ELSE IF b.epoch > a.epoch THEN b
               ELSE [records |-> [r \in Records |-> IF a.records[r] > b.records[r]
                                                    THEN a.records[r] ELSE b.records[r]],
                     events |-> IF Len(a.events) > Len(b.events) THEN a.events ELSE b.events,
                     epoch |-> a.epoch]

(* The response barrier: 200 after a flush without failure, otherwise 503. *)
SucceedsAnyway(c) == TRUE                \* mutant: the barrier ignores the failure
FlushSucceeds(c) == ~failure

Respond(c) ==
  /\ flushing[c] # NoFlush /\ flushing[c].waits \cap Pending = {}
  /\ promised' = IF FlushSucceeds(c)
                 THEN Later(promised, CHOOSE m \in flushing[c].covers : TRUE)
                 ELSE promised
  /\ flushing' = [flushing EXCEPT ![c] = NoFlush]
  /\ UNCHANGED <<mirror, db, queue, failure, closed, enqueued, faults>>

(* close and the signal handlers: no write is taken any more, what is      *)
(* enqueued still runs.                                                    *)
Close ==
  /\ ~closed /\ closed' = TRUE
  /\ UNCHANGED <<mirror, db, queue, failure, flushing, promised, enqueued, faults>>

(* loadIncrementally: records and then events, page by page, of one        *)
(* repeatable-read transaction.                                            *)
Loaded == [records |-> db.records, events |-> db.events, epoch |-> db.epoch]

(* The process dies, or is restarted after a failure or its close, and     *)
(* openDurableMirror loads what the database holds.                        *)
Restart ==
  /\ \/ faults < MaxFaults /\ faults' = faults + 1
     \/ (failure \/ closed) /\ Pending = {} /\ UNCHANGED faults
  /\ mirror' = Loaded
  /\ tasks' = [t \in {} |-> {}] /\ ready' = <<>>
  /\ tails' = [r \in Records |-> 0]
  /\ lastEventTask' = 0 /\ restoreTask' = 0 /\ eventBatch' = 0
  /\ failure' = FALSE /\ closed' = FALSE
  /\ flushing' = [c \in Requests |-> NoFlush]
  /\ UNCHANGED <<db, promised, enqueued>>

Snapshots == {<<>>}
Symmetry == Permutations(Records) \cup Permutations(Keys) \cup Permutations(Ids)

TaskStep == \E t \in Pending : BatchTurn(t) \/ Write(t) \/ Settle(t) \/ Fail(t)

Next ==
  \/ \E r \in Records : Put(r)
  \/ \E r \in Records, e \in Events : PutAndAppend(r, e)
  \/ \E e \in Events : AppendEvent(e)
  \/ \E es \in Snapshots : Restore(es)
  \/ TaskStep
  \/ \E c \in Requests : BeginFlush(c) \/ Respond(c)
  \/ Close
  \/ Restart

Spec == Init /\ [][Next]_vars
-----------------------------------------------------------------------------
(* What an answered flush covered is in the database, whatever failed or   *)
(* crashed since, unless a later restore replaced it.                      *)
AnsweredIsDurable ==
  \/ db.epoch > promised.epoch
  \/ /\ db.epoch = promised.epoch
     /\ \A r \in Records : db.records[r] >= promised.records[r]
     /\ ToSet(promised.events) \subseteq ToSet(db.events)

(* A record in the database never goes back to an older write, and events  *)
(* are stored in the order in which the mirror took them.                  *)
WritesKeepTheirOrder ==
  /\ \A r \in Records : db.records[r] <= mirror.records[r]
  /\ db.epoch = mirror.epoch => IsPrefix(db.events, mirror.events)

(* While a task is pending some task can proceed: dependencies, batches    *)
(* and the limit on writers never wait for each other.                     *)
QueueProceeds ==
  Pending # {} => \E t \in Pending :
    \/ Runnable(t) \/ tasks[t].phase = "written"
    \/ tasks[t].kind = "batch" /\ tasks[t].phase = "started"
    \/ failure /\ tasks[t].phase = "closed" /\ tasks[t].waits \cap Pending = {}
=============================================================================
