---------------------------- MODULE RuntimeTables ----------------------------
(***************************************************************************)
(* PostgresRuntimeStore (packages/store-postgres/src/index.ts) and the     *)
(* backup and restore tools on its tables (ops/backup-format.mjs,          *)
(* ops/backup.mjs, ops/restore.mjs): records, the event log with its       *)
(* BIGSERIAL sequence, snapshots, replay checkpoints.                      *)
(*                                                                         *)
(* A transaction is one step where its statements could run at once, and   *)
(* several where others may come between them: an insert takes its         *)
(* sequence number when it runs and is seen when its transaction commits,  *)
(* nextval and setval take effect at once and are never rolled back, and   *)
(* a replay batch runs its handler between its first and last statement.   *)
(* Sequence numbers are one key for all tenants, row security lets a       *)
(* transaction see its own tenant only.                                    *)
(***************************************************************************)
EXTENDS Naturals, Sequences, FiniteSets, FiniteSetsExt

CONSTANTS Tenants,
          Sessions,      \* connections that write
          Consumers,     \* concurrent replay calls of one consumer id
          Appends,       \* [tenant, puts, insertOnly, events]: what a write may be
          BatchSize,     \* events of one replay batch
          MaxSequence,   \* bound on the sequence
          MaxRestores    \* bound on restores

TablesAssumption == {BatchSize, MaxSequence} \subseteq Nat \ {0}

VARIABLES records,     \* tenant -> memories with a row
          events,      \* committed rows of the event table
          last,        \* last value of the sequence
          checkpoint,  \* tenant -> {} or the singleton of its cursor
          tx,          \* session -> its open transaction, or none
          batch,       \* consumer -> its open replay batch, or none
          backup,      \* tenant -> {} or the singleton of the backup file
          snapshot,    \* tenant -> {} or the singleton of the stored snapshot
          confirmed,   \* history: tenant -> rows whose handling was committed
          repeated,    \* history: a row was confirmed a second time
          rewound,     \* history: tenants whose events the sequence fell behind
                       \* though they were not restored, or restored from a
                       \* backup of that time
          restores

vars == <<records, events, last, checkpoint, tx, batch, backup, snapshot, confirmed,
          repeated, rewound, restores>>

Row(tn, e, s) == [tenant |-> tn, key |-> e.key, id |-> e.id, seq |-> s]
Of(tn, rows) == {x \in rows : x.tenant = tn}

Init ==
  /\ records = [tn \in Tenants |-> {}] /\ events = {} /\ last = 0
  /\ checkpoint = [tn \in Tenants |-> {}]
  /\ tx = [w \in Sessions |-> {}] /\ batch = [c \in Consumers |-> {}]
  /\ backup = [tn \in Tenants |-> {}] /\ snapshot = [tn \in Tenants |-> {}]
  /\ confirmed = [tn \in Tenants |-> {}] /\ repeated = FALSE /\ rewound = {} /\ restores = 0
-----------------------------------------------------------------------------
(* Writes: put, putAndAppend, appendEvent and appendEvents.                *)

Open == UNION {tx[w] : w \in Sessions}
Quiet(tn) == \A x \in Open : x.tenant # tn

(* The record is written first; a row that another transaction wrote       *)
(* blocks.  insertOnly refuses a memory that is registered.                *)
Begin(w, a) ==
  /\ tx[w] = {}
  /\ \A x \in Open : x.tenant = a.tenant => x.puts \cap a.puts = {}
  /\ a.insertOnly => a.puts \cap records[a.tenant] = {}
  /\ tx' = [tx EXCEPT ![w] = {[tenant |-> a.tenant, puts |-> a.puts,
                               todo |-> a.events, rows |-> {}]}]
  /\ UNCHANGED <<records, events, last, checkpoint, batch, backup, snapshot, confirmed,
                 repeated, rewound, restores>>

Close(w) == tx' = [tx EXCEPT ![w] = {}]

(* appendEventOn: an insert that meets its key compares the events.  A     *)
(* sequence number that is taken already fails the primary key.            *)
InsertEvent(w) == \E x \in tx[w] :
  /\ x.todo # <<>>
  /\ LET e    == Head(x.todo)
         same == {y \in Of(x.tenant, events \cup x.rows) : y.key = e.key}
         rest == [x EXCEPT !.todo = Tail(@)]
     IN /\ \A o \in Open : o.tenant = x.tenant /\ (\E y \in o.rows : y.key = e.key) => o = x
        /\ \/ same # {} /\ (\E y \in same : y.id = e.id)
              /\ tx' = [tx EXCEPT ![w] = {rest}] /\ UNCHANGED last
           \/ same # {} /\ (\A y \in same : y.id # e.id) /\ Close(w) /\ UNCHANGED last
           \/ /\ same = {} /\ last < MaxSequence
              /\ last' = last + 1
              /\ IF \E y \in events : y.seq = last + 1
                 THEN Close(w)
                 ELSE /\ \A o \in Open : \A y \in o.rows : y.seq # last + 1
                      /\ tx' = [tx EXCEPT ![w] =
                           {[rest EXCEPT !.rows = @ \cup {Row(x.tenant, e, last + 1)}]}]
  /\ UNCHANGED <<records, events, checkpoint, batch, backup, snapshot, confirmed, repeated,
                 rewound, restores>>

Commit(w) == \E x \in tx[w] :
  /\ x.todo = <<>>
  /\ records' = [records EXCEPT ![x.tenant] = @ \cup x.puts]
  /\ events' = events \cup x.rows
  /\ Close(w)
  /\ UNCHANGED <<last, checkpoint, batch, backup, snapshot, confirmed, repeated, rewound, restores>>

Rollback(w) ==
  /\ tx[w] # {} /\ Close(w)
  /\ UNCHANGED <<records, events, last, checkpoint, batch, backup, snapshot, confirmed,
                 repeated, rewound, restores>>
-----------------------------------------------------------------------------
(* replay: a batch locks the checkpoint of its consumer, hands the next    *)
(* events to the handler and moves the checkpoint behind them.             *)

SharedCursor(c, tn) == TRUE              \* mutant: the row is not locked
CheckpointFree(c, tn) == \A d \in Consumers : \A b \in batch[d] : b.tenant # tn

Cursor(tn) == Max({0} \cup checkpoint[tn])

NextEvents(tn) ==
  LET later == {x \in Of(tn, events) : x.seq > Cursor(tn)}
  IN {x \in later : Cardinality({y \in later : y.seq < x.seq}) < BatchSize}

BeginBatch(c, tn) ==
  /\ batch[c] = {} /\ CheckpointFree(c, tn) /\ NextEvents(tn) # {}
  /\ batch' = [batch EXCEPT ![c] = {[tenant |-> tn, rows |-> NextEvents(tn)]}]
  /\ UNCHANGED <<records, events, last, checkpoint, tx, backup, snapshot, confirmed,
                 repeated, rewound, restores>>

NewCursor(rows) == Max({x.seq : x \in rows})

EndBatch(c) == \E b \in batch[c] :
  /\ checkpoint' = [checkpoint EXCEPT ![b.tenant] = {NewCursor(b.rows)}]
  /\ confirmed' = [confirmed EXCEPT ![b.tenant] = @ \cup b.rows]
  /\ repeated' = (repeated \/ b.rows \cap confirmed[b.tenant] # {})
  /\ batch' = [batch EXCEPT ![c] = {}]
  /\ UNCHANGED <<records, events, last, tx, backup, snapshot, rewound, restores>>

(* The handler fails: the batch rolls back and is delivered again.         *)
BatchFails(c) ==
  /\ batch[c] # {} /\ batch' = [batch EXCEPT ![c] = {}]
  /\ UNCHANGED <<records, events, last, checkpoint, tx, backup, snapshot, confirmed,
                 repeated, rewound, restores>>
-----------------------------------------------------------------------------
(* snapshot and walkPostgresState read one REPEATABLE READ view.  The file *)
(* replaces the earlier one by a rename after its digest and counts were   *)
(* verified; a failure leaves the earlier one.                             *)

View(tn) == [records |-> records[tn], events |-> Of(tn, events),
             checkpoint |-> checkpoint[tn], confirmed |-> confirmed[tn],
             rewound |-> tn \in rewound]

Snapshot(tn) ==
  /\ snapshot' = [snapshot EXCEPT ![tn] = {[records |-> records[tn],
                                            events |-> Of(tn, events)]}]
  /\ UNCHANGED <<records, events, last, checkpoint, tx, batch, backup, confirmed, repeated,
                 rewound, restores>>

WriteBackup(tn) ==
  /\ backup' = [backup EXCEPT ![tn] = {View(tn)}]
  /\ UNCHANGED <<records, events, last, checkpoint, tx, batch, snapshot, confirmed,
                 repeated, rewound, restores>>

(* Writes to the tenant are stopped while it is restored, as the           *)
(* deployment procedure demands; the other tenants go on.                  *)
Frozen(tn) == Quiet(tn) /\ \A c \in Consumers : \A b \in batch[c] : b.tenant # tn

(* restore of a snapshot: clearOn, then every event again with a new       *)
(* number.  The checkpoints are gone, so consumers start over.             *)
Renumbered(tn, rows) ==
  {Row(tn, x, last + Cardinality({y \in rows : y.seq <= x.seq})) : x \in rows}

RestoreSnapshot(tn) == \E s \in snapshot[tn] :
  /\ Frozen(tn) /\ restores < MaxRestores
  /\ last + Cardinality(s.events) <= MaxSequence
  /\ \A x \in Renumbered(tn, s.events) : \A y \in events : y.seq # x.seq
  /\ records' = [records EXCEPT ![tn] = s.records]
  /\ events' = (events \ Of(tn, events)) \cup Renumbered(tn, s.events)
  /\ last' = last + Cardinality(s.events)
  /\ checkpoint' = [checkpoint EXCEPT ![tn] = {}]
  /\ confirmed' = [confirmed EXCEPT ![tn] = {}]
  /\ snapshot' = [snapshot EXCEPT ![tn] = {s}]
  /\ rewound' = rewound \ {tn}
  /\ restores' = restores + 1
  /\ UNCHANGED <<tx, batch, backup, repeated>>

(* repairEventSequence, under the tenant's row security, once the restored *)
(* events carry explicit numbers.                                          *)
Repaired(rows) == IF rows = {} THEN last ELSE Max({x.seq : x \in rows})

FallenBehind(n) ==
  {x.tenant : x \in {y \in events \cup UNION {t.rows : t \in Open} : y.seq > n}}

(* restorePostgresState: the backup takes the place of the tenant's rows.  *)
(* A number that another tenant's row has by now is refused as a           *)
(* duplicate, which rolls everything back.                                 *)
RestoreBackup(tn) == \E b \in backup[tn] :
  /\ Frozen(tn) /\ restores < MaxRestores
  /\ \A x \in b.events : \A y \in events \ Of(tn, events) : y.seq # x.seq
  /\ records' = [records EXCEPT ![tn] = b.records]
  /\ events' = (events \ Of(tn, events)) \cup b.events
  /\ last' = Repaired(b.events)
  /\ checkpoint' = [checkpoint EXCEPT ![tn] = b.checkpoint]
  /\ confirmed' = [confirmed EXCEPT ![tn] = b.confirmed]
  /\ rewound' = ((rewound \cup FallenBehind(last')) \ {tn})
                  \cup (IF b.rewound THEN {tn} ELSE {})
  /\ restores' = restores + 1
  /\ UNCHANGED <<tx, batch, backup, snapshot, repeated>>

(* The commit fails after setval: only the sequence has changed.           *)
RestoreFails(tn) == \E b \in backup[tn] :
  /\ Frozen(tn) /\ restores < MaxRestores
  /\ last' = Repaired(b.events)
  /\ rewound' = rewound \cup FallenBehind(last')
  /\ restores' = restores + 1
  /\ UNCHANGED <<records, events, checkpoint, tx, batch, backup, snapshot, confirmed,
                 repeated>>

Next ==
  \/ \E w \in Sessions : \/ \E a \in Appends : Begin(w, a)
                         \/ InsertEvent(w) \/ Commit(w) \/ Rollback(w)
  \/ \E c \in Consumers : \/ \E tn \in Tenants : BeginBatch(c, tn)
                          \/ EndBatch(c) \/ BatchFails(c)
  \/ \E tn \in Tenants : \/ Snapshot(tn) \/ WriteBackup(tn)
                         \/ RestoreSnapshot(tn) \/ RestoreBackup(tn) \/ RestoreFails(tn)

Spec == Init /\ [][Next]_vars
-----------------------------------------------------------------------------
Handled(tn) ==
  \A x \in Of(tn, events) :
    checkpoint[tn] # {} /\ x.seq <= Cursor(tn) => x \in confirmed[tn]

(* The cursor of a consumer is only behind events that were handled: no    *)
(* committed event is skipped by replay, after restores too, unless the    *)
(* restore of another tenant or one that failed moved the sequence back.   *)
NothingSkipped == \A tn \in Tenants \ rewound : Handled(tn)

(* As the package's README has it: the cursor of a tenant advances only    *)
(* after its handler finished.                                             *)
EveryEventIsReplayed == \A tn \in Tenants : Handled(tn)

(* Concurrent replay calls of one consumer never both confirm a row.       *)
ConfirmedOnce == ~repeated

(* Sequence numbers and idempotency keys identify the events of the table. *)
RowsAreUnique ==
  \A x, y \in events : \/ x = y
                       \/ x.seq # y.seq /\ (x.tenant = y.tenant => x.key # y.key)
=============================================================================
