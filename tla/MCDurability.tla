---------------------------- MODULE MCDurability ----------------------------
(***************************************************************************)
(* The places where a deployment keeps what it was told: the write-behind  *)
(* mirror of the PostgreSQL store, the tables behind it with backup and    *)
(* restore, or the journal on disk.  A behaviour is about one of them; the *)
(* others stay as they began.                                              *)
(***************************************************************************)
EXTENDS DurableMirror, TLC

CONSTANTS Tenants, Sessions, Consumers, Appends, BatchSize, MaxSequence, MaxRestores,
          JournalKeys, EventIds, MaxFailures, MaxCursor
VARIABLES records, events, last, checkpoint, tx, batch, backup, snapshot, confirmed,
          repeated, rewound, restores,
          process, nextCursorValue, eventCursors, lastCheckpoint, file, tail,
          checkpointFile, acknowledged, failures,
          part

T == INSTANCE RuntimeTables
J == INSTANCE FileJournal WITH Keys <- JournalKeys

ASSUME TablesAreBounded == T!TablesAssumption
ASSUME JournalIsBounded == J!JournalAssumption

(* Two writes a tenant: the registration of a memory, and two events of    *)
(* which the second conflicts with the registration.                       *)
MCEvent(k, i) == [key |-> k, id |-> i]

MCAppends ==
  UNION {{[tenant |-> tn, puts |-> {"m"}, insertOnly |-> TRUE,
           events |-> <<MCEvent("registered", 1)>>],
          [tenant |-> tn, puts |-> {"m"}, insertOnly |-> FALSE,
           events |-> <<MCEvent("signal", 1), MCEvent("registered", 2)>>]} : tn \in Tenants}

(* Writes of one event each. *)
MCSingleAppends ==
  {[tenant |-> tn, puts |-> {}, insertOnly |-> FALSE, events |-> <<MCEvent(k, 1)>>] :
     tn \in Tenants, k \in {"registered", "signal"}}

MCSymmetry == Symmetry \cup Permutations(Tenants)

tableVars == <<records, events, last, checkpoint, tx, batch, backup, snapshot, confirmed,
               repeated, rewound, restores>>
journalVars == <<process, nextCursorValue, eventCursors, lastCheckpoint, file, tail,
                 checkpointFile, acknowledged, failures>>

MCInit == part \in {"mirror", "tables", "journal"} /\ Init /\ T!Init /\ J!Init
MCNext ==
  \/ part = "mirror" /\ Next /\ UNCHANGED <<tableVars, journalVars, part>>
  \/ part = "tables" /\ T!Next /\ UNCHANGED <<vars, journalVars, part>>
  \/ part = "journal" /\ J!Next /\ UNCHANGED <<vars, tableVars, part>>
MCSpec == MCInit /\ [][MCNext]_<<vars, tableVars, journalVars, part>>

(* Replay confirms every committed event below its cursor, and none twice, *)
(* whatever rolls back, is restored or replays at the same time (replay,   *)
(* restore and backup of the PostgreSQL store).                            *)
ReplayIsExact == T!NothingSkipped /\ T!ConfirmedOnce

(* No event is ever behind the cursor of a consumer that did not handle    *)
(* it, also when the restore of another tenant moves the sequence back.    *)
EveryEventIsReplayed == T!EveryEventIsReplayed

(* Unless a write failed under a process that went on, a restart never     *)
(* finds a journal it cannot load.  What an append answered for stays      *)
(* readable at the cursor it gave, through crashes in the middle of every  *)
(* write, and an event is in the journal once, however often its writer    *)
(* appends it again after a crash; the checkpoint and the pages behind it  *)
(* always make a recovery (appendEvent, readPage, load,                    *)
(* verifyRuntimeCheckpointRecovery).                                       *)
JournalKeepsEntries ==
  /\ J!JournalLoads /\ J!AcknowledgedSurvives /\ J!OneEntryPerEvent
  /\ J!CheckpointRecovers
=============================================================================
