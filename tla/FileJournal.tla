----------------------------- MODULE FileJournal -----------------------------
(***************************************************************************)
(* FileJournal over BaseJournal (packages/runtime-core/src/journal.ts): an *)
(* append-only file of lines, an index of events in memory, a checkpoint   *)
(* file replaced by renaming.  The process may be killed inside a write;   *)
(* a write may also fail (a full disk) and the process go on, as           *)
(* PremiseRuntime.auditEvent does.  The operating system keeps what was    *)
(* written: loss of power is not modelled, the code never syncs.           *)
(***************************************************************************)
EXTENDS Naturals, Sequences, SequencesExt

CONSTANTS Keys,           \* a tenant and an idempotency key
          EventIds,       \* identities of events (eventId, requestDigest)
          MaxFailures,    \* bound on the writes that fail without a crash
          MaxCursor       \* bound on the cursors given out

JournalAssumption ==
  /\ {"decision", "garbage"} \cap Keys = {}
  /\ MaxFailures \in Nat /\ MaxCursor \in Nat \ {0}

VARIABLES process,          \* "up", "down" or "refused" (load threw)
          nextCursorValue,
          eventCursors,     \* key -> the entry's cursor and event, if any
          lastCheckpoint,   \* the cursor of the checkpoint in memory, if any
          file,             \* the lines of the file, torn one excepted
          tail,             \* how the file ends
          checkpointFile,   \* the cursor of the checkpoint on disk, if any
          acknowledged,     \* history: what appends said was appended
          failures          \* number of failed writes so far

memory == <<nextCursorValue, eventCursors, lastCheckpoint>>
disk == <<file, tail, checkpointFile>>
vars == <<process, nextCursorValue, eventCursors, lastCheckpoint,
          file, tail, checkpointFile, acknowledged, failures>>

Cursors == 1 .. MaxCursor
Payloads == (Keys \X EventIds) \cup {<<"decision", "decision">>}
Entries == [cursor : Cursors, payload : Payloads]
Garbage == [cursor |-> 0, payload |-> <<"garbage", "garbage">>]

TypeOK ==
  /\ process \in {"up", "down", "refused"}
  /\ nextCursorValue \in 1 .. (MaxCursor + 1)
  /\ \A k \in Keys : eventCursors[k] \subseteq [cursor : Cursors, id : EventIds]
  /\ lastCheckpoint \subseteq 0 .. MaxCursor
  /\ \A i \in 1 .. Len(file) : file[i] \in Entries \cup {Garbage}
  /\ tail \in {"clean", "unterminated", "torn"}
  /\ checkpointFile \subseteq 0 .. MaxCursor
  /\ acknowledged \subseteq Entries
  /\ failures \in 0 .. MaxFailures

NoEvents == [k \in Keys |-> {}]

(* The constructor on a path where nothing is yet. *)
Init ==
  /\ process = "up"
  /\ nextCursorValue = 1 /\ eventCursors = NoEvents /\ lastCheckpoint = {}
  /\ file = <<>> /\ tail = "clean" /\ checkpointFile = {}
  /\ acknowledged = {} /\ failures = 0
-----------------------------------------------------------------------------
(* What an append leaves in the file: nothing, a torn line, the line       *)
(* without its newline, or all of it.  What follows a line without newline *)
(* is glued to it.                                                         *)
Terminated == IF tail = "unterminated" THEN Front(file) ELSE file

Written(entry, how) ==
  CASE how = "nothing" -> <<file, tail>>
    [] how = "torn"    -> <<Terminated, "torn">>
    [] how = "unterminated" ->
         IF tail = "clean" THEN <<Append(file, entry), "unterminated">>
         ELSE <<Terminated, "torn">>
    [] how = "all" ->
         <<Append(Terminated, IF tail = "clean" THEN entry ELSE Garbage), "clean">>

Writes(entry, how) == file' = Written(entry, how)[1] /\ tail' = Written(entry, how)[2]

Short == {"nothing", "torn", "unterminated"}

(* A write throws and the process goes on. *)
Fails ==
  /\ failures < MaxFailures
  /\ failures' = failures + 1
  /\ UNCHANGED <<process, acknowledged>>

Dies == process' = "down" /\ UNCHANGED <<acknowledged, failures>>

(* persistEntry after the entry was taken into memory: it returns, throws  *)
(* or is cut off by a crash.                                               *)
PersistEntry(entry) ==
  \/ /\ Writes(entry, "all")
     /\ acknowledged' = acknowledged \cup {entry}
     /\ UNCHANGED <<process, failures>>
  \/ (\E how \in Short : Writes(entry, how)) /\ Fails
  \/ (\E how \in Short \cup {"all"} : Writes(entry, how)) /\ Dies

TakesCursor ==
  /\ process = "up" /\ nextCursorValue <= MaxCursor
  /\ nextCursorValue' = nextCursorValue + 1
  /\ UNCHANGED <<checkpointFile, lastCheckpoint>>

(* appendEvent of an event the index does not know. *)
AppendEvent(k, id) ==
  /\ eventCursors[k] = {}
  /\ TakesCursor
  /\ eventCursors' = [eventCursors EXCEPT ![k] = {[cursor |-> nextCursorValue, id |-> id]}]
  /\ PersistEntry([cursor |-> nextCursorValue, payload |-> <<k, id>>])

(* appendEvent of a known one answers with its cursor; another event under *)
(* the same key is refused, which changes nothing.                         *)
AppendEventAgain(k, id) ==
  /\ process = "up"
  /\ \E x \in eventCursors[k] :
       /\ x.id = id
       /\ acknowledged' = acknowledged \cup
            {[cursor |-> x.cursor, payload |-> <<k, id>>]}
  /\ UNCHANGED <<process, memory, disk, failures>>

AppendDecision ==
  /\ TakesCursor
  /\ PersistEntry([cursor |-> nextCursorValue, payload |-> <<"decision", "decision">>])
  /\ UNCHANGED eventCursors

(* checkpoint: into memory, then by a temporary file and a rename; where   *)
(* renaming fails, the old file is removed first.                          *)
Checkpoint(c) ==
  /\ process = "up"
  /\ c < nextCursorValue /\ \A old \in lastCheckpoint : c >= old
  /\ lastCheckpoint' = {c}
  /\ \/ checkpointFile' = {c} /\ UNCHANGED <<process, acknowledged, failures>>
     \/ checkpointFile' \in {checkpointFile, {}} /\ Fails
     \/ checkpointFile' \in {checkpointFile, {}, {c}} /\ Dies
  /\ UNCHANGED <<nextCursorValue, eventCursors, file, tail>>

Crash ==
  /\ process = "up"
  /\ process' = "down"
  /\ UNCHANGED <<memory, disk, acknowledged, failures>>
-----------------------------------------------------------------------------

(* The index load builds from the lines ls. *)
IndexOf(ls) ==
  [k \in Keys |->
     {[cursor |-> ls[i].cursor, id |-> ls[i].payload[2]] :
        i \in {j \in 1 .. Len(ls) : ls[j].payload[1] = k}}]

(* A line load accepts: parsed, and its cursor the next one. *)
GoodLine(i) == file[i].cursor = i

(* The lines that stay: a last line without newline goes when it is bad.   *)
Kept ==
  IF tail = "unterminated" /\ ~GoodLine(Len(file)) THEN Front(file) ELSE file

NoNewline == IF tail = "unterminated" THEN tail ELSE "clean"      \* mutant

(* A torn line is truncated, a good one gets its newline. *)
LoadedTail == "clean"

(* load, when the process starts again. *)
Load ==
  /\ process = "down"
  /\ IF /\ \A i \in 1 .. Len(Kept) : GoodLine(i)
        /\ \A c \in checkpointFile : c <= Len(Kept)
     THEN /\ process' = "up"
          /\ file' = Kept
          /\ nextCursorValue' = Len(Kept) + 1
          /\ eventCursors' = IndexOf(Kept)
          /\ lastCheckpoint' = checkpointFile
          /\ tail' = LoadedTail
     ELSE process' = "refused" /\ UNCHANGED <<memory, file, tail>>
  /\ UNCHANGED <<checkpointFile, acknowledged, failures>>

-----------------------------------------------------------------------------
(* Reading.  readEntries: the entries behind a cursor, read from the file. *)
ReadEntries(cursor) ==
  LET found[n \in 0 .. Len(file)] ==
        IF n = 0 THEN <<>>
        ELSE IF file[n].cursor > cursor THEN Append(found[n - 1], file[n])
        ELSE found[n - 1]
  IN found[Len(file)]

ReadPage(cursor, limit) ==
  LET found   == ReadEntries(cursor)
      entries == SubSeq(found, 1, Min({limit, Len(found)}))
  IN [entries    |-> entries,
      nextCursor |-> IF entries = <<>> THEN cursor ELSE Last(entries).cursor,
      hasMore    |-> Len(found) > limit]

(* A reader that follows nextCursor as long as there is more.              *)
ReadPages(from, limit) ==
  LET Rest[cursor \in 0 .. MaxCursor] ==
        LET page == ReadPage(cursor, limit)
        IN IF page.hasMore THEN page.entries \o Rest[page.nextCursor] ELSE page.entries
  IN Rest[from]

(* verifyRuntimeCheckpointRecovery: the entries must count on from the     *)
(* checkpoint's cursor one by one.                                         *)
Recovery(cursor, entries) ==
  LET off == {i \in 1 .. Len(entries) : entries[i].cursor # cursor + i}
  IN IF off = {} THEN [status |-> "READY", finalCursor |-> cursor + Len(entries)]
     ELSE [status |-> "INVALID",
           reason |-> IF entries[Min(off)].cursor < cursor + Min(off)
                      THEN "TAIL_REORDERED" ELSE "TAIL_GAP"]
-----------------------------------------------------------------------------
Next ==
  \/ \E k \in Keys, id \in EventIds : AppendEvent(k, id) \/ AppendEventAgain(k, id)
  \/ AppendDecision
  \/ \E c \in 0 .. MaxCursor : Checkpoint(c)
  \/ Crash
  \/ Load

Spec == Init /\ [][Next]_vars
-----------------------------------------------------------------------------
(* As long as no write failed under a process that went on, a restart      *)
(* never finds a journal it cannot load: whatever an interrupted write     *)
(* left behind is repaired, and the checkpoint on disk is covered by the   *)
(* lines (load, persistEntry, persistCheckpoint).                          *)
JournalLoads == failures = 0 => process # "refused"

(* What an append answered for stays readable at the cursor it gave, and   *)
(* nothing in the file keeps readFrom from reaching it, through crashes    *)
(* and reloads (appendEvent, load's truncation).                           *)
AcknowledgedSurvives ==
  process = "up" /\ failures = 0 =>
    /\ \A a \in acknowledged : \E i \in 1 .. Len(file) : file[i] = a
    /\ \A i \in 1 .. Len(file) : file[i] # Garbage

(* An event is in the journal once, also when its writer crashed before it *)
(* heard of the append and appends it again after the restart              *)
(* (eventCursors, rebuilt by load).                                        *)
OneEntryPerEvent ==
  \A i, j \in 1 .. Len(file) :
    file[i].payload[1] \in Keys /\ file[i].payload[1] = file[j].payload[1] => i = j

(* The checkpoint in memory and the pages read from its cursor on, of any  *)
(* size, are a recovery that ends at the last entry: no crash between an   *)
(* append, a checkpoint and a reload leaves a gap, a repetition or a       *)
(* checkpoint past the file (readPage, verifyRuntimeCheckpointRecovery).   *)
CheckpointRecovers ==
  process = "up" /\ failures = 0 =>
    \A c \in lastCheckpoint, limit \in 1 .. MaxCursor :
      Recovery(c, ReadPages(c, limit)) =
        [status |-> "READY", finalCursor |-> nextCursorValue - 1]

(* A journal write failure is isolated: what it leaves behind is a torn    *)
(* last line at most, and the next start loads the journal (auditEvent     *)
(* goes on, persistEntry, load).                                           *)
FailureIsIsolated == process # "refused"

(* Appends are idempotent: an append that answers with the cursor of an    *)
(* earlier one answers for an entry that is in the file, also when the     *)
(* earlier one failed and is tried again (appendEvent, eventCursors).      *)
RetriedIsStored ==
  [][\A k \in Keys, id \in EventIds : AppendEventAgain(k, id) =>
       \E i \in 1 .. Len(file) : file[i].payload = <<k, id>>]_vars
=============================================================================
