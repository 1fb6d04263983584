----------------------------- MODULE AuditTrail -----------------------------
(***************************************************************************)
(* The audit trail of packages/security-core/src: AuditLog (index.ts) makes *)
(* hash-chained entries in memory, FileAuditSink (audit-sink.ts) appends   *)
(* them to a file, one line each, and opens only files that hold a chain.  *)
(*                                                                         *)
(* A hash stands for everything before it, so an entry is the sequence of  *)
(* events up to its own.  A write can stop after any piece; a crash loses  *)
(* what was not synced.  One process at a time has the file open.          *)
(***************************************************************************)
EXTENDS Naturals, FiniteSets, Sequences, SequencesExt

CONSTANTS Events, Secrets,     \* events; those the sink refuses to store
          MaxEntries,          \* limit of the sink
          MaxMishaps           \* bound on failed writes and crashes

VARIABLES file,          \* lines: entries, or Torn
          synced,        \* how many lines fsync covers
          log,           \* the chain the process appends to: a sequence of events
          sink,          \* [open, entries, size, poisoned]
          acknowledged,  \* entries whose append returned
          mishaps

vars == <<file, synced, log, sink, acknowledged, mishaps>>

Torn == <<"torn">>
Closed == [open |-> FALSE, entries |-> <<>>, size |-> 0, poisoned |-> FALSE]
Init ==
  /\ file = <<>> /\ synced = 0 /\ log = <<>> /\ sink = Closed
  /\ acknowledged = {} /\ mishaps = 0

Mishap == mishaps < MaxMishaps /\ mishaps' = mishaps + 1

(* verifyAuditChain: sequence numbers from one and every hash the next     *)
(* entry's previous one, no event twice.                                   *)
Chain(entries) ==
  \A i \in 1 .. Len(entries) :
    /\ Len(entries[i]) = i /\ IsInjective(entries[i])
    /\ i > 1 => Front(entries[i]) = entries[i - 1]

(* canonicalEntry: well-formed, and neither a secret nor the name of one in it. *)
Storable(entry) == Last(entry) \notin Secrets

(* decodeFile: a torn line, one the sink would not store, or a broken      *)
(* chain, fails the opening.                                               *)
Decodes(lines) ==
  /\ Torn \notin ToSet(lines) /\ \A i \in 1 .. Len(lines) : Storable(lines[i])
  /\ Chain(lines) /\ Len(lines) <= MaxEntries

(* The constructor.  An AuditLog begins anew; a caller may also carry on   *)
(* with the chain it reads from the sink.                                  *)
Open ==
  /\ ~sink.open /\ Decodes(file)
  /\ sink' = [open |-> TRUE, entries |-> file, size |-> Len(file), poisoned |-> FALSE]
  /\ log' \in {<<>>} \cup {file[i] : i \in {Len(file)} \ {0}}
  /\ UNCHANGED <<file, synced, acknowledged, mishaps>>

(* AuditLog.append: a new entry on top of the log, unique events.  Values  *)
(* are sanitised, names are not: the sink may refuse what the log took.    *)
LogAppend(e) ==
  /\ sink.open /\ e \notin ToSet(log) /\ log' = Append(log, e)
  /\ UNCHANGED <<file, synced, sink, acknowledged, mishaps>>

(* #ensureOpen and #assertFileSize.                                        *)
OpenOnly(s) == s.open                              \* mutant: neither is looked at
Ready(s) == s.open /\ ~s.poisoned /\ s.size = Len(file)

(* append: refused before anything is written, or written and synced, or   *)
(* stopped on the way, which poisons the sink.                             *)
SinkAppend ==
  /\ Ready(sink) /\ log # <<>> /\ Storable(log)
  /\ Len(sink.entries) < MaxEntries /\ Chain(Append(sink.entries, log))
  /\ \/ /\ file' = Append(file, log) /\ synced' = Len(file')
        /\ sink' = [sink EXCEPT !.entries = Append(@, log), !.size = @ + 1]
        /\ acknowledged' = acknowledged \cup {log} /\ UNCHANGED mishaps
     \/ /\ Mishap /\ file' \in {file, Append(file, Torn), Append(file, log)}
        /\ sink' = [sink EXCEPT !.poisoned = TRUE] /\ UNCHANGED <<synced, acknowledged>>
  /\ UNCHANGED log

(* flush, and close, which syncs unless the sink is poisoned.              *)
Flush ==
  /\ Ready(sink) /\ \/ synced' = Len(file) /\ UNCHANGED <<sink, mishaps>>
                    \/ Mishap /\ sink' = [sink EXCEPT !.poisoned = TRUE] /\ UNCHANGED synced
  /\ UNCHANGED <<file, log, acknowledged>>
Close ==
  /\ sink.open /\ sink' = Closed /\ log' = <<>>
  /\ synced' = IF sink.poisoned THEN synced ELSE Len(file)
  /\ UNCHANGED <<file, acknowledged, mishaps>>

(* The process ends, or the machine: a part of what was not synced, the    *)
(* last of it perhaps torn, is lost.                                       *)
Crash ==
  /\ Mishap /\ sink' = Closed /\ log' = <<>>
  /\ \E n \in synced .. Len(file) :
       file' \in {SubSeq(file, 1, n)} \cup (IF n < Len(file) THEN {Append(SubSeq(file, 1, n), Torn)} ELSE {})
  /\ synced' = Len(file') /\ UNCHANGED acknowledged

Next ==
  \/ Open \/ SinkAppend \/ Flush \/ Close \/ Crash
  \/ \E e \in Events : LogAppend(e)

Spec == Init /\ [][Next]_vars
-----------------------------------------------------------------------------
(* Every entry whose append returned stays in the file, in front of any    *)
(* torn line, in one chain: whatever stopped writes, refused entries and   *)
(* crashes came, what was acknowledged can be read and verified.           *)
AcknowledgedStaysVerifiable ==
  LET sound == IF Torn \in ToSet(file)
               THEN SubSeq(file, 1, CHOOSE n \in 0 .. Len(file) - 1 :
                                      file[n + 1] = Torn /\ \A i \in 1 .. n : file[i] # Torn)
               ELSE file
  IN acknowledged \subseteq ToSet(sound) /\ Chain(sound)
=============================================================================
