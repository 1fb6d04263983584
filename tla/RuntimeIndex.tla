---------------------------- MODULE RuntimeIndex ----------------------------
(***************************************************************************)
(* The reverse indexes of PremiseRuntime (sourceMemoryIds and              *)
(* dependentsByDependency in packages/runtime-core/src/index.ts), which    *)
(* decide whom a source change reaches, and the record operations that     *)
(* keep them beside a store other writers may share.                       *)
(*                                                                         *)
(* Operations are synchronous, so each is one step.  indexedStoreRevision  *)
(* is kept as whether it equals the store's revision, which only grows.    *)
(* Replays (same idempotency key) write nothing and are stuttering; other  *)
(* tenants' records are left out, the indexes ignore them.                 *)
(***************************************************************************)
EXTENDS Naturals, FiniteSets

CONSTANTS Memories, Sources,
          Inputs,         \* the records callers hand in
          OutsideInputs,  \* the records other writers put
          Snapshots,      \* the record maps restore is called with
          MaxOutside      \* bound on writes that bypass the runtime

Statuses == {"FRESH", "STALE", "INVALID", "UNKNOWN"}

(* What the indexes and the signals see of an envelope: the sources of its *)
(* evidence, dependsOn, validity.status.                                   *)
Envelopes == [src : SUBSET Sources, deps : SUBSET Memories, status : Statuses]
Absent == [status |-> "ABSENT"]
Records == Envelopes \cup {Absent}

ASSUME IndexAssumption ==
  /\ IsFiniteSet(Memories)
  /\ Inputs \subseteq Envelopes /\ OutsideInputs \subseteq Envelopes
  /\ Snapshots \subseteq [Memories -> Records]
  /\ MaxOutside \in Nat

VARIABLES records,                 \* the store
          sourceMemoryIds,         \* pairs <<source, memory>>
          dependentsByDependency,  \* pairs <<dependency, dependent>>
          indexed,                 \* indexedStoreRevision = store.revision
          hasRevision,             \* the store exposes a revision
          masked,                  \* history: a write of the runtime took over a
                                   \* revision that somebody else had moved
          signalled,               \* history: the sources the last step
                                   \* signalled and the memories it affected
          outside                  \* writes past the runtime so far

indexes == <<sourceMemoryIds, dependentsByDependency>>
indexVars == <<records, sourceMemoryIds, dependentsByDependency, indexed, hasRevision, masked,
               signalled, outside>>

NoSignal == [sources |-> {}, affected |-> {}]

IndexTypeOK ==
  /\ records \in [Memories -> Records]
  /\ sourceMemoryIds \subseteq Sources \X Memories
  /\ dependentsByDependency \subseteq Memories \X Memories
  /\ indexed \in BOOLEAN /\ hasRevision \in BOOLEAN /\ masked \in BOOLEAN
  /\ signalled \in [sources : SUBSET Sources, affected : SUBSET Memories]
  /\ outside \in 0 .. MaxOutside

Stored(m) == records[m] # Absent

(* The index entries of one record (indexRecord, deindexRecord). *)
SourceEntries(m, r) == IF r = Absent THEN {} ELSE r.src \X {m}
DependencyEntries(m, r) == IF r = Absent THEN {} ELSE r.deps \X {m}

(* rebuildIndexes: the entries of all records of R. *)
SourceIndexOf(R) == UNION {SourceEntries(m, R[m]) : m \in Memories}
DependencyIndexOf(R) == UNION {DependencyEntries(m, R[m]) : m \in Memories}

(* The runtime is built on an empty store. *)
IndexInit ==
  /\ records = [m \in Memories |-> Absent]
  /\ sourceMemoryIds = {} /\ dependentsByDependency = {}
  /\ indexed = TRUE /\ masked = FALSE
  /\ hasRevision \in BOOLEAN
  /\ signalled = NoSignal
  /\ outside = 0
-----------------------------------------------------------------------------
KeepsOldEntries(m, old, new) ==          \* mutant: deindexRecord is forgotten
  /\ sourceMemoryIds' = sourceMemoryIds \cup SourceEntries(m, new)
  /\ dependentsByDependency' = dependentsByDependency \cup DependencyEntries(m, new)

(* deindexRecord(old), indexRecord(new). *)
Reindex(m, old, new) ==
  /\ sourceMemoryIds' =
       (sourceMemoryIds \ SourceEntries(m, old)) \cup SourceEntries(m, new)
  /\ dependentsByDependency' =
       (dependentsByDependency \ DependencyEntries(m, old)) \cup DependencyEntries(m, new)

(* A write through the runtime ends in syncStoreRevision, which takes the  *)
(* store's revision over without looking at what else moved it.            *)
Writes(m, r) ==
  /\ records' = [records EXCEPT ![m] = r]
  /\ indexed' = TRUE
  /\ masked' = (masked \/ ~indexed)
  /\ signalled' = NoSignal
  /\ UNCHANGED <<hasRevision, outside>>

(* register: dependencies need not exist. *)
Register(m, r) ==
  /\ ~Stored(m)
  /\ Writes(m, r)
  /\ Reindex(m, Absent, r)

Derive(m, r) ==
  /\ ~Stored(m)
  /\ r.deps # {} /\ \A d \in r.deps : Stored(d)
  /\ Writes(m, r)
  /\ Reindex(m, Absent, r)

Replace(m, r) ==
  /\ Stored(m)
  /\ Writes(m, r)
  /\ Reindex(m, records[m], r)

(* applyValidation, after its compare-and-swap succeeded. *)
ApplyValidation(m, status) ==
  /\ Stored(m)
  /\ Writes(m, [records[m] EXCEPT !.status = status])
  /\ UNCHANGED indexes

Restore(R) ==
  /\ records' = R
  /\ sourceMemoryIds' = SourceIndexOf(R)
  /\ dependentsByDependency' = DependencyIndexOf(R)
  /\ indexed' = TRUE /\ masked' = FALSE
  /\ signalled' = NoSignal
  /\ UNCHANGED <<hasRevision, outside>>

(* Another writer of the same store: a put that moves the revision.        *)
StorePut(m, r) ==
  /\ outside < MaxOutside
  /\ outside' = outside + 1
  /\ records' = [records EXCEPT ![m] = r]
  /\ indexed' = FALSE
  /\ signalled' = NoSignal
  /\ UNCHANGED <<indexes, hasRevision, masked>>
-----------------------------------------------------------------------------
(* refreshIndexesIfStoreChanged keeps the indexes when this holds. *)
IndexesAreCurrent == hasRevision /\ indexed

DirectOnly(index, seeds) == seeds               \* mutant: dependents are not visited

(* dependentClosure: breadth first over the index, every memory once; the  *)
(* n-th round has the memories at most n dependencies away.                *)
DependentClosure(index, seeds) ==
  LET round[n \in 0 .. Cardinality(Memories)] ==
        IF n = 0 THEN seeds
        ELSE round[n - 1] \cup {e[2] : e \in {x \in index : x[1] \in round[n - 1]}}
  IN round[Cardinality(Memories)]

(* A signal writes STALE over the records that are not STALE or INVALID;   *)
(* index entries without a record are passed over.                         *)
BecomesStale(r) == r.status \notin {"STALE", "INVALID", "ABSENT"}

(* signalSourcesChanged, also for a single source. *)
SignalSourcesChanged(S) ==
  LET sources    == IF IndexesAreCurrent THEN sourceMemoryIds ELSE SourceIndexOf(records)
      dependents == IF IndexesAreCurrent THEN dependentsByDependency
                    ELSE DependencyIndexOf(records)
      direct     == {e[2] : e \in {x \in sources : x[1] \in S}}
      affected   == DependentClosure(dependents, direct)
  IN /\ records' = [m \in Memories |->
                      IF m \in affected /\ BecomesStale(records[m])
                      THEN [records[m] EXCEPT !.status = "STALE"] ELSE records[m]]
     /\ sourceMemoryIds' = sources
     /\ dependentsByDependency' = dependents
     /\ indexed' = TRUE
     /\ masked' = (masked /\ IndexesAreCurrent)
     /\ signalled' = [sources |-> S, affected |-> affected]
     /\ UNCHANGED <<hasRevision, outside>>

IndexNext ==
  \/ \E m \in Memories :
       \/ \E r \in Inputs : Register(m, r) \/ Derive(m, r) \/ Replace(m, r)
       \/ \E r \in OutsideInputs : StorePut(m, r)
       \/ \E status \in {"FRESH", "INVALID", "UNKNOWN"} : ApplyValidation(m, status)
  \/ \E R \in Snapshots : Restore(R)
  \/ \E S \in (SUBSET Sources) \ {{}} : SignalSourcesChanged(S)

IndexSpec == IndexInit /\ [][IndexNext]_indexVars
-----------------------------------------------------------------------------
(* The memories a change of S concerns, by the records and not by the      *)
(* indexes: the least set with every record on a source of S and every     *)
(* record that depends on a member.                                        *)
Concerned(S) ==
  {m \in Memories : \A X \in SUBSET Memories :
     (\A y \in Memories : Stored(y) /\ (records[y].src \cap S # {} \/ records[y].deps \cap X # {})
                            => y \in X)
       => m \in X}

ReachedExactly(S) ==
  /\ {m \in signalled.affected : Stored(m)} = Concerned(S)
  /\ \A m \in Concerned(S) : records[m].status \in {"STALE", "INVALID"}

(* After a signal exactly the memories the change concerns were reached,   *)
(* however often records were re-pointed before, dependency cycles and     *)
(* other writers' records included, and none of them is usable, unless a   *)
(* write of the runtime came between another writer's put and the signal   *)
(* (signalSourcesChanged, refreshIndexesIfStoreChanged, deindexRecord).    *)
SignalReachesConcerned ==
  signalled.sources # {} /\ ~masked => ReachedExactly(signalled.sources)

(* The indexes hold the entries of the stored records and no other through *)
(* register, derive, replace and restore, whenever the runtime takes them  *)
(* for current and nothing was masked.                                     *)
IndexesMatchRecords ==
  indexed /\ ~masked =>
    /\ sourceMemoryIds = SourceIndexOf(records)
    /\ dependentsByDependency = DependencyIndexOf(records)

(* A signal reaches what it concerns whatever was written before it, also  *)
(* to the store behind the runtime's back: the indexes refresh when the    *)
(* store is mutated outside the runtime (refreshIndexesIfStoreChanged).    *)
EverySignalReaches ==
  signalled.sources # {} => ReachedExactly(signalled.sources)
=============================================================================
