# A verification project for PREMiSE

PREMiSE keeps *memories* (records an agent derived from outside sources) and
tells the agent whether a memory may still be used. A record is `FRESH`,
`STALE`, `INVALID` or `UNKNOWN`; signals of source changes make records stale,
validators that observe the source again make them fresh. Around this core are
leases and shared flights that keep many processes from validating the same
thing at once, ordered event streams that deliver source changes, a journal, a
PostgreSQL store behind a write-behind mirror, an HTTP server with an SDK, and
guards between a decision and its effect.

This directory holds TLA+ modules for the parts whose correctness depends on
interleaving, failure and order, the TLC configurations that check them and
TLAPS proofs of the results that hold for every size. `PROJECT.json` lists the
components, the runs, the source lines every definition models, the hazards and
the findings.

## 1. Inventory

| Part (under `src/packages/` unless `ops/`) | State | Operations | Talks to |
| --- | --- | --- | --- |
| `runtime-core/src/index.ts`: `PremiseRuntime`, revalidation | records in a `RuntimeStore`, `validationFlights`, receipt cache, `receiptGeneration` | `revalidate`, `revalidateMany`, `signalSourcesChanged`, `replace` | validators (await), the store (compare-and-swap), the journal |
| the same, reverse indexes | `sourceMemoryIds`, `dependentsByDependency`, `indexedStoreRevision` | `register`, `derive`, `replace`, `restore`, signals | the store, which others may write too |
| the same, ordered streams; `stream-burst.ts` | `streamStates`, the store's events and their compaction | `applyStreamEvent`, `repairStreamFromSnapshot`, `applyStreamBurst` | connectors (deliver twice, late, never) |
| `runtime-core/src/validation-lease.ts` | leases, fencing counters, last observed clocks | `acquire`, `renew`, `release`, `validate` | callers with clocks of their own |
| `store-postgres/src/validation-lease.ts` | one row per scope | the same four, as SQL transactions | other connections |
| `runtime-core/src/fenced-single-flight.ts` | map of flights, latest generation per resource, token counter | `validate`, and the callbacks it leaves behind | source (await), timers, abort signals |
| `store-postgres/src/validation-flight.ts` | one row per scope: leader, token, receipt | `claim`, `complete`, `read`, `waitForCompletion` | other connections |
| `runtime-core/src/frontier-engine.ts` | the graph, marked roots, per node the roots above it and their frontier, tombstones of resolved roots with their counters, kept answers and closures, trust | `setDependencies`, `removeNode`, `markDirty`, `resolve`, `replaceStatus`, `restoreStates`, `markUnknown`, `frontier` | its caller only, synchronously |
| `runtime-core/src/journal.ts`, `checkpoint.ts` | cursor, idempotency index, lines of a file, checkpoint file | `appendEvent`, `appendDecision`, `checkpoint`, `load`, paged reads, recovery | the file system (crash, full disk) |
| `ops/runtime-store.mjs`: `DurableMirrorStore` | an in-memory mirror, a queue of tasks with dependencies, an open event batch | `put`, `putAndAppend`, `appendEvent`, `restore`, `flush`, `close` | the PostgreSQL store, the server's answers |
| `store-postgres/src/index.ts`, `ops/backup-format.mjs`, `ops/restore.mjs` | tables of records, events (one sequence for all tenants), consumer checkpoints, idempotency claims | appends, `replay`, snapshots, backup, restore | other connections and tenants |
| `premise-server/src/index.v2.ts`, `ops/server.mjs`, `sdk/src/index.ts` | claims of Idempotency-Keys, consumed signatures | a POST: claim, verify, act, wait for durability, complete or release; the SDK's retries | the mirror, the idempotency table, a network that loses answers |
| `runtime-core/src/premise-policy.ts`, `premise-guard.ts` | none of their own | `planPremiseValidation`, `executePremiseGuard` | an adapter that commits conditionally |
| `runtime-core/src/guarded-tools.ts`, `session.ts` | idempotency entries, actions in flight, a session's memories | `check`, `revalidate`, `act` | callbacks with a time limit |
| `connector-webhook/src/index.ts` | deduplication entries | `deliver`, `receive`, `handle` | the network, the application's handler |
| `security-core/src/external-key-provider.ts` | cached material, shared fetches, epochs | `resolve`, `invalidate`, `clear`, `createKeyRing`, `rotateKeyRing` | a key service (await) |
| `security-core/src/audit-sink.ts`, `AuditLog` | the chain in memory, the file, poisoning | append, open, close | the file system |
| `runtime-core/src/receipt-cache.ts`, `negative-premises.ts` | bounded maps in insertion order, counters per tenant | put, get, check, invalidate, evict | the runtime |
| `reference-ts/src/*` | records with kept statuses, the acyclic graph, the journal | `register`, `derive`, `replace`, `signal`, `validate`, `check`, `replayEvents` | validators |
| `context-engine/src/index.ts` | none | `select` | its caller |
| SQLite stores, adapters, MCP, hybrid index, validators, explainability, conformance suite, ports | see `PROJECT.json` | | |

What is hard in this code, and the property each part stands or falls with:

* **Await points.** `revalidate` reads a record, awaits validators and writes.
  Signals, replacements and other calls run in between. A result must not be
  written over a change it did not see, nothing cached may be older than a
  signal, a batch must not be half applied, every call must settle.
* **Derived state.** Whom a signal reaches is decided by indexes kept beside a
  store that other parties may write to; the frontier engine and the reference
  machine keep answers up to date step by step and must agree with a computation
  from scratch after any history.
* **Clocks.** Lease managers and database clients bring their own clocks, which
  jump, stop and run backwards. A superseded holder must stay shut out.
* **Late answers.** A time-out settles callers while the source call, the HTTP
  handler, the webhook handler or the tool's callback goes on. A repetition meets
  what the first attempt left behind.
* **Unreliable delivery and half-done repairs.** A stream must not be trusted
  across a hole and must be repairable after any failure.
* **Answers before durability.** The runtime answers from memory and PostgreSQL
  is told behind its back: order, failure and the moment of the answer matter.
* **Crashes inside writes, writes that fail.** Journal and audit file must load
  again and keep what they acknowledged.

`PROJECT.json` lists these one by one as hazards, at the line where they bite.

## 2. Modules

Modules are plain TLA+. `MC*` modules give constants their values. Some of them
also put components side by side that a deployment uses in the same place; a
variable (`store`, `where`, `part`) fixed in the initial state says which one a
behaviour is about, so one run asks one question of all of them.

| Module | Models | Notes |
| --- | --- | --- |
| `SafeIntegers` | integers up to `Number.MAX_SAFE_INTEGER` | a named constant |
| `LeaseContract` | what a lease promises | abstract specification: `Grant`, `Extend`, `End`, `Elapse` |
| `LeaseClients` | the callers' answers and beliefs | history shared by both lease stores |
| `ValidationLease`, `PostgresLease`, `MCLeases` | the two lease stores | both implement `LeaseContract` |
| `LeaseProofs` | | theorems about either store |
| `FencedSingleFlight`, `PostgresFlight`, `MCFlights`, `FlightsProofs` | shared validations in a process and between processes | |
| `Revalidation`, `MCRevalidation`, `RevalidationProofs` | revalidation, receipts, shared flights, signals | a step ends where the code awaits |
| `RuntimeIndex`, `MCRuntimeIndex`, `RuntimeCoreProofs` | records and reverse indexes | every operation is synchronous, hence one step |
| `StreamContinuity`, `MCStreamContinuity`, `RuntimeCoreProofs` | streams, bursts, repairs, compaction | operations as functions of a state, so that two ways to apply a burst can be compared |
| `FrontierEngine`, `MCFrontierEngine` | `IncrementalFrontierEngine` | the index is a record and its maintenance are functions on it |
| `DurableMirror`, `RuntimeTables`, `FileJournal`, `MCDurability`, `DurabilityProofs` | where state is kept | |
| `RequestPath`, `PremiseGuard`, `WebhookConnector`, `KeyResolver`, `AuditTrail`, `MCRequestPath`, `RequestPathProofs` | the edge of a service | |
| `GuardedActions`, `ContextEngine`, `MCGuardedActions`, `GuardedActionsProofs` | an agent's actions and its context | `ContextEngine` is an algorithm over a set of requests (`SelectSpec`) |
| `ReferenceProtocol`, `KnowledgeStores`, `MCReference`, `ReferenceProofs` | the reference machine; bounded stores | |

### How state and actions correspond to the code

**Leases.** `leases`, `fencingCounters`, `lastObservedAt` are the store's fields
and `managerClock` the manager's `lastObservedAt`. `Acquire(m, s, o, l, d, t)` is
`ValidationLeaseManager.acquire` with clock reading `t`: read the clock, refuse
an overflowing expiry, call the store, which checks its own clock, drops an
expired entry, fails closed on an exhausted counter. `told` is what callers may
still believe; it is the history that makes "accepted only while held" sayable.
`Live(lastObservedAt)` is the refinement mapping: the leases that have not
expired at the last instant the store decided anything.

**PostgreSQL leases.** `rows` is the table, never deleted from. The upsert locks
the conflicting row to the end of the transaction, so `Acquire` is one step.
`Renew` and `Release` are one conditional `UPDATE`; when it misses, `pending`
keeps the claim until `RejectionFor`, and other transactions may commit in
between. A row that breaks a `CHECK` constraint throws (`Throws`).
Callers' clocks are unrelated. `inOrder` is history: no transaction so far ran
with an instant behind an earlier one. The fence must hold without it; the full
contract is promised while it is true.

**PostgreSQL flights.** `row` is the scope's row, never deleted. The upsert of
`claim` locks the conflicting row whether or not its `WHERE` holds, so the
`SELECT` after it sees the same row and `claim` is one step; `complete` is a
conditional `UPDATE`, and `ExplainMiss` the second statement when it misses.
`leads` is what a worker remembers of the claims it was answered; it may never
hear of one, may repeat `complete` with another receipt, and forgets everything
in a `Restart`. `granted`, `published` and `heard` are history; an entry of
`heard` has the newest token there was when the call began.

**Frontier.** `index` gathers the maintained maps: `roots`
(`activeDirtyRoots`), `frontiers`, `nodesByRoot`, `closures`
(`affectedClosureCache`), `inactive` with the two entry counters.
`CompactResolvedRoots`, `MergeDirtyState`, `PropagateDirty`, `ReactivateRoot`
and `RebuildDirtyState` are the methods of those names as functions of the
index. Whether the work budget runs out is a choice of each operation
(`Maintains`); the index is not kept while the engine is untrusted, since no
answer is read off it and only `RestoreStates` regains trust, from nothing.
`TrueAnswer`, which the properties compare with, knows the graph and the marks
only, and takes descendants as a least closed set.

**Revalidation.** `calls` are the activations of `revalidate` and
`revalidateMany`: the ids, the ones read as `FRESH`, the evidence still to ask
for, the flights awaited, the answers, and which of the records were written
since (`changed`, what the compare-and-swap compares; `moved`, what the revision
compares). `flights` is `validationFlights` together with the validators under
way; a flight is `fenced` when `receiptGeneration` moved since it started.
`ValidatorObserves` is the external instant at which a validator reads the
source and `FlightSettles` the later one at which its promise settles. `late`
is history: a signal for the source was processed after the observation.
`mode`, fixed from the start, says whether receipts and flights are shared and
which kind of store there is; a store with neither compare-and-swap nor revision
(compared record by record) is not modelled. Rejected calls of an isolated flight keep their slot until their
validators are done, which only bounds the number of flights.

**Indexes.** The maps are sets of pairs. `indexed` is whether
`indexedStoreRevision` equals the store's revision. `hasRevision` is the kind of store: without a revision the indexes are rebuilt
before every signal. `StorePut` is a writer that does not go through the runtime;
`masked` is history: a write of the runtime took over the revision of such a put
before the indexes were rebuilt. `DependentClosure` is the breadth-first search
as rounds over the index; `Concerned`, which the property compares it with, is
the least fixed point over the records.

**Single flight.** A flight keeps the caller set, the phase of its source call
and the outcome of its public promise apart: a time-out settles the promise and
leaves the source call and the map entry. `overtaken` is history.

**Streams.** `seen` holds events (a fingerprint identifies an event), `store`
what is stored under an idempotency key: a body, nothing, or `released` after
compaction. `persisted` is history.

**Journal.** A write leaves nothing, a torn line, a line without its newline or
the whole line; a crash can stop at each, and so can a failed write, up to
`MaxFailures` of them (`failures` counts them). What is appended to a torn line is glued to it.
`ReadPages` follows the cursors of the paged reads, `Recovery` is
`verifyRuntimeCheckpointRecovery` over checkpoint and tail.

**Mirror.** `mirror` is what the runtime reads and `db` what PostgreSQL holds; a
record is the revision that wrote it. `tasks` are the queued writes with the
tasks they depend on (`deps`), and, of an event batch, the puts it waits for once
it has a writer (`waits`). `ready`, `tails`, `lastEventTask`, `eventBatch` and
`restoreTask` are the fields of those names. An operation is one step; a task
takes one step when its statements take effect and another when it hears of it,
so an answer can be lost and the process can die between the two. `promised` is
history: what the answered flushes covered.

**Tables.** `last` is the sequence: an insert takes a number at once, shows its
row at the commit, and leaves a hole when it rolls back. `BeginBatch` and
`EndBatch` are the two ends of a replay transaction with the handler between
them. `Repaired` is `repairEventSequence` under the row security of one tenant;
`rewound` is history: the tenants whose events the sequence fell behind by the
restore of another. A backup taken of such a tenant has the event behind the cursor
in it, so a view records whether its tenant was rewound, and the restore brings that
back with the rest.

**Requests.** `calls` is the SDK's side of a call, `handlers` one entry for each
attempt on the server, which may outlive the attempt. A handler goes from claim
to verification, action, wait for durability and completion, or releases its
claim on any error. `rows` is the idempotency table (or map, with
`mode = "memory"`), `aged` a claim older than its 60 s lease. `stored` is what
the mirror holds and `durable` what PostgreSQL does; how the one becomes the
other in order is `DurableMirror`'s matter. `told` is history.

**Guard.** `planPremiseValidation` is evaluated over the inputs it tells apart
at all four risks (`RiskOnlyTightens`). For the guard, `world` is what holds at the
source, `receipts` what the caller knows, `validated` the gate it validated
itself; the adapter's commit compares versions atomically and may report what it
observed, which carries the next attempt.

**Webhooks.** `sender` is `deliver` with its retries, `request` each attempt on
its way or at the receiver, `entries` the deduplication store with its limit.
`forgotten` is history: keys that left the store by eviction or a restart, for
which nobody promises anything.

**Keys.** Material is told apart by how often its key had been invalidated when
its fetch began. **Audit.** An entry is the sequence of events up to its own, as
its hash stands for all before it; `synced` is what a crash keeps.

**Actions.** An agent's call goes through check, claim of the key, act and
completion; a callback nobody waits for any more stays in `callbacks` and may act
later. The idempotency store outlives the tools. Sessions share a runtime
(`records`) and act through a conditional write of the adapter.

**Context.** A text is the sequence of its words' lengths, tokens are those of
`defaultTokenEstimator`. The operators follow the passes of `select`: chunks,
hierarchy, gate, duplicates, order, selection with a reason for every omission.

**Reference.** The journal is kept as what `replayEvents` makes of it (`replayed`),
a fold. `validate` applies all results without awaiting: while `todo` is not
empty nobody else moves. `journalled` is history: no change so far was one the
journal cannot tell (`replace` of a memory with dependents).

**Bounded stores.** `kind` says which of the three stores a behaviour is about.
`era` is history: how often a resource's absences have been invalidated.

**Type invariants.** The modules with proofs, the stores, streams and
flights state `TypeOK`. It is not listed among the
properties of the runs; `INVARIANT TypeOK` (or `P!TypeOK`, `W!TypeOK` in an MC
module through a definition) can be added to any configuration and holds on the
instances of the runs.

## 3. Runs

Passing runs; the numbers are distinct states.

| Run | Bounds | Shows |
| --- | --- | --- |
| `leases` | either store; 2 managers or connections, 2 owners, 1 scope, instants and tokens up to 3 | `LeaseInv`, `AcceptedOnlyWhileHeld`, `GrantsNeverOverlap`, `ImplementsContract` for the in-memory store; `OnlyNewestTokenAccepted` whatever the clocks say and `PostgresImplementsContract` while they agree (160 614) |
| `flights` | 2 callers, 3 scopes of 1 resource in 2 versions, 3 flights, all options; or 2 workers, 1 scope, 2 receipts, instants and tokens up to 3 | `FencedExactlyWhenOvertaken`, `NobodyWaitsInVain`, `OneReceiptPerToken`, `NothingOldIsUsed` (870 269) |
| `revalidation` | 2 calls, 2 records on 1 source, 2 disturbances, shared flights and receipts, both kinds of store | `ReceiptsAreCurrent`, `CommitsOnCurrentRecord`; `BatchAllOrNothing` on a store with a revision (1 019 021) |
| `revalidation_liveness` | 2 calls, a record on 2 sources and one without evidence | `EveryCallSettles` (219 413) |
| `runtime_index` | 3 records over graphs with cycles, outside writes, stores with and without a revision | `SignalReachesConcerned`, `IndexesMatchRecords` (272 184) |
| `stream` | 4 sequences, 8 events with conflicting contents and keys, all pages of up to 2 and bursts of up to 3, 1 compaction | `TrustedStreamHasNoHoles`, `CoalescingIsTransparent`, `PersistedPageRepairs` (2 186) |
| `frontier` | 3 nodes: a chain, or two roots and a join added later; 1 change of the graph; 2 severities on any set of nodes | `AnswersAreExact`, for answers and affected sets (24 064) |
| `durability` | mirror: 2 records, 2 events, 2 writers, 4 tasks, 1 fault; tables: 2 tenants, 1 writer, 2 replay calls, 1 restore; journal: 2 keys, 2 events a key, 3 cursors, crashes, 1 failing write | `AnsweredIsDurable`, `WritesKeepTheirOrder`, `QueueProceeds`, `ReplayIsExact`, `JournalKeepsEntries` (1 211 523) |
| `request` | 2 calls with 4 kinds of request, 2 attempts, 2 faults, both store modes, with and without signatures; 2 premises; 2 deliveries with 2 attempts; 2 keys and 2 callers; 3 audit events and 3 mishaps | `AnsweredIsStored`, `OneRequestSucceeds`, `OwnAttemptsNeverConflict`, `RiskOnlyTightens`, `EffectsUnderValidatedGates`, `HandledOnce`, `NoRevivedMaterial`, `AcknowledgedStaysVerifiable` (2 093 019) |
| `actions` | 2 agents, 2 tools, 2 keys, 2 actions, an idempotency store with room for 1, 2 sessions, 2 faults; 69 120 requests for context over 3 candidates | `KeyHasOneEffect`, `DefiniteAnswersAreTrue`, `SelectionIsJustified` (539 241) |
| `reference` | 3 memories, 1 source, expiry, every acyclic graph; 2 tenants with limits 2 and 1 | `StatusesAreExact`, `ReplayAgrees`, `LimitsHold`, `AbsenceIsRecent` (126 646) |

Why the bounds are enough to be worth running: a token needs two supersessions
to go wrong (3 tokens), an overlap two owners and two clocks; the races of
revalidation need one call that observed before and one that started after a
signal, and a second disturbance to undo the first; an index entry is lost by
one re-pointing and missed by one more hop (3 records give chains, diamonds'
halves and cycles); a generation is forgotten wrongly with one older, one newer
and one finished flight; a resolved root goes wrong with one descendant
compacted and one not, which a chain of three has, and a frontier with two roots
above a join; a torn line matters with a line before, the torn one and one after
it; the mirror's order needs a task that runs, one that waits for it and one that
may overtake both, and a fourth behind a restore; a retry that meets its own
first attempt needs two attempts, a take-over one more call; a full idempotency
store one entry; a status three memories for a dependency of a dependency. Every
bound is a named constant. Symmetry is used on calls, memories, callers, workers,
agents and the like, which are interchangeable, and never in a liveness run.

The run that refutes what a document says; the finding in `PROJECT.json` quotes
the lines:

| Run | Refuted | What happens |
| --- | --- | --- |
| `request_memory` | `RepetitionReturnsResult` | with `PREMISE_STORE_MODE=memory` the server stores the memory and then calls `flush`, which the in-memory store does not have: 400 on the first attempt and on every repetition |

More questions are kept to be run by hand, some as a configuration, some as a
variation of one. TLC finds a counterexample to each property alone; the property
of the passing run is the part that does hold:

| Configuration (module) | Refuted | What happens |
| --- | --- | --- |
| `PostgresLeaseRelease.cfg` (`PostgresLease`) | `HolderCanRelease` | release in the millisecond of the acquire violates a `CHECK` constraint and throws |
| `RuntimeIndex.cfg` (`MCRuntimeIndex`) with `INVARIANT EverySignalReaches` | `EverySignalReaches` | an own write after an outside put hides the put from signals |
| `RevalidationLateSignal.cfg` (`MCRevalidation`) | `FreshIsObserved` | a signal passes over a `STALE` record under validation, which then becomes `FRESH` on the older observation; `docs/v2-architecture.md` says only a validator that observes the source again may return a record to `FRESH` |
| the same | `PaysNewValidation` | a record made stale joins the flight that observed before the signal |
| the same | `EveryBatchAllOrNothing` | with a compare-and-swap store a batch is applied in part |
| `StreamContinuity.cfg` (`MCStreamContinuity`) with `INVARIANT ExactReplaysRepair` | `ExactReplaysRepair` | after compaction the exact replay of a stored event is a conflict |
| `FileJournalFailed.cfg` (`FileJournal`) | `FailureIsIsolated`, `RetriedIsStored` | the retry of a failed append is answered and not stored; a failed write followed by a good one leaves a file that does not load, although `docs/runtime-journal.md` calls a journal write failure isolated |
| `DurableMirrorSerial.cfg` (`DurableMirror`) | `QueueProceeds` | with one writer, which `writeConcurrency` accepts, an event batch occupies the writer while it waits for a put queued behind it |
| `RuntimeTablesShared.cfg` (`MCDurability`) | `EveryEventIsReplayed` | the restore of one tenant sets the shared sequence back; a later event of another tenant gets a number behind its consumer's cursor |
| `RequestPathMemory.cfg` (`MCRequestPath`) with `Modes = {"postgres"}`, `Signed = {TRUE}` | `RepetitionReturnsResult` | an attempt that fails after verification has consumed the envelope's signature; the repetition is refused as a replay |

Also worth knowing, found while modelling and left as the code has it:

* Reference machine: `validate` with result `UNCHANGED` for a memory with an
  `UNKNOWN` dependency throws after it changed state (`validation/index.ts:227`,
  `events/index.ts:70`). A signal for a memory that is already `STALE` and the
  effect of `replace` on dependents are not journalled; `ReplayAgrees` is claimed
  for histories the journal can tell.
* Audit: an `AuditLog` always begins at its genesis, so after a restart it cannot
  continue the chain its sink has on disk. An event with a key name the sink takes
  for a secret is in the log and refused by the sink, and the chain of the file
  cannot go on either.
* Journal: decision entries hold no event, so `compactOperational` refuses a tail
  with one in it.
* Webhooks: a retry is answered "duplicate" while the first handler still runs; if
  that one then fails, the sender was told of success for a delivery nobody
  handled. `HandledOnce` bounds the handling from above only.
* Context: a candidate with a `dedupeKey` of its own that is longer than a chunk
  keeps one chunk of its text; a duplicate is dropped before budget and hierarchy
  decide on the one that was kept, so both may be missing.

**Fairness.** `Revalidation`: every validator settles (the runtime has no time
limit of its own, so this is an assumption on validators) and the continuation
of a settled promise runs, which the JavaScript event loop guarantees.
New calls, signals and disturbances have no fairness. `FencedSingleFlight` and
`DurableMirror` state the safety half only: a flight somebody waits for is still
to be settled (`NobodyWaitsInVain`), a queue with a task has one that can go on
(`QueueProceeds`).

**Deadlock** is checked in `leases`, `revalidation`, `revalidation_liveness`,
`runtime_index`, `stream` and `frontier`. Elsewhere a named bound uses up the
calls, tasks or requests, or the program really stops (a closed store, a journal
that refuses to load).

**Mutants.** Each property of each passing run has a mutated definition, kept
beside the original and marked `mutant`, that breaks it: a dropped token
comparison, an index not rebuilt, a clean-up that forgets the others.

## 4. Proofs

Every theorem holds for all sets of calls, scopes, keys, memories and the like
and for every value of the bounds, within the assumptions the modules name. TLC
evaluates those on the runs, and it checked the inductive invariants on the same
instances.

**`LeaseProofs`** (assumptions `MaxSafeIntegerIsPositive`, `DurationsArePositive`).
Of the store in memory:

* `Invariance`: `Spec => [](TypeOK /\ LeaseInv)`. `LeaseInv` is the inductive
  invariant itself: one entry per scope, the entry has the scope's newest token,
  its instants are in order and not ahead of the store's clock, every entry is a
  grant somebody was told of and every told grant that has not expired is an
  entry. Without the link between `told` and `leases` nothing could be said of a
  presented claim; without `EntryIsTimely` the manager's distrust
  (`validLeaseForScope`) could drop an answer the store had committed.
* `HeldTheorem`: `AcceptedOnlyWhileHeld`, `NoOverlapTheorem`:
  `GrantsNeverOverlap`, both as action properties from the invariant.
* `RefinementTheorem`: `Spec => ImplementsContract`. Each operation maps to
  `Grant`, `Extend`, `End` or, when it is refused or only reads, `Elapse` to the
  instant it was decided at.

Of the store in PostgreSQL:

* `TableInvariance`: one row per scope, the row has the newest token and every
  grant a caller was told of agrees with it; a miss still to be explained
  (`pending`) lies in the past; while the instants come in order, a row that has
  not expired was answered to somebody and not seen to end (`LiveRowsAreTold`,
  which is what makes `Grant` and `End` of the contract line up with the rows).
* `OnlyNewestTokenTheorem`: `OnlyNewestTokenAccepted`, with no assumption on clocks.
* `HeldWhileClocksAgreeTheorem` and `PostgresRefinementTheorem`
  (`PostgresImplementsContract`): what the in-memory store promises for any clock,
  while `inOrder`. A miss and its explanation are two steps; the second maps to a
  step of the contract that ends nothing.

**`FlightsProofs`** (`ScopeAssumption`; 0 is no version, it marks a resource
without a generation):

* `OneReceiptPerTokenTheorem` and `NothingOldIsUsedTheorem` of `PostgresFlight`,
  from `FlightTableInv`: the row has the newest token granted, a row in progress has no
  receipt published under its token, and the token a wait began with is not above
  the row's.
* `FencedInvariance`, `FencedExactlyWhenOvertakenTheorem`,
  `NobodyWaitsInVainTheorem` of `FencedSingleFlight`. The invariant says of an
  open flight that it is overtaken exactly when its generation and token are no
  longer the resource's latest. The token is needed: an older version asked for
  again is the latest again, and only a token of its own tells its flight from
  the one before.

**`RevalidationProofs`** (`GraphAssumption`): `RevalidationInvariance`, from which
`ReceiptsAreCurrentTheorem`, `BatchAllOrNothingTheorem`,
`CommitsOnCurrentRecordTheorem` (an action property) and `RevalidationTypeTheorem`
follow. `RevalidationInv` says that a shared flight that observed before a signal is
fenced, that flights have keys of their own and every awaited one exists, and that
a call with changed records on a store without compare-and-swap has seen the
revision move. Flights and receipts are about sources some memory has evidence
of; for another source a signal reaches nobody and would not move the generation.

**`RuntimeCoreProofs`** holds the theorems about the indexes and about the streams.
Of the indexes (`IndexAssumption`): `IndexesMatchTheorem`,
`IndexSpec => []IndexesMatchRecords`. The inductive invariant `IndexInv` adds the types
of the records; the match is claimed while the runtime takes its indexes for
current (`indexed`) and nothing is `masked`. The heart is that an index entry names
its memory, so removing the entries of the old record and adding those of the new
one changes no other record's entries. `SignalReachesConcernedTheorem` adds the
walk: the rounds of `DependentClosure` grow, so after as many rounds as there are
memories one changed nothing (`ClosureIsLeast`, by counting); every closed set
contains every round (by induction over a set of naturals, see below); hence the
result is the least fixed point that `Concerned` defines, over the records because the indexes match.

Of the streams (`StreamAssumption`), for pages and bursts of any length: `StreamInvariance`, `TrustedStreamHasNoHolesTheorem`,
`PersistedPageRepairsTheorem`, `CoalescingIsTransparentTheorem`. `AppliedAll` walks a
list, so these need induction over data. The library's induction theorems take
an operator as a parameter and cannot be used; `LeastNat` derives from
`WFMin` that a set of naturals has a least element and `InductionOverNat` from
that the induction rule for a *set* of naturals. `RunExists` shows with it that
the recursive function behind `AppliedAll` exists, `RunSteps` that it steps
event by event. `StreamInv` adds to the property that the store and the history
agree on what is stored (`Remembers`), without which a repair could not be shown to
find its events. Coalescing rests on `Sound` along the run and on
`AcceptedAgrees`: events accepted one by one agree with what is stored and follow one another, so
the page repair that the planner applies behind the skipped prefix is accepted too.

**`RequestPathProofs`** (`RequestAssumption`, `KeysAssumption`; `HookAssumption`,
what the constructors accept; `TrailAssumption`, half a line is no entry):

* `RequestInvariance`, and from it `AnsweredIsStoredTheorem`,
  `OneRequestSucceedsTheorem`, `OwnAttemptsNeverConflictTheorem`. `RequestInv` ties a
  completed row and a handler past its wait to `durable`, keeps stored requests
  apart by key and memory, and says that a refusal on its way to the client
  already has somebody to blame.
* `NoRevivedMaterialTheorem` for `KeyResolver`, from `KeysInv`: what is cached or may still be
  joined was fetched since the last invalidation, and a fetch whose epochs are
  still the current ones too, which is what the resolver compares before it
  caches.
* `EffectsUnderValidatedGatesTheorem` and `RiskOnlyTightensTheorem` for
  `PremiseGuard`. `GuardInv`: a receipt with the version of the source has its gate,
  and while a request is under way its receipts have the gates it validated.
* `AcknowledgedStaysVerifiableTheorem` for `AuditTrail`, from `TrailInv`: only the last line
  of the file can be torn, every prefix without it is a chain, an open sink that
  is not poisoned knows exactly what the file holds, and what was acknowledged
  lies in the part that was synced, which a crash does not touch.
* `HandledOnceTheorem` for `WebhookConnector`, from `HookInv`: a delivery that is
  not `forgotten` is free with nothing done, held with one handler running, or held
  with one run that succeeded; keys in the store are distinct, so `release` frees
  no other delivery, and an attempt not sent yet does not run, so a retry starts
  over no handler. A claim in a full store evicts the oldest key, never its own,
  because the store has room for one.

**`GuardedActionsProofs`** (`ActionsAssumption`; `"none"` is no key, sessions act
without one): `ActionsInvariance`, `KeyHasOneEffectTheorem`,
`DefiniteAnswersAreTrueTheorem`. A key has one entry, which is never taken back;
flights, callbacks and effects are what their key's entry claims, at most one
callback belongs to a key, and one that has not acted means no effect under the
key yet. A refused agent's key belongs to another action or the store is full,
which stays so because entries only grow.

Of the selection of context (`ContextAssumption`: requests are typed, and no id
occurs in one twice, which `select` refuses), about `SelectSpec` of `ContextEngine`:
`SelectionIsJustifiedHolds`, for candidates, texts, hierarchies, keys, budgets and
limits of any number and size. The passes of `select` are folds, and the library
defines a fold by a recursive function over sets of places. `FoldExists` shows
that such a function exists, `FoldRun` that it is the end of a run of single steps; what
every step keeps, the whole pass keeps. Then, pass by pass:

* `ChunkTextFits`: no chunk is larger than asked for, oversized words included.
  `HierarchyFacts`: whoever is found in the hierarchy is one below its parent,
  so in a later phase (`UnitsFit`).
* `DeduplicatedFacts`: the best unit with every key is kept (`KeptAreBest`), and every
  duplicate lost against one that is.
* `OrderFacts`: `Before` is a strict total order of what was kept, with and without
  turns, hence its ranks are the places 1, 2, ... and each is taken once (`RankFacts`).
* `LoopFacts`: `LoopInv`, the invariant of the loop that takes units, says that every
  reason given so far is still true (`Stands`). Later choices cannot make one
  false: the budget only shrinks; full chunks stay full; once sources are
  full no new one gets in; and a parent that was missing stays missing,
  because its units come in an earlier phase and all had their turn.

**`DurabilityProofs`** (`MirrorAssumption`, `TablesAreBounded`, `JournalIsBounded`),
about `MCSpec` of `MCDurability`, in which a behaviour is one of the three places:

* The mirror: `MirrorInductive`, and from it `AnsweredIsDurableHolds`,
  `WritesKeepTheirOrderHolds` and `QueueProceedsHolds`. The tasks that write a
  record form a channel, those that carry events or restore another. `Follows` says
  that of two pending tasks of a channel the later one waits for the earlier one or
  for one of the channel between them; `Remembered` that `tails`, `lastEventTask` and
  `restoreTask` name the last task of their channel, which is what lets a new task
  join it. So a task whose dependencies are gone is the first of each of its
  channels. `Channel` compares the database with the mirror along a channel: the
  database is not ahead, and as long as nothing failed what it lacks is what the
  pending tasks still have to write. If no task could go on, only
  one would have a writer, a closed event batch that waits for a put; with a second
  writer the ready queue would be empty, so the next task after the batch waits for
  the batch, which no put does (`Waiting`), and then the put it waits for was queued
  before that task. That is `QueueProceeds`, for `Concurrency >= 2` only;
  `DurableMirrorSerial.cfg` shows that it fails with one writer, where the batch
  keeps the writer the put needs. As modelled, a restore replaces everything by an
  empty snapshot.
* The tables: `TablesInductive` and `ReplayIsExactHolds`, under the hypothesis that there
  is one writer of events (all members of `Sessions` are equal), as the mirror's
  chain of event tasks is; two transactions that commit in the other order than
  they drew their numbers would let replay pass over an event. `SoundView` says of
  a tenant's view, the live one and the one in each backup alike, that nothing beyond
  the cursor is confirmed and, unless it was `rewound`, everything up to it is;
  `Ahead` that the numbers of an open transaction and the sequence are above what
  is committed; `Batches` that a batch under way is what follows the cursor without a
  gap, and the only one of its tenant. Trying to prove this found a hole in an
  earlier form of the model: with two restores, a backup taken after a foreign
  restore brings a skipped event back (TLC shows it with `MaxRestores = 2`), hence
  the mark a backup carries.
* The journal: `JournalInductive` and `JournalKeepsEntriesHolds`. `Unfailed` says
  that the lines count from one, hold what was acknowledged and cover the
  checkpoint on disk, and that the memory of a running process is what `load` would
  build (`IndexOf(file)`); it is what a failed write under a living process breaks.
  `Indexed` survives failures too: every event of the file is in the index, so no
  event is appended twice. The paged reads are recursive functions: `ReadEntriesAre` and
  `ReadPagesAre` show by induction over the lines, and down from the last cursor
  over the pages, that a reader gets exactly the lines behind its cursor, whatever
  the size of a page.

**`ReferenceProofs`** (`ReferenceAssumption`, `StoresAreBounded`), about `MCSpec` of
`MCReference`, in which a behaviour is one of the stores or the reference machine:

* The stores: `StoresInductive`, and from it `LimitsHoldAlways` and
  `AbsenceIsRecentHolds`. `StoresInv` says that the counter of a tenant counts its
  entries, that the limits hold and that an entry carries the era of its resource.
  The limits need the counters: eviction is decided by them, and a counter off its
  entries would stop it early or let it look for an entry that is not there.
  `Only`, what stays of a map, is a recursive function; `OnlyFacts` shows that it
  keeps the chosen entries in their order, `OnlySplit` that what is kept and what
  is dropped count to what there was.
* The machine: `ReferenceInductive` and `StatusesAreExactHolds`. The code recomputes
  the dependents of a change and keeps the other statuses; the property compares
  every status with the worst over the whole closure. `Settled` of `RefInv` lies in between: each
  status is the worst of the memory's own and its direct dependencies', and the
  graph has no cycle (of any memories, one depends on none of the others).
  `SolutionExists` shows that the recursion of `recomputeSet` has a solution,
  `RecomputeSettles` that recomputing a set closed under dependents settles it,
  `MarkedSettles` that this is so for a signal that does not propagate `STALE` a
  second time, `RewireSettles` for new dependencies, and `LocalIsExact` that what is
  settled and acyclic is exact. The count of memories with a TTL is part of the
  invariant, since without one the code skips its search for expired ones.
* Its journal: `ReplayInductive` and `ReplayAgreesHolds`. While `journalled`, no memory has a
  TTL, the replayed dependencies are the graph, and the replayed own status
  of a memory is its status. `MarkedChanges` says what a change of own
  statuses does above them. It settles the case where `validate` cannot write
  an event because it would be malformed: then no status had
  changed, so the events lost with it are not missed.

Out of the prover's reach and left to TLC: the liveness property
(`EveryCallSettles`) and anything about `ENABLED` (`QueueProceeds` states its
safety half); and everything about `FrontierEngine`, whose walk over a growing queue is a
`RECURSIVE` operator.

Model-checked only, therefore: `AnswersAreExact` and `EveryCallSettles`. Every
other property of a run that passes is stated by a theorem.

## 5. Not modelled

Contents, digests, formats and wording; event keys that collide within a
millisecond; `restore` of an older store under living streams; loss of power for
the journal (it never syncs; the audit sink does and is modelled with it);
cryptography; ranking by floating-point scores; subsumption of receipts and
predicate dependencies, pure decisions over one observation; the SQLite stores,
which run the PostgreSQL contract over one synchronous connection; read-only HTTP
routes, adapters and MCP; validators, which are the environment here; benchmarks,
applications and scripts. `PROJECT.json` gives the reason for each component.

## 6. Plan

What is left: the store's event keys (`replace` back to an earlier digest, two
revalidations in one millisecond) and the receipts' subsumption, as pure operators.
