-------------------------- MODULE StreamContinuity --------------------------
(***************************************************************************)
(* The ordered event streams of PremiseRuntime: applyStreamEvent,          *)
(* repairStreamFromSnapshot and applyStreamBurst                           *)
(* (packages/runtime-core/src/index.ts, stream-burst.ts) over the event    *)
(* store of InMemoryRuntimeStore with its compaction.                      *)
(*                                                                         *)
(* One tenant and one stream.  Connectors deliver events twice, late, not  *)
(* at all or with other content; the store may fail in the middle of a     *)
(* repair; a restart loses the stream state and keeps the store.  Each     *)
(* operation is synchronous, hence one step.                               *)
(***************************************************************************)
EXTENDS Naturals, Sequences

CONSTANTS Events,           \* the stream events connectors deliver
          Pages,            \* the pages they offer for a repair
          Bursts,           \* the bursts they deliver
          Capabilities,     \* the sets of capabilities they declare
          MaxCompactions    \* bound on compactions

Bodies == {e.body : e \in Events}
Keys == {e.key : e \in Events}
Sequences0 == {e.seq : e \in Events} \cup {e.seq + 1 : e \in Events} \cup {0}

ASSUME StreamAssumption ==
  /\ \A e \in Events : /\ e.seq \in Nat /\ e.kind \in {"SNAPSHOT", "DELTA"}
                       /\ e.body \notin {"absent", "released"}
  /\ Pages \subseteq Seq(Events) /\ Bursts \subseteq Seq(Events)
  /\ \A caps \in Capabilities :
       caps \subseteq {"ORDERED_EVENTS", "AUTHORITATIVE_SNAPSHOT", "DELTA_EVENTS"}
  /\ MaxCompactions \in Nat

VARIABLES stream,       \* the entry of streamStates
          store,        \* idempotency key -> the stored event's content
          persisted,    \* history: what was ever stored under a key
          compactions   \* number of compactions so far

vars == <<stream, store, persisted, compactions>>

(* seen holds the events themselves: fingerprints tell them apart. *)
NoStream == [nextSequence |-> 0, seen |-> {}, hasSnapshot |-> FALSE]

TypeOK ==
  /\ stream.nextSequence \in Sequences0
  /\ stream.seen \subseteq Events
  /\ stream.hasSnapshot \in BOOLEAN
  /\ store \in [Keys -> Bodies \cup {"absent", "released"}]
  /\ persisted \in [Keys -> Bodies \cup {"absent"}]
  /\ compactions \in 0 .. MaxCompactions

Init ==
  /\ stream = NoStream
  /\ store = [k \in Keys |-> "absent"]
  /\ persisted = [k \in Keys |-> "absent"]
  /\ compactions = 0
-----------------------------------------------------------------------------
(* A state of the runtime as the operations below pass it on: the stream,  *)
(* the store and the result of the last event.                             *)
State(str, st, result) == [stream |-> str, store |-> st, result |-> result]

Current == State(stream, store, "NONE")

FencedAt(n) == [nextSequence |-> n, seen |-> {}, hasSnapshot |-> FALSE]

(* streamRepairRequired: distrust the stream from this event on. *)
RepairRequired(s, e, reason) == State(FencedAt(e.seq), s.store, reason)

Breaks == {"CONFLICT", "REORDERED", "GAP", "DELTA_BEFORE_SNAPSHOT"}

Advanced(s, e) ==
  [nextSequence |-> e.seq + 1, seen |-> s.stream.seen \cup {e},
   hasSnapshot |-> s.stream.hasSnapshot \/ e.kind = "SNAPSHOT"]

RejectsReplay(s, e) == s.store[e.key] = "absent"        \* mutant: no exact replay

(* applyEvent stores an event under a new key; for a known key the stored  *)
(* event must be the same.  A compacted event keeps its key and loses its  *)
(* payload (bodies stand for payloads other than the empty one).           *)
StoreAgrees(s, e) == s.store[e.key] \in {"absent", e.body}

IgnoresGap(s, e) == e.seq < s.stream.nextSequence       \* mutant: gaps are accepted
OutOfOrder(s, e) == e.seq # s.stream.nextSequence

(* applyStreamEvent. *)
Applied(s, e) ==
  CASE e \in s.stream.seen -> [s EXCEPT !.result = "DUPLICATE"]
    [] e \notin s.stream.seen /\ \E p \in s.stream.seen : p.seq = e.seq
         -> RepairRequired(s, e, "CONFLICT")
    [] (\A p \in s.stream.seen : p.seq # e.seq) /\ OutOfOrder(s, e)
         -> RepairRequired(s, e, IF e.seq < s.stream.nextSequence
                                 THEN "REORDERED" ELSE "GAP")
    [] OTHER ->
         IF ~s.stream.hasSnapshot /\ e.kind # "SNAPSHOT"
         THEN RepairRequired(s, e, "DELTA_BEFORE_SNAPSHOT")
         ELSE IF ~StoreAgrees(s, e) THEN RepairRequired(s, e, "CONFLICT")
         ELSE State(Advanced(s, e), [s.store EXCEPT ![e.key] =
                      IF @ = "absent" THEN e.body ELSE @],
                    IF s.store[e.key] = "absent" THEN "APPLIED" ELSE "DUPLICATE")

(* Events one after the other, up to the first that needs a repair. *)
AppliedAll(s, events) ==
  LET run[i \in 0 .. Len(events)] ==
        IF i = 0 THEN [s EXCEPT !.result = "APPLIED"]
        ELSE IF run[i - 1].result \in Breaks THEN run[i - 1]
        ELSE Applied(run[i - 1], events[i])
  IN run[Len(events)]

(* repairStreamFromSnapshot: a page that is a contiguous run from a        *)
(* SNAPSHOT to the head replaces the stream state.  A page that fails, or  *)
(* a store that fails after n events, leaves the stream fenced at the      *)
(* page's start; what was stored stays.                                    *)
Contiguous(events) ==
  \A i \in 2 .. Len(events) : events[i].seq = events[i - 1].seq + 1

ValidPage(page) ==
  page # <<>> /\ page[1].kind = "SNAPSHOT" /\ Contiguous(page)

Repaired(s, page) ==
  LET done == AppliedAll([s EXCEPT !.stream = FencedAt(page[1].seq)], page)
  IN IF done.result \in Breaks
     THEN State(FencedAt(page[1].seq), done.store, "FAILED")
     ELSE [done EXCEPT !.result = "REPAIRED"]

RepairFails(s, page, n) ==
  State(FencedAt(page[1].seq),
        AppliedAll([s EXCEPT !.stream = FencedAt(page[1].seq)],
                   SubSeq(page, 1, n)).store, "FAILED")

(* planRuntimeStreamBurst: the part of a burst from its last snapshot on,  *)
(* when everything before it may be skipped; otherwise nothing.            *)
LastSnapshot(events) ==
  LET snapshots == {i \in 1 .. Len(events) : events[i].kind = "SNAPSHOT"}
  IN IF snapshots = {} THEN 0
     ELSE CHOOSE i \in snapshots : \A j \in snapshots : j <= i

Coalesces(events, caps) ==
  /\ Contiguous(events)
  /\ {"ORDERED_EVENTS", "AUTHORITATIVE_SNAPSHOT"} \subseteq caps
  /\ LastSnapshot(events) > 1
  /\ "DELTA_EVENTS" \in caps \/ LastSnapshot(events) = Len(events)

SnapshotOnly(events) ==              \* mutant: deltas after the snapshot are lost
  SubSeq(events, LastSnapshot(events), LastSnapshot(events))

Suffix(events) == SubSeq(events, LastSnapshot(events), Len(events))

Burst(s, events, caps) ==
  IF Coalesces(events, caps) THEN Repaired(s, Suffix(events)) ELSE AppliedAll(s, events)
-----------------------------------------------------------------------------
Becomes(s) ==
  /\ stream' = s.stream
  /\ store' = s.store
  /\ persisted' = [k \in Keys |->
       IF persisted[k] = "absent" /\ s.store[k] # "released" THEN s.store[k]
       ELSE persisted[k]]
  /\ UNCHANGED compactions

ApplyStreamEvent(e) == Becomes(Applied(Current, e))

RepairStreamFromSnapshot(page) ==
  /\ ValidPage(page)
  /\ \/ Becomes(Repaired(Current, page))
     \/ \E n \in 0 .. (Len(page) - 1) : Becomes(RepairFails(Current, page, n))

(* A store that fails after n events leaves a coalesced burst fenced and   *)
(* any other one where it is.                                              *)
ApplyStreamBurst(events, caps) ==
  \/ Becomes(Burst(Current, events, caps))
  \/ \E n \in 0 .. (Len(events) - 1) :
       IF Coalesces(events, caps)
       THEN n < Len(Suffix(events)) /\ Becomes(RepairFails(Current, Suffix(events), n))
       ELSE Becomes(AppliedAll(Current, SubSeq(events, 1, n)))

(* The process restarts on the same store. *)
Restart == stream' = NoStream /\ UNCHANGED <<store, persisted, compactions>>

(* compactOperational with a checkpoint that covers the events under K     *)
(* (any of them, of which a checkpoint covers the first ones): their keys  *)
(* stay, the events go.                                                    *)
CompactOperational(K) ==
  /\ compactions < MaxCompactions
  /\ compactions' = compactions + 1
  /\ store' = [k \in Keys |-> IF k \in K /\ store[k] # "absent" THEN "released"
                              ELSE store[k]]
  /\ UNCHANGED <<stream, persisted>>

Next ==
  \/ \E e \in Events : ApplyStreamEvent(e)
  \/ \E page \in Pages : RepairStreamFromSnapshot(page)
  \/ \E events \in Bursts, caps \in Capabilities : ApplyStreamBurst(events, caps)
  \/ Restart
  \/ \E K \in SUBSET Keys : CompactOperational(K)

Spec == Init /\ [][Next]_vars
-----------------------------------------------------------------------------
(* A trusted stream has no holes: what it has seen runs from a snapshot to *)
(* the event before nextSequence without a gap or a second opinion, and    *)
(* every event of it was stored with that content.  A stream that is not   *)
(* trusted has seen nothing (applyStreamEvent, streamRepairRequired).      *)
TrustedStreamHasNoHoles ==
  IF ~stream.hasSnapshot THEN stream.seen = {}
  ELSE \E first \in stream.seen :
         /\ first.kind = "SNAPSHOT"
         /\ \A n \in first.seq .. (stream.nextSequence - 1) :
              \E e \in stream.seen : e.seq = n
         /\ \A e \in stream.seen :
              /\ e.seq \in first.seq .. (stream.nextSequence - 1)
              /\ persisted[e.key] = e.body
              /\ \A p \in stream.seen : p.seq = e.seq => p = e

(* A burst that continues the stream ends at the same sequence whether its *)
(* prefix is skipped or applied, and the stream is trusted either way      *)
(* (planRuntimeStreamBurst).                                               *)
CoalescingIsTransparent ==
  \A events \in Bursts, caps \in Capabilities :
    LET inOrder == AppliedAll(Current, events)
        burst   == Burst(Current, events, caps)
    IN events # <<>> /\ events[1].seq = stream.nextSequence /\ inOrder.result \notin Breaks
         => /\ burst.result \notin Breaks \cup {"FAILED"}
            /\ burst.stream.nextSequence = inOrder.stream.nextSequence
            /\ burst.stream.hasSnapshot

(* A repair page of events that were stored exactly so before is accepted  *)
(* as a replay, after a restart, a conflict or a repair that failed half   *)
(* way through, as long as the store still has the events: the stream can  *)
(* always be repaired from its own history (repairStreamFromSnapshot).     *)
Replayable(page) ==
  ValidPage(page) /\ \A i \in 1 .. Len(page) : persisted[page[i].key] = page[i].body

PersistedPageRepairs ==
  \A page \in Pages :
    Replayable(page) /\ (\A i \in 1 .. Len(page) : store[page[i].key] # "released")
      => Repaired(Current, page).result = "REPAIRED"

(* The same of every page of events that were ever stored exactly so, the  *)
(* compacted ones included: exact persisted replays are duplicates.        *)
ExactReplaysRepair ==
  \A page \in Pages : Replayable(page) => Repaired(Current, page).result = "REPAIRED"
=============================================================================
