------------------------- MODULE ReferenceProtocol -------------------------
(***************************************************************************)
(* The reference state machine (packages/reference-ts/src): MemoryStateStore *)
(* keeps the status of every memory up to date along the dependency graph, *)
(* DependencyGraph keeps that graph acyclic, ReferenceProtocol journals    *)
(* what it does, and replayEvents rebuilds statuses from the journal.      *)
(*                                                                         *)
(* The journal is kept as what replayEvents makes of it so far: replay is  *)
(* a fold over the events, and nothing else reads them.  validate awaits   *)
(* its validators and then applies all results without awaiting: `todo` is *)
(* what remains of that loop, and nobody else moves until it is empty.     *)
(***************************************************************************)
EXTENDS Naturals, FiniteSets, Sequences, SequencesExt

CONSTANTS Memories, Sources,
          Envelopes,   \* what callers hand in: [status, expires, sources]
          MaxTime      \* bound on the clock, and on the times memories expire


Never == MaxTime + 1                    \* the expiry under another policy than TTL
Statuses == {"FRESH", "STALE", "UNKNOWN", "INVALID"}
Results  == {"UNCHANGED", "CHANGED", "MISSING", "UNKNOWN"}

ASSUME ReferenceAssumption ==
  /\ IsFiniteSet(Memories) /\ MaxTime \in Nat
  /\ Envelopes \subseteq [status : Statuses, expires : 1 .. Never, sources : SUBSET Sources]

VARIABLES records,     \* memory -> [base, status, expires, expired, sources]
          graph,       \* memory -> memories it depends on
          ttlRecords,  \* ttlRecordCount
          now,
          replayed,    \* memory -> [direct, dependsOn] of replayEvents(journal)
          journalled,  \* history: every change so far is one the journal can tell
          todo,        \* results still to be applied by validate
          answer       \* what the last check said: memory -> status

vars == <<records, graph, ttlRecords, now, replayed, journalled, todo, answer>>

NoRecord == [base |-> "none", status |-> "none", expires |-> Never, expired |-> FALSE, sources |-> {}]
NoMemory == [direct |-> "none", dependsOn |-> {}]
NoReplay == [m \in Memories |-> NoMemory]
NoAnswer == [m \in {} |-> "none"]
Known == {m \in Memories : records[m].base # "none"}

Init ==
  /\ records = [m \in Memories |-> NoRecord] /\ graph = [m \in Memories |-> {}]
  /\ ttlRecords = 0 /\ now = 0
  /\ replayed = NoReplay /\ journalled = TRUE
  /\ todo = <<>> /\ answer = NoAnswer
-----------------------------------------------------------------------------
(* aggregateDependencyStatuses: the worst wins.                            *)
Worst(statuses) ==
  CHOOSE s \in Statuses :
    /\ s = "FRESH" \/ s \in statuses
    /\ s # "INVALID" => "INVALID" \notin statuses
    /\ s \in {"FRESH", "STALE"} => "UNKNOWN" \notin statuses
    /\ s = "FRESH" => "STALE" \notin statuses

(* collectDependencies and collectDependents: breadth first along `deps`.  *)
Closure(deps, from) ==
  LET reach[n \in 0 .. Cardinality(Memories)] ==
        IF n = 0 THEN from ELSE reach[n - 1] \cup UNION {deps[m] : m \in reach[n - 1]}
  IN reach[Cardinality(Memories)]
Dependents(deps, roots) == Closure([m \in Memories |-> {d \in Memories : m \in deps[d]}], roots)

IsTtl(r) == r.base # "none" /\ r.expires # Never
Expired(r, t) == IsTtl(r) /\ t >= r.expires
Own(r) == IF r.expired /\ r.base = "FRESH" THEN "STALE" ELSE r.base

(* recomputeSet: each member after the members it depends on.  The clock   *)
(* is read for members that have a TTL.                                    *)
RecomputeSet(recs, deps, affected) ==
  LET flagged == [m \in Memories |-> IF m \in affected /\ IsTtl(recs[m])
                                     THEN [recs[m] EXCEPT !.expired = Expired(recs[m], now)]
                                     ELSE recs[m]]
      status[m \in Memories] ==
        IF m \in affected THEN Worst({Own(flagged[m])} \cup {status[d] : d \in deps[m]})
        ELSE recs[m].status
  IN [m \in Memories |-> [flagged[m] EXCEPT !.status = status[m]]]

(* markStatusesWithPrevious: INVALID stays until the memory is replaced,   *)
(* and what is STALE already is not propagated again.                      *)
Marked(roots, s) ==
  LET effective == [m \in roots |-> IF records[m].base = "INVALID" THEN "INVALID" ELSE s]
      based     == [m \in Memories |-> IF m \in roots THEN [records[m] EXCEPT !.base = effective[m]]
                                       ELSE records[m]]
      affected  == Dependents(graph, roots)
      already   == \A m \in roots : effective[m] = "STALE" /\ records[m].status = "STALE"
  IN IF already /\ \A m \in affected : ~IsTtl(records[m]) THEN based
     ELSE RecomputeSet(based, graph, affected)
-----------------------------------------------------------------------------
(* replayEvents: the statuses the journal stands for.                      *)
ReplayStatus(m) == Worst({replayed[x].direct : x \in Closure([y \in Memories |-> replayed[y].dependsOn], {m})})
StatusForResult(result) ==
  CASE result = "UNCHANGED" -> "FRESH" [] result \in {"CHANGED", "MISSING"} -> "INVALID"
    [] OTHER -> "UNKNOWN"

(* appendTransition: which event a change gives, whether parsePremiseEvent *)
(* lets it through, and what the replay of that event does.                *)
Emits(old, new, reason) == old # new \/ reason = "UNCHANGED"
WellFormed(new, reason) ==
  new \in {"INVALID", "STALE"} \/ new = IF reason = "UNCHANGED" THEN "FRESH" ELSE "UNKNOWN"
AfterTransition(direct, new) ==
  IF direct = "INVALID" THEN "INVALID" ELSE new

(* The events of a batch of changes; one that is malformed throws and      *)
(* leaves an unknown part of the others out.  `told` are those to journal. *)
Journals(old, new, told, reason) ==
  LET emitting == {m \in told : Emits(old[m].status, new[m].status, reason)}
      refused  == {m \in emitting : ~WellFormed(new[m].status, reason)}
  IN \E appended \in SUBSET (emitting \ refused) :
       /\ refused = {} => appended = emitting
       /\ replayed' = [m \in Memories |->
            IF journalled /\ m \in appended
            THEN [replayed[m] EXCEPT !.direct = AfterTransition(@, new[m].status)]
            ELSE replayed[m]]
       /\ todo' = IF todo = <<>> \/ refused # {} THEN <<>> ELSE Tail(todo)
-----------------------------------------------------------------------------
Record(e) == [base |-> e.status, status |-> e.status, expires |-> e.expires,
              expired |-> FALSE, sources |-> e.sources]

(* Some things the journal cannot tell: that a memory expires, what it was *)
(* derived or replaced as.  From then on the replay is not followed.       *)
Follows(told, replay) ==
  /\ journalled' = (journalled /\ told)
  /\ replayed' = IF journalled' THEN replay ELSE NoReplay

Register(m, e) ==
  /\ todo = <<>> /\ m \notin Known
  /\ records' = [records EXCEPT ![m] = Record(e)]
  /\ ttlRecords' = ttlRecords + (IF e.expires # Never THEN 1 ELSE 0)
  /\ Follows(e.expires = Never, [replayed EXCEPT ![m] = [direct |-> e.status, dependsOn |-> {}]])
  /\ answer' = NoAnswer
  /\ UNCHANGED <<graph, now, todo>>

(* derive: only the new memory is computed, nothing depends on it yet.     *)
Derive(m, e, deps) ==
  /\ todo = <<>> /\ m \notin Known /\ deps # {} /\ deps \subseteq Known
  /\ graph' = [graph EXCEPT ![m] = deps]
  /\ records' = RecomputeSet([records EXCEPT ![m] = Record(e)], graph', {m})
  /\ ttlRecords' = ttlRecords + (IF e.expires # Never THEN 1 ELSE 0)
  /\ Follows(e.expires = Never /\ records'[m].status = "FRESH",
             [replayed EXCEPT ![m] = [direct |-> "FRESH", dependsOn |-> deps]])
  /\ answer' = NoAnswer
  /\ UNCHANGED <<now, todo>>

(* ttlRecordCount over a replacement.                                      *)
CountAfterReplace(m, e) ==
  CASE IsTtl(records[m]) /\ e.expires = Never -> ttlRecords - 1
    [] ~IsTtl(records[m]) /\ e.expires # Never -> ttlRecords + 1
    [] OTHER -> ttlRecords

(* replace: setDependencies refuses a cycle before it changes anything.    *)
Replace(m, e, deps) ==
  /\ todo = <<>> /\ m \in Known /\ deps \subseteq Known
  /\ m \notin Closure(graph, deps)
  /\ graph' = [graph EXCEPT ![m] = deps]
  /\ records' = RecomputeSet([records EXCEPT ![m] = Record(e)], graph', Dependents(graph', {m}))
  /\ ttlRecords' = CountAfterReplace(m, e)
  /\ Follows(FALSE, [replayed EXCEPT ![m].direct = "FRESH"]) /\ answer' = NoAnswer
  /\ UNCHANGED <<now, todo>>

(* signal: every memory that names the source, and all that depend on it.  *)
Signal(s) ==
  /\ todo = <<>>
  /\ LET roots == {m \in Known : s \in records[m].sources}
     IN /\ records' = Marked(roots, "STALE")
        /\ Journals(records, records', Dependents(graph, roots), "signal")
  /\ answer' = NoAnswer
  /\ UNCHANGED <<graph, ttlRecords, now, journalled>>

(* validate, from the last await on.  The order was computed before the    *)
(* awaits, on a graph that may have changed since: any order.              *)
Validate(order) ==
  /\ todo = <<>> /\ order # <<>> /\ ToSet(order) \subseteq Known
  /\ todo' = order /\ answer' = NoAnswer
  /\ UNCHANGED <<records, graph, ttlRecords, now, replayed, journalled>>

ItselfOnly(m, new) == {m}               \* mutant: its dependents are not journalled
Told(m, new) == {m} \cup {x \in Dependents(graph, {m}) : records[x].status # new[x].status}

ApplyResult(result) ==
  /\ todo # <<>>
  /\ LET m == Head(todo)
     IN /\ records' = Marked({m}, StatusForResult(result))
        /\ Journals(records, records', Told(m, records'), result)
  /\ UNCHANGED <<graph, ttlRecords, now, journalled, answer>>

(* check: expiry is looked at for everything the answer rests on.          *)
AskedOnly(ids) == ids                        \* mutant: not for what they depend on
CheckedClosure(ids) == Closure(graph, ids)

Check(ids) ==
  /\ todo = <<>> /\ ids # {} /\ ids \subseteq Known
  /\ LET changed == {m \in CheckedClosure(ids) :
                       IsTtl(records[m]) /\ records[m].expired # Expired(records[m], now)}
     IN records' = IF ttlRecords = 0 \/ changed = {} THEN records
                   ELSE RecomputeSet(records, graph, Dependents(graph, changed))
  /\ answer' = [m \in ids |-> records'[m].status]
  /\ UNCHANGED <<graph, ttlRecords, now, replayed, journalled, todo>>

Tick ==
  /\ todo = <<>> /\ now < MaxTime /\ now' = now + 1 /\ answer' = NoAnswer
  /\ UNCHANGED <<records, graph, ttlRecords, replayed, journalled, todo>>

Next ==
  \/ \E m \in Memories, e \in Envelopes :
       Register(m, e) \/ \E deps \in SUBSET Memories : Derive(m, e, deps) \/ Replace(m, e, deps)
  \/ \E s \in Sources : Signal(s)
  \/ \E order \in {<<m>> : m \in Memories} \cup (Memories \X Memories) : Validate(order)
  \/ \E result \in Results : ApplyResult(result)
  \/ \E ids \in SUBSET Memories : Check(ids)
  \/ Tick

Spec == Init /\ [][Next]_vars
-----------------------------------------------------------------------------
(* The statuses kept along the graph are those of a computation from       *)
(* scratch over everything a memory depends on, and what check answers is  *)
(* that computation at the time of the call, whoever expired unnoticed.    *)
OwnAt(r, t) == IF Expired(r, t) /\ r.base = "FRESH" THEN "STALE" ELSE r.base
StatusesAreExact ==
  /\ \A m \in Known : records[m].status = Worst({Own(records[x]) : x \in Closure(graph, {m})})
  /\ \A m \in DOMAIN answer : answer[m] = Worst({OwnAt(records[x], now) : x \in Closure(graph, {m})})

(* As long as nothing was replaced, nothing expires and memories are       *)
(* derived fresh, replaying the journal gives the statuses of the store,   *)
(* also when a validate fails half-way through its results.                *)
ReplayAgrees ==
  journalled => \A m \in Known : ReplayStatus(m) = records[m].status
=============================================================================
