-------------------------- MODULE KnowledgeStores --------------------------
(***************************************************************************)
(* The bounded in-process stores of what was once observed                 *)
(* (packages/runtime-core/src): RuntimeReceiptCache and RuntimeNegativeCache *)
(* (receipt-cache.ts) and NegativePremiseStore (negative-premises.ts).     *)
(* Each is a Map in insertion order with a limit, the last two with a      *)
(* limit and a counter per tenant.                                         *)
(*                                                                         *)
(* Resources appear and disappear; whoever saw one absent may be late in   *)
(* saying so.  What a check is told of the source is what holds then.      *)
(***************************************************************************)
EXTENDS Integers, FiniteSets, Sequences, SequencesExt

CONSTANTS Tenants, Resources,
          MaxEntries, MaxEntriesPerTenant,
          MaxIncarnation,     \* bound on appearances of a resource
          MaxTime             \* bound on the clock

StoresAssumption ==
  /\ MaxEntries \in Nat /\ MaxEntriesPerTenant \in Nat
  /\ MaxIncarnation \in Nat /\ MaxTime \in Nat

VARIABLES kind,          \* "receipts", "negative" or "absences"
          entries,       \* in insertion order: [key, observedAt, expiresAt, era]
          tenantCounts,  \* tenant -> entries of the tenant, as counted
          present, incarnation,   \* the source: [tenant, resource] -> ...
          era,           \* history: [tenant, resource] -> invalidations so far
          time,
          lookup         \* what the last lookup was about and said

vars == <<kind, entries, tenantCounts, present, incarnation, era, time, lookup>>

Things == [tenant : Tenants, resource : Resources]
Thing(key) == [tenant |-> key.tenant, resource |-> key.resource]

(* premiseValidationScopeKey and negativePremiseKey: scopes that normalise *)
(* to the same fields share a key; the fields that tell resources and      *)
(* their versions apart are kept here.                                     *)
Keys == [tenant : Tenants, resource : Resources, incarnation : 0 .. MaxIncarnation]
NoLookup == [key |-> "none", status |-> "none"]

Init ==
  /\ kind \in {"receipts", "negative", "absences"}
  /\ entries = <<>> /\ tenantCounts = [t \in Tenants |-> 0]
  /\ present = [x \in Things |-> FALSE] /\ incarnation = [x \in Things |-> 0]
  /\ era = [x \in Things |-> 0] /\ time = 0 /\ lookup = NoLookup
-----------------------------------------------------------------------------
(* What stays of a map when only the entries in S stay.                    *)
Only(seq, S) ==
  LET kept[n \in 0 .. Len(seq)] ==
        IF n = 0 THEN <<>>
        ELSE IF seq[n] \in S THEN Append(kept[n - 1], seq[n]) ELSE kept[n - 1]
  IN kept[Len(seq)]
Without(seq, dropped) == Only(seq, ToSet(seq) \ dropped)
Of(seq, key) == {e \in ToSet(seq) : e.key = key}
CountOf(seq, t) == Cardinality({i \in 1 .. Len(seq) : seq[i].key.tenant = t})

(* delete / remove: the counter of the tenant goes with the entry.         *)
Uncounted(counts, dropped) == counts         \* mutant: the counters stay
Discounted(counts, dropped) ==
  [t \in Tenants |-> counts[t] - CountOf(dropped, t)]

(* enforceBounds: the oldest of all first, then the oldest of the tenant,  *)
(* until the counters are within the limits.  The receipt cache has no     *)
(* limit per tenant.                                                       *)
EvictOldest(seq, t) ==
  LET oldest == CHOOSE i \in 1 .. Len(seq) :
                  /\ seq[i].key.tenant = t
                  /\ \A j \in 1 .. i - 1 : seq[j].key.tenant # t
  IN RemoveAt(seq, oldest)

Bounded(seq, counts, t) ==
  LET overall  == IF Len(seq) > MaxEntries THEN Tail(seq) ELSE seq
      counted  == Discounted(counts, SubSeq(seq, 1, Len(seq) - Len(overall)))
      tooMany  == kind # "receipts" /\ counted[t] > MaxEntriesPerTenant /\ CountOf(overall, t) > 0
      own      == IF tooMany THEN EvictOldest(overall, t) ELSE overall
  IN /\ entries' = own
     /\ tenantCounts' = IF tooMany THEN [counted EXCEPT ![t] = @ - 1] ELSE counted

Put(key, observedAt, expiresAt) ==
  LET old  == Only(entries, Of(entries, key))
      kept == Without(entries, Of(entries, key))
      new  == [key |-> key, observedAt |-> observedAt, expiresAt |-> expiresAt,
               era |-> era[Thing(key)]]
  IN /\ observedAt < expiresAt
     /\ key.incarnation <= incarnation[Thing(key)]
     /\ Bounded(Append(kept, new),
                [Discounted(tenantCounts, old) EXCEPT ![key.tenant] = @ + 1], key.tenant)
     /\ lookup' = NoLookup
     /\ UNCHANGED <<kind, present, incarnation, era, time>>

(* Drops the entries and answers the lookup.                               *)
Answers(key, status) == lookup' = [key |-> key, status |-> status]
Drops(dropped) ==
  /\ entries' = Without(entries, dropped)
  /\ tenantCounts' = Discounted(tenantCounts, Only(entries, dropped))

(* get of the caches and check of the absences, up to the observation.     *)
Misses(key) ==
  /\ Of(entries, key) = {} /\ Answers(key, "NOT_FOUND")
  /\ UNCHANGED <<entries, tenantCounts>>
Expires(key) ==
  /\ \E e \in Of(entries, key) : time >= e.expiresAt
  /\ Drops(Of(entries, key)) /\ Answers(key, "EXPIRED")
Live(key) == {e \in Of(entries, key) : time < e.expiresAt}

Get(key) ==
  /\ kind # "absences"
  /\ \/ Misses(key) \/ Expires(key)
     \/ Live(key) # {} /\ Answers(key, "HIT") /\ UNCHANGED <<entries, tenantCounts>>
  /\ UNCHANGED <<kind, present, incarnation, era, time>>

(* check: the caller says some of what it sees: the incarnation, the       *)
(* frontier (which is the same whenever the resource is absent), whether   *)
(* the entity is there.                                                    *)
Contradicted(key, told) ==
  LET x == Thing(key)
  IN \/ "incarnationId" \in told /\ key.incarnation # incarnation[x]
     \/ told \cap {"frontierDigest", "entityPresent"} # {} /\ present[x]

CheckAbsent(key, told) ==
  /\ kind = "absences" /\ told # {}
  /\ \/ Misses(key)
     \/ /\ \E e \in Of(entries, key) : time < e.observedAt
        /\ Answers(key, "INVALID_SCOPE") /\ UNCHANGED <<entries, tenantCounts>>
     \/ ~(\E e \in Of(entries, key) : time < e.observedAt) /\ Expires(key)
     \/ /\ \E e \in Live(key) : time >= e.observedAt
        /\ Answers(key, IF Contradicted(key, told) THEN "STALE" ELSE "HIT")
        /\ UNCHANGED <<entries, tenantCounts>>
  /\ UNCHANGED <<kind, present, incarnation, era, time>>

Reported == {"incarnationId", "frontierDigest", "entityPresent"}

(* invalidate of a receipt; invalidateOnAppearance of every absence of a   *)
(* resource, whatever incarnation it was observed in.                      *)
SameIncarnation(e, x) ==           \* mutant: only absences of the new incarnation
  Thing(e.key) = x /\ e.key.incarnation = incarnation[x]
OfResource(e, x) == Thing(e.key) = x

Invalidate(key) ==
  /\ kind = "receipts" /\ Drops(Of(entries, key)) /\ lookup' = NoLookup
  /\ UNCHANGED <<kind, present, incarnation, era, time>>

InvalidateOnAppearance(x) ==
  /\ kind = "absences" /\ present[x]
  /\ Drops({e \in ToSet(entries) : OfResource(e, x)})
  /\ era' = [era EXCEPT ![x] = incarnation[x]] /\ lookup' = NoLookup
  /\ UNCHANGED <<kind, present, incarnation, time>>

Clear ==
  /\ entries # <<>> /\ entries' = <<>> /\ tenantCounts' = [t \in Tenants |-> 0]
  /\ lookup' = NoLookup /\ UNCHANGED <<kind, present, incarnation, era, time>>

(* The source: a resource that appears has a new incarnation.              *)
Appears(x) ==
  /\ kind = "absences" /\ ~present[x] /\ incarnation[x] < MaxIncarnation
  /\ present' = [present EXCEPT ![x] = TRUE]
  /\ incarnation' = [incarnation EXCEPT ![x] = @ + 1] /\ lookup' = NoLookup
  /\ UNCHANGED <<kind, entries, tenantCounts, era, time>>
Disappears(x) ==
  /\ present[x] /\ present' = [present EXCEPT ![x] = FALSE] /\ lookup' = NoLookup
  /\ UNCHANGED <<kind, entries, tenantCounts, incarnation, era, time>>

Tick ==
  /\ time < MaxTime /\ time' = time + 1 /\ lookup' = NoLookup
  /\ UNCHANGED <<kind, entries, tenantCounts, present, incarnation, era>>

Next ==
  \/ \E key \in Keys :
       \/ \E observedAt \in 0 .. MaxTime, expiresAt \in 1 .. MaxTime : Put(key, observedAt, expiresAt)
       \/ Get(key) \/ Invalidate(key)
       \/ \E told \in SUBSET Reported : CheckAbsent(key, told)
  \/ \E x \in Things : InvalidateOnAppearance(x) \/ Appears(x) \/ Disappears(x)
  \/ Clear \/ Tick

Spec == Init /\ [][Next]_vars
-----------------------------------------------------------------------------
(* The counters that decide about evictions count the entries, and no      *)
(* sequence of puts, expiries and invalidations takes a store over its     *)
(* limits, in all or for one tenant.                                       *)
LimitsHold ==
  /\ Len(entries) <= MaxEntries
  /\ \A t \in Tenants : /\ tenantCounts[t] = CountOf(entries, t)
                        /\ kind # "receipts" => tenantCounts[t] <= MaxEntriesPerTenant

(* Whoever is told to rely on an absence relies on one that was recorded   *)
(* after the last reported appearance of the resource and has not expired: *)
(* a resource that came and went again revives no older knowledge.         *)
AbsenceIsRecent ==
  lookup.status = "HIT" =>
    \E e \in Of(entries, lookup.key) :
      e.era = era[Thing(lookup.key)] /\ time < e.expiresAt
      /\ (kind = "absences" => time >= e.observedAt)
=============================================================================
