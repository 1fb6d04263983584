---------------------------- MODULE KeyResolver ----------------------------
(***************************************************************************)
(* ExternalKeyResolver (packages/security-core/src/external-key-provider.ts): *)
(* key material is fetched from an external provider, cached for a time,   *)
(* and fetches of one key are shared.  invalidate, clear and rotateKeyRing *)
(* may come while a fetch is under way; epochs tell the fetches that are   *)
(* still current from those that were overtaken.                           *)
(*                                                                         *)
(* Material is told apart by how often its key had been invalidated when   *)
(* its fetch began.  A flight that completes hands its material to all who *)
(* wait for it in the same turn.                                           *)
(***************************************************************************)
EXTENDS Naturals, FiniteSets

CONSTANTS Keys, Callers,
          Ttl,                 \* cacheTtlMs; 0 disables the cache
          MaxInvalidations,    \* bound on invalidations of a key
          MaxClock             \* bound on the clock

VARIABLES cache,         \* key -> [since, expiresAt], or NoMaterial
          inFlight,      \* key -> flight id to join, or 0
          flights,       \* fetches under way: [id, key, epoch, global, since]
          epochs, globalEpoch,
          invalidations, \* history: key -> how often it was invalidated
          rings,         \* caller -> [phase, asked, got, flight]
          clock, fetches

vars == <<cache, inFlight, flights, epochs, globalEpoch, invalidations, rings, clock, fetches>>

NoMaterial == [since |-> 0, expiresAt |-> 0]
None == MaxInvalidations + 1            \* no material yet
NoRing == [phase |-> "idle", asked |-> [k \in Keys |-> 0], got |-> [k \in Keys |-> None],
           flight |-> [k \in Keys |-> 0]]
MaxFetches == Cardinality(Keys) + 2     \* bound on fetches

Init ==
  /\ cache = [k \in Keys |-> NoMaterial] /\ inFlight = [k \in Keys |-> 0] /\ flights = {}
  /\ epochs = [k \in Keys |-> 0] /\ globalEpoch = 0 /\ invalidations = [k \in Keys |-> 0]
  /\ rings = [c \in Callers |-> NoRing] /\ clock = 0 /\ fetches = 0
-----------------------------------------------------------------------------
(* invalidate: the cached material and the flight to join are forgotten,   *)
(* the flight itself goes on.                                              *)
Invalidated(keys) ==
  /\ \A k \in keys : invalidations[k] < MaxInvalidations
  /\ cache' = [k \in Keys |-> IF k \in keys THEN NoMaterial ELSE cache[k]]
  /\ inFlight' = [k \in Keys |-> IF k \in keys THEN 0 ELSE inFlight[k]]
  /\ invalidations' = [k \in Keys |-> IF k \in keys THEN invalidations[k] + 1 ELSE invalidations[k]]

Invalidate(k) ==
  /\ Invalidated({k}) /\ epochs' = [epochs EXCEPT ![k] = @ + 1]
  /\ UNCHANGED <<flights, globalEpoch, rings, clock, fetches>>

Clear ==
  /\ Invalidated(Keys) /\ epochs' = [k \in Keys |-> 0] /\ globalEpoch' = globalEpoch + 1
  /\ UNCHANGED <<flights, rings, clock, fetches>>

(* resolve for every key at once: cached, joined, or fetched.              *)
Resolves(c, cached, joinable, epochOf, sinceOf) ==
  LET hit    == {k \in Keys : cached[k].expiresAt > clock}
      joined == {k \in Keys \ hit : joinable[k] # 0}
      asks   == Keys \ (hit \cup joined)
  IN /\ \E number \in [asks -> fetches + 1 .. fetches + Cardinality(asks)] :
          /\ \A x, y \in asks : number[x] = number[y] => x = y
          /\ flights' = flights \cup {[id |-> number[k], key |-> k, epoch |-> epochOf[k],
                                       global |-> globalEpoch, since |-> sinceOf[k]] : k \in asks}
          /\ inFlight' = [k \in Keys |-> IF k \in asks THEN number[k] ELSE joinable[k]]
          /\ rings' = [rings EXCEPT ![c] =
               [phase  |-> "waiting", asked |-> sinceOf,
                got    |-> [k \in Keys |-> IF k \in hit THEN cached[k].since ELSE None],
                flight |-> [k \in Keys |-> IF k \in hit THEN 0
                                           ELSE IF k \in joined THEN joinable[k] ELSE number[k]]]]
     /\ cache' = [k \in Keys |-> IF k \in hit THEN cached[k] ELSE NoMaterial]
     /\ fetches' = fetches + Cardinality(asks) /\ fetches' <= MaxFetches

CreateKeyRing(c) ==
  /\ rings[c].phase = "idle"
  /\ Resolves(c, cache, inFlight, epochs, invalidations)
  /\ UNCHANGED <<epochs, globalEpoch, invalidations, clock>>

(* rotateKeyRing: every key is invalidated, then resolved, in one turn.    *)
RotateKeyRing(c) ==
  /\ rings[c].phase = "idle" /\ \A k \in Keys : invalidations[k] < MaxInvalidations
  /\ epochs' = [k \in Keys |-> epochs[k] + 1]
  /\ invalidations' = [k \in Keys |-> invalidations[k] + 1]
  /\ Resolves(c, [k \in Keys |-> NoMaterial], [k \in Keys |-> 0], epochs', invalidations')
  /\ UNCHANGED <<globalEpoch, clock>>

(* A fetch ends.  Promise.all: a ring fails as soon as one of its keys     *)
(* does.                                                                   *)
AlwaysCurrent(f) == TRUE                  \* mutant: the epochs are not compared
StillCurrent(f) == f.epoch = epochs[f.key] /\ f.global = globalEpoch

Delivered(f, ok) ==
  rings' = [c \in Callers |->
    IF rings[c].phase = "waiting" /\ rings[c].flight[f.key] = f.id
    THEN IF ok THEN [rings[c] EXCEPT !.got[f.key] = f.since, !.flight[f.key] = 0]
               ELSE [NoRing EXCEPT !.phase = "failed"]
    ELSE rings[c]]

Land(f, ok) ==
  /\ flights' = flights \ {f}
  /\ inFlight' = [inFlight EXCEPT ![f.key] = IF @ = f.id THEN 0 ELSE @]
  /\ Delivered(f, ok)
  /\ UNCHANGED <<epochs, globalEpoch, invalidations, clock, fetches>>

ProviderAnswers(f) ==
  \/ /\ StillCurrent(f) /\ Land(f, TRUE)
     /\ cache' = IF Ttl = 0 THEN cache
                 ELSE [cache EXCEPT ![f.key] = [since |-> f.since, expiresAt |-> clock + Ttl]]
  \/ ~StillCurrent(f) /\ Land(f, FALSE) /\ UNCHANGED cache

ProviderFails(f) == Land(f, FALSE) /\ UNCHANGED cache

(* The ring is made once every reference resolved; the caller starts over. *)
RingReady(c) ==
  /\ rings[c].phase = "waiting" /\ \A k \in Keys : rings[c].got[k] # None
  /\ rings' = [rings EXCEPT ![c].phase = "ready"]
  /\ UNCHANGED <<cache, inFlight, flights, epochs, globalEpoch, invalidations, clock, fetches>>
RingDone(c) ==
  /\ rings[c].phase \in {"ready", "failed"} /\ rings' = [rings EXCEPT ![c] = NoRing]
  /\ UNCHANGED <<cache, inFlight, flights, epochs, globalEpoch, invalidations, clock, fetches>>

Tick ==
  /\ clock < MaxClock /\ clock' = clock + 1
  /\ UNCHANGED <<cache, inFlight, flights, epochs, globalEpoch, invalidations, rings, fetches>>

Next ==
  \/ \E k \in Keys : Invalidate(k)
  \/ Clear \/ Tick
  \/ \E c \in Callers : CreateKeyRing(c) \/ RotateKeyRing(c) \/ RingReady(c) \/ RingDone(c)
  \/ \E f \in flights : ProviderAnswers(f) \/ ProviderFails(f)

Spec == Init /\ [][Next]_vars
-----------------------------------------------------------------------------
(* Whoever asks for keys after an invalidation, a clear or as part of a    *)
(* rotation gets material that was fetched after it, whatever fetches were *)
(* under way and whoever shared them.                                      *)
NoRevivedMaterial ==
  \A c \in Callers, k \in Keys :
    rings[c].got[k] # None => rings[c].got[k] >= rings[c].asked[k]
=============================================================================
