-------------------------- MODULE ValidationLease --------------------------
(***************************************************************************)
(* ValidationLeaseManager over InMemoryValidationLeaseStore                *)
(* (packages/runtime-core/src/validation-lease.ts).  Several managers,     *)
(* each with a clock of its own that may jump, stop or run backwards,      *)
(* share one store.  Every operation reads the clock once: the reading is  *)
(* an input t of the action.                                               *)
(***************************************************************************)
EXTENDS LeaseClients

CONSTANTS Managers,         \* the lease managers in front of the store
          Durations         \* requested lease durations

ASSUME DurationsArePositive == Durations \subseteq Nat \ {0}

VARIABLES leases,            \* InMemoryValidationLeaseStore.leases: a set with
                             \* one entry a scope
          fencingCounters,   \* .fencingCounters, 0 when the key is absent
          lastObservedAt,    \* .lastObservedAt of the store
          managerClock       \* ValidationLeaseManager.lastObservedAt

storeVars == <<leases, fencingCounters, lastObservedAt>>
vars == <<leases, fencingCounters, lastObservedAt, managerClock,
          reply, told, newest>>

TypeOK ==
  /\ ClientTypeOK
  /\ leases \subseteq Leases
  /\ fencingCounters \in [Scopes -> Instant]
  /\ lastObservedAt \in Instant
  /\ managerClock \in [Managers -> Instant]

Init ==
  /\ ClientInit
  /\ leases = {}
  /\ fencingCounters = [s \in Scopes |-> 0]
  /\ lastObservedAt = 0
  /\ managerClock = [m \in Managers |-> 0]

Entry(s) == {x \in leases : x.scope = s}

ExpiresEarly(x, t) == x.expiresAt <= t + 1    \* mutant: off by one
ExpiredAt(x, t) == x.expiresAt <= t

(* validLeaseForScope: the manager distrusts a lease the store hands out   *)
(* whose instants do not fit the reading the operation was decided at.     *)
ValidLeaseForScope(x, t) ==
  x.acquiredAt <= x.renewedAt /\ x.renewedAt <= t /\ x.expiresAt > t

(* The manager's answer: the store's lease when it is usable. *)
AnswerWith(d, c, x, t) ==
  IF ValidLeaseForScope(x, t) THEN Accept(d, c, GrantOf(x), t)
                              ELSE Unanswered("STORE_UNAVAILABLE")

IdentityIgnoresToken(x, c) ==                 \* mutant: token not compared
  IF x.owner # c.owner THEN "OWNER_MISMATCH"
  ELSE IF x.leaseId # c.leaseId THEN "LEASE_ID_MISMATCH"
  ELSE "OK"

(* identityReason, in the order the in-memory store compares. *)
IdentityReason(x, c) ==
  IF x.fencingToken # c.fencingToken THEN "STALE_FENCING_TOKEN"
  ELSE IF x.owner # c.owner THEN "OWNER_MISMATCH"
  ELSE IF x.leaseId # c.leaseId THEN "LEASE_ID_MISMATCH"
  ELSE "OK"
-----------------------------------------------------------------------------
ObserveAnyClock(t) == lastObservedAt' = t     \* mutant: no regression check

(* observeClock of the store throws on a reading behind an earlier one. *)
ObserveClock(t) == t >= lastObservedAt /\ lastObservedAt' = t

StoreClockRegression(t) ==
  /\ t < lastObservedAt
  /\ Unanswered("STORE_UNAVAILABLE")
  /\ UNCHANGED storeVars

(* nextToken throws rather than hand out an unsafe integer. *)
TokensExhausted(s) == fencingCounters[s] >= MaxSafeInteger

(* acquire of the store: active() drops an expired entry first, nextToken  *)
(* fails closed when the counter is exhausted.                             *)
StoreAcquire(s, o, l, t, e) ==
  LET active == {x \in Entry(s) : ~ExpiredAt(x, t)}
      kept   == leases \ {x \in Entry(s) : ExpiredAt(x, t)}
      lease  == [scope |-> s, owner |-> o, leaseId |-> l,
                 fencingToken |-> fencingCounters[s] + 1,
                 acquiredAt |-> t, renewedAt |-> t, expiresAt |-> e]
  IN /\ ObserveClock(t)
     /\ \/ /\ \E x \in active :
                IF ~ValidLeaseForScope(x, t)
                THEN Unanswered("STORE_UNAVAILABLE")
                ELSE Refuse(IF x.owner = o /\ x.leaseId = l
                            THEN "ALREADY_HELD" ELSE "CONTENDED",
                            "LEASE_ACTIVE", s, t)
           /\ UNCHANGED <<leases, fencingCounters>>
        \/ /\ active = {} /\ TokensExhausted(s)
           /\ leases' = kept
           /\ Unanswered("STORE_UNAVAILABLE")
           /\ UNCHANGED fencingCounters
        \/ /\ active = {} /\ ~TokensExhausted(s)
           /\ fencingCounters' = [fencingCounters EXCEPT
                                    ![s] = fencingCounters[s] + 1]
           /\ leases' = kept \cup {lease}
           /\ AnswerWith("ACQUIRED", ClaimOf(lease), lease, t)

(* The checks renew, release and validate of the store share: a missing    *)
(* entry, an expired one (dropped on the way) and a claim of another       *)
(* grant are refused.                                                      *)
StoreRefuses(c, t) ==
  /\ \/ /\ Entry(c.scope) = {}
        /\ Refuse("REJECTED", "LEASE_MISSING", c.scope, t)
        /\ UNCHANGED leases
     \/ \E x \in Entry(c.scope) :
          /\ ExpiredAt(x, t)
          /\ leases' = leases \ {x}
          /\ Refuse("REJECTED", "LEASE_EXPIRED", c.scope, t)
     \/ \E x \in Entry(c.scope) :
          /\ ~ExpiredAt(x, t) /\ IdentityReason(x, c) # "OK"
          /\ Refuse("REJECTED", IdentityReason(x, c), c.scope, t)
          /\ UNCHANGED leases
  /\ UNCHANGED fencingCounters

Holder(c, t) ==
  {x \in Entry(c.scope) : ~ExpiredAt(x, t) /\ IdentityReason(x, c) = "OK"}

Renewed(x, t, e) == [x EXCEPT !.renewedAt = t, !.expiresAt = e]

StoreRenew(c, t, e) ==
  /\ ObserveClock(t)
  /\ \/ StoreRefuses(c, t)
     \/ \E x \in Holder(c, t) :
          /\ leases' = (leases \ {x}) \cup {Renewed(x, t, e)}
          /\ AnswerWith("RENEWED", c, Renewed(x, t, e), t)
          /\ UNCHANGED fencingCounters

ReleaseForgetsCounter(c, t) ==      \* mutant: the counter goes with the lease
  /\ ObserveClock(t)
  /\ \/ StoreRefuses(c, t)
     \/ \E x \in Holder(c, t) :
          /\ leases' = leases \ {x}
          /\ Accept("RELEASED", c, GrantOf(x), t)
          /\ fencingCounters' = [fencingCounters EXCEPT ![c.scope] = 0]

StoreRelease(c, t) ==
  /\ ObserveClock(t)
  /\ \/ StoreRefuses(c, t)
     \/ \E x \in Holder(c, t) :
          /\ leases' = leases \ {x}
          /\ Accept("RELEASED", c, GrantOf(x), t)
          /\ UNCHANGED fencingCounters

StoreValidate(c, t) ==
  /\ ObserveClock(t)
  /\ \/ StoreRefuses(c, t)
     \/ \E x \in Holder(c, t) :
          /\ AnswerWith("VALID", c, x, t)
          /\ UNCHANGED <<leases, fencingCounters>>
-----------------------------------------------------------------------------
(* readClock of manager m: a reading that is not a time, or that is behind *)
(* an earlier reading of this manager, rejects the operation.              *)
ReadClock(m, t) ==
  /\ t >= managerClock[m]
  /\ managerClock' = [managerClock EXCEPT ![m] = t]

ClockFails(m) ==
  /\ \/ Unanswered("CLOCK_UNAVAILABLE")
     \/ \E t \in Instant : t < managerClock[m] /\ Unanswered("CLOCK_REGRESSION")
  /\ UNCHANGED <<storeVars, managerClock>>

(* Malformed input is refused before the clock is read. *)
InvalidInput ==
  Unanswered("INVALID_INPUT") /\ UNCHANGED <<storeVars, managerClock>>

(* expiry(): an expiry that is no safe integer is refused after the clock  *)
(* was read and before the store is called.                                *)
ExpiryOverflows(t, d) ==
  /\ t > MaxSafeInteger - d
  /\ Unanswered("INVALID_INPUT")
  /\ UNCHANGED storeVars

Acquire(m, s, o, l, d, t) ==
  /\ ReadClock(m, t)
  /\ \/ ExpiryOverflows(t, d)
     \/ /\ t <= MaxSafeInteger - d
        /\ StoreClockRegression(t) \/ StoreAcquire(s, o, l, t, t + d)

Renew(m, c, d, t) ==
  /\ ReadClock(m, t)
  /\ \/ ExpiryOverflows(t, d)
     \/ /\ t <= MaxSafeInteger - d
        /\ StoreClockRegression(t) \/ StoreRenew(c, t, t + d)

Release(m, c, t) ==
  ReadClock(m, t) /\ (StoreClockRegression(t) \/ StoreRelease(c, t))

Validate(m, c, t) ==
  ReadClock(m, t) /\ (StoreClockRegression(t) \/ StoreValidate(c, t))

Next ==
  \/ InvalidInput
  \/ \E m \in Managers :
       \/ ClockFails(m)
       \/ \E t \in Instant :
            \/ \E s \in Scopes, o \in Owners, l \in LeaseIds, d \in Durations :
                 Acquire(m, s, o, l, d, t)
            \/ \E c \in Claims :
                 \/ \E d \in Durations : Renew(m, c, d, t)
                 \/ Release(m, c, t)
                 \/ Validate(m, c, t)

Spec == Init /\ [][Next]_vars
-----------------------------------------------------------------------------
(* The facts the store's correctness rests on, as one inductive invariant: *)
(* the map has one entry a scope, the entry carries the scope's newest     *)
(* token and instants the manager accepts, and the callers' beliefs agree  *)
(* with the map: every entry is a grant some caller was told of, and every *)
(* told grant that has not expired is an entry.                            *)
OneEntryPerScope == \A x, y \in leases : x.scope = y.scope => x = y

EntryIsNewest ==
  \A x \in leases : x.fencingToken = fencingCounters[x.scope]

EntryIsTimely ==
  \A x \in leases : /\ x.acquiredAt <= x.renewedAt
                    /\ x.renewedAt <= lastObservedAt

BeliefsMatchStore ==
  /\ \A x \in leases : GrantOf(x) \in told
  /\ \A g \in told : g.expiresAt > lastObservedAt =>
       \E x \in leases : GrantOf(x) = g
  /\ newest = fencingCounters

LeaseInv ==
  OneEntryPerScope /\ EntryIsNewest /\ EntryIsTimely /\ BeliefsMatchStore
-----------------------------------------------------------------------------
(* The store implements the contract: its live leases at the latest        *)
(* instant it decided anything at are the granted leases.                  *)
Live(t) == {GrantOf(x) : x \in {y \in leases : ~ExpiredAt(y, t)}}

Contract == INSTANCE LeaseContract WITH
  now     <- lastObservedAt,
  granted <- Live(lastObservedAt),
  counter <- fencingCounters

ImplementsContract == Contract!ContractSpec
=============================================================================
