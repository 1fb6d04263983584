--------------------------- MODULE PostgresLease ---------------------------
(***************************************************************************)
(* PostgresValidationLeaseStore                                            *)
(* (packages/store-postgres/src/validation-lease.ts): one row per scope    *)
(* that is never deleted, every operation one transaction at the default   *)
(* READ COMMITTED level, the instant t supplied by the caller.  acquire    *)
(* and validate act in one step: the upsert keeps the conflicting row      *)
(* locked until the transaction ends.  renew and release that miss the row *)
(* read it again in a second statement to say why, and other transactions  *)
(* may commit in between.                                                  *)
(*                                                                         *)
(* Answers stand for what the returned promise settles to; an exception    *)
(* settles it with STORE_UNAVAILABLE (INVALID_INPUT for a TypeError).      *)
(***************************************************************************)
EXTENDS LeaseClients

CONSTANTS Clients           \* connections that may each run one transaction

VARIABLES rows,      \* the table: a set with at most one row a scope
          pending,   \* client -> the missed mutation it is about to explain
          latest,    \* history: the largest instant a transaction was run with
          inOrder    \* history: no instant so far was behind an earlier one

tableVars == <<rows, pending, latest, inOrder>>
vars == <<rows, pending, latest, inOrder, reply, told, newest>>

Missed == [claim : Claims, at : Instant]

TypeOK ==
  /\ ClientTypeOK
  /\ rows \subseteq Leases
  /\ pending \in [Clients -> SUBSET Missed]
  /\ latest \in Instant /\ inOrder \in BOOLEAN

Init ==
  /\ ClientInit
  /\ rows = {}
  /\ pending = [k \in Clients |-> {}]
  /\ latest = 0 /\ inOrder = TRUE

Row(s) == {x \in rows : x.scope = s}

Idle(k) == pending[k] = {}

(* A transaction is run with instant t: whatever the caller's clock reads. *)
At(t) ==
  /\ inOrder' = (inOrder /\ t >= latest)
  /\ latest' = IF t > latest THEN t ELSE latest

(* The CHECK constraints of the table.  A statement whose row violates     *)
(* them fails and the transaction is rolled back.                          *)
TableChecks(x) == x.renewedAt >= x.acquiredAt /\ x.expiresAt > x.renewedAt

Write(old, new) == rows' = (rows \ old) \cup {new}

Throws(reason) == Unanswered(reason) /\ UNCHANGED rows

IdentityIgnoresToken(x, c) ==                   \* mutant: token not compared
  IF x.owner # c.owner THEN "OWNER_MISMATCH"
  ELSE IF x.leaseId # c.leaseId THEN "LEASE_ID_MISMATCH"
  ELSE "OK"

IdentityReason(x, c) ==
  IF x.owner # c.owner THEN "OWNER_MISMATCH"
  ELSE IF x.leaseId # c.leaseId THEN "LEASE_ID_MISMATCH"
  ELSE IF x.fencingToken # c.fencingToken THEN "STALE_FENCING_TOKEN"
  ELSE "OK"
-----------------------------------------------------------------------------

(* The row INSERT ... ON CONFLICT DO UPDATE writes.                        *)
Upserted(s, o, l, t, e) ==
  [scope |-> s, owner |-> o, leaseId |-> l,
   fencingToken |-> IF Row(s) = {} THEN 1
                    ELSE (CHOOSE x \in Row(s) : TRUE).fencingToken + 1,
   acquiredAt |-> t, renewedAt |-> t, expiresAt |-> e]

(* leaseFromRow refuses a token beyond the safe integers, which rolls the  *)
(* upsert back.  Instants run out before tokens do (TokensLagInstants).    *)
SafeRow(x) == x.fencingToken <= MaxSafeInteger

Acquire(k, s, o, l, t, e) ==
  LET held == {x \in Row(s) : x.expiresAt > t}
      new  == Upserted(s, o, l, t, e)
  IN /\ Idle(k) /\ At(t) /\ e > t
     /\ \/ /\ held # {}
           /\ Refuse("HELD", "LEASE_ACTIVE", s, t)
           /\ UNCHANGED rows
        \/ /\ held = {} /\ ~SafeRow(new)
           /\ Throws("STORE_UNAVAILABLE")
        \/ /\ held = {} /\ SafeRow(new)
           /\ Write(Row(s), new)
           /\ Accept("ACQUIRED", ClaimOf(new), GrantOf(new), t)
     /\ UNCHANGED pending

MatchesExpired(c, t) ==                     \* mutant: no expiry in the WHERE
  {x \in Row(c.scope) : IdentityReason(x, c) = "OK"}

(* The rows the WHERE clause of the conditional UPDATEs selects. *)
Matching(c, t) ==
  {x \in Row(c.scope) : IdentityReason(x, c) = "OK" /\ x.expiresAt > t}

Miss(k, c, t) ==
  /\ Matching(c, t) = {}
  /\ pending' = [pending EXCEPT ![k] = {[claim |-> c, at |-> t]}]
  /\ UNCHANGED <<rows, reply, told, newest>>

Renew(k, c, t, e) ==
  /\ Idle(k) /\ At(t) /\ e > t
  /\ \/ Miss(k, c, t)
     \/ \E x \in Matching(c, t) :
          LET new == [x EXCEPT !.renewedAt = t, !.expiresAt = e]
          IN /\ \/ ~TableChecks(new) /\ Throws("STORE_UNAVAILABLE")
                \/ /\ TableChecks(new) /\ Write({x}, new)
                   /\ Accept("RENEWED", c, GrantOf(new), t)
             /\ UNCHANGED pending

(* release keeps the row, and with it the fencing counter: it moves the    *)
(* expiry to the present.                                                  *)
Released(x, t) == [x EXCEPT !.expiresAt = t]

Release(k, c, t) ==
  /\ Idle(k) /\ At(t)
  /\ \/ Miss(k, c, t)
     \/ \E x \in Matching(c, t) :
          LET new == Released(x, t)
          IN /\ \/ ~TableChecks(new) /\ Throws("STORE_UNAVAILABLE")
                \/ /\ TableChecks(new) /\ Write({x}, new)
                   /\ Accept("RELEASED", c, GrantOf(x), t)
             /\ UNCHANGED pending

(* rejectionFor: the second statement of a mutation that missed. *)
RejectionFor(k) ==
  \E p \in pending[k] :
    /\ \/ /\ Row(p.claim.scope) = {}
          /\ Refuse("REJECTED", "LEASE_MISSING", p.claim.scope, p.at)
       \/ \E x \in Row(p.claim.scope) :
            \/ /\ x.expiresAt <= p.at
               /\ Refuse("REJECTED", "LEASE_EXPIRED", p.claim.scope, p.at)
            \/ /\ x.expiresAt > p.at /\ IdentityReason(x, p.claim) # "OK"
               /\ Refuse("REJECTED", IdentityReason(x, p.claim),
                         p.claim.scope, p.at)
            \/ /\ x \in Matching(p.claim, p.at)
               /\ Unanswered("STORE_UNAVAILABLE")   \* lost its race
    /\ pending' = [pending EXCEPT ![k] = {}]
    /\ UNCHANGED <<rows, latest, inOrder>>

Validate(k, c, t) ==
  /\ Idle(k) /\ At(t)
  /\ \/ /\ Row(c.scope) = {}
        /\ Refuse("REJECTED", "LEASE_MISSING", c.scope, t)
     \/ \E x \in Row(c.scope) :
          \/ /\ x.expiresAt <= t
             /\ Refuse("REJECTED", "LEASE_EXPIRED", c.scope, t)
          \/ /\ x.expiresAt > t /\ IdentityReason(x, c) # "OK"
             /\ Refuse("REJECTED", IdentityReason(x, c), c.scope, t)
          \/ /\ x \in Matching(c, t)
             /\ Accept("VALID", c, GrantOf(x), t)
  /\ UNCHANGED <<rows, pending>>

(* validateNow, validateAcquire, validateRenew, validateMutation. *)
InvalidInput == Unanswered("INVALID_INPUT") /\ UNCHANGED tableVars

Next ==
  \/ InvalidInput
  \/ \E k \in Clients :
       \/ RejectionFor(k)
       \/ \E t \in Instant :
            \/ \E s \in Scopes, o \in Owners, l \in LeaseIds, e \in Instant :
                 Acquire(k, s, o, l, t, e)
            \/ \E c \in Claims :
                 \/ \E e \in Instant : Renew(k, c, t, e)
                 \/ Release(k, c, t)
                 \/ Validate(k, c, t)

Spec == Init /\ [][Next]_vars
-----------------------------------------------------------------------------
(* One row a scope; it carries the newest token ever answered for it, a    *)
(* grant a caller may still rely on is the row's, and since no two leases  *)
(* of a scope are acquired at one instant the row's token is bounded by    *)
(* the instant, so that the fencing counter (acquire) cannot run out.      *)
OneRowPerScope == \A x, y \in rows : x.scope = y.scope => x = y

RowIsNewest ==
  /\ \A x \in rows : x.fencingToken = newest[x.scope]
  /\ \A s \in Scopes : Row(s) = {} => newest[s] = 0

GrantsAreRows == \A g \in told : \E x \in rows : g = GrantOf(x)

TokensLagInstants == \A x \in rows : x.fencingToken <= x.acquiredAt + 1

RowInv ==
  /\ OneRowPerScope /\ RowIsNewest /\ GrantsAreRows /\ TokensLagInstants
  /\ \A x \in rows : TableChecks(x)

(* The fence: whatever the callers' clocks say, an operation is accepted   *)
(* only for the newest token of its scope.  A superseded holder is shut    *)
(* out for good.                                                           *)
OnlyNewestTokenAccepted ==
  [][reply'.decision \in {"RENEWED", "RELEASED", "VALID"} =>
       reply'.claim.fencingToken = newest[reply'.claim.scope]]_clientVars

(* As long as the callers' instants reach the database in order, what the  *)
(* in-memory store guarantees for any clock holds here: an operation is    *)
(* accepted only for a grant that is unreleased, unexpired and the newest. *)
HeldWhileClocksAgree ==
  [][inOrder' /\ reply'.decision \in {"RENEWED", "RELEASED", "VALID"}
       => HeldClaim(reply')]_clientVars

(* The store promises the results of the reference store: a release by the *)
(* caller that holds the lease is answered RELEASED (release).             *)
HolderCanRelease ==
  [][\A k \in Clients, c \in Claims, t \in Instant :
       inOrder' /\ Release(k, c, t) /\ Matching(c, t) # {}
         => reply'.decision = "RELEASED"]_vars
-----------------------------------------------------------------------------
(* The table as a state of the lease contract: its unexpired rows are the  *)
(* granted leases, its tokens the counters.                                *)
Live(t) == {GrantOf(x) : x \in {y \in rows : y.expiresAt > t}}

TokenOf(s) == IF Row(s) = {} THEN 0 ELSE (CHOOSE x \in Row(s) : TRUE).fencingToken

Contract == INSTANCE LeaseContract WITH
  now     <- latest,
  granted <- Live(latest),
  counter <- [s \in Scopes |-> TokenOf(s)]

(* As long as the callers' instants reach the database in order, every     *)
(* step of the table is a step of the lease contract.                      *)
ImplementsContract ==
  /\ Contract!ContractInit
  /\ [][inOrder' => Contract!ContractNext]_<<latest, Live(latest), [s \in Scopes |-> TokenOf(s)]>>
=============================================================================
