--------------------------- MODULE LeaseContract ---------------------------
(***************************************************************************)
(* What a validation lease promises, whatever store keeps it: the contract *)
(* of docs/validation-leases.md as a state machine.  Per scope (a tenant   *)
(* and a resource) there is at most one unexpired lease; every grant       *)
(* carries a fencing token larger than every earlier one of its scope; a   *)
(* lease ends by release or by the passing of time and then stays ended.   *)
(*                                                                         *)
(* ValidationLease (the manager with the in-memory store) and              *)
(* PostgresLease (the SQL adapter) implement this module.                  *)
(***************************************************************************)
EXTENDS Naturals

CONSTANTS Scopes,           \* (tenantId, resourceId) pairs
          Owners,           \* who asks for a lease
          LeaseIds,         \* identifiers the callers supply
          MaxSafeInteger    \* the largest instant and the largest token

Instant == 0 .. MaxSafeInteger
Token   == 1 .. MaxSafeInteger

Grants == [scope : Scopes, owner : Owners, leaseId : LeaseIds,
           fencingToken : Token, expiresAt : Instant]

VARIABLES now,         \* the latest instant an operation was decided at
          granted,     \* the live leases
          counter      \* scope -> the last fencing token handed out

contractVars == <<now, granted, counter>>

ContractInit ==
  /\ now = 0
  /\ granted = {}
  /\ counter = [s \in Scopes |-> 0]

(* Time is part of every step: at instant t the leases that have reached   *)
(* their expiry are over.                                                  *)
LiveAt(t) == {g \in granted : g.expiresAt > t}

Holding(s, t) == {g \in LiveAt(t) : g.scope = s}

Elapse(t) ==
  /\ t >= now
  /\ now' = t
  /\ granted' = LiveAt(t)
  /\ UNCHANGED counter

Grant(s, o, l, t, e) ==
  /\ t >= now /\ e > t
  /\ Holding(s, t) = {}
  /\ counter[s] < MaxSafeInteger
  /\ now' = t
  /\ counter' = [counter EXCEPT ![s] = counter[s] + 1]
  /\ granted' = LiveAt(t) \cup
                  {[scope |-> s, owner |-> o, leaseId |-> l,
                    fencingToken |-> counter[s] + 1, expiresAt |-> e]}

Extend(s, t, e) ==
  /\ t >= now /\ e > t
  /\ Holding(s, t) # {}
  /\ now' = t
  /\ granted' = (LiveAt(t) \ Holding(s, t)) \cup
                  {[g EXCEPT !.expiresAt = e] : g \in Holding(s, t)}
  /\ UNCHANGED counter

End(s, t) ==
  /\ t >= now
  /\ now' = t
  /\ granted' = LiveAt(t) \ Holding(s, t)
  /\ UNCHANGED counter

ContractNext ==
  \E t \in Instant :
    \/ Elapse(t)
    \/ \E s \in Scopes :
         \/ End(s, t)
         \/ \E e \in Instant :
              \/ Extend(s, t, e)
              \/ \E o \in Owners, l \in LeaseIds : Grant(s, o, l, t, e)

ContractSpec == ContractInit /\ [][ContractNext]_contractVars
=============================================================================
