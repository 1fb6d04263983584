--------------------------- MODULE LeaseClients ----------------------------
(***************************************************************************)
(* The callers' side of a lease store: the answer of the last operation,   *)
(* and what the callers may still believe because of the answers so far.   *)
(* None of it is state of the program: it is the history the properties    *)
(* of both lease stores are stated over.                                   *)
(***************************************************************************)
EXTENDS SafeIntegers

CONSTANTS Scopes,           \* (tenantId, resourceId) pairs
          Owners,           \* who asks for a lease
          LeaseIds          \* identifiers the callers supply

(* What a caller presents to renew, release or validate. *)
Claims == [scope : Scopes, owner : Owners, leaseId : LeaseIds,
           fencingToken : Token]

(* What a caller was told it holds. *)
Grants == [scope : Scopes, owner : Owners, leaseId : LeaseIds,
           fencingToken : Token, expiresAt : Instant]

(* What a store keeps of a lease: the type ValidationLease. *)
Leases == [scope : Scopes, owner : Owners, leaseId : LeaseIds,
           fencingToken : Token, acquiredAt : Instant, renewedAt : Instant,
           expiresAt : Instant]

GrantOf(x) == [scope |-> x.scope, owner |-> x.owner, leaseId |-> x.leaseId,
               fencingToken |-> x.fencingToken, expiresAt |-> x.expiresAt]

Accepted == {"ACQUIRED", "RENEWED", "RELEASED", "VALID"}
Refused  == {"NONE", "ALREADY_HELD", "CONTENDED", "HELD", "REJECTED"}

Reasons == {"OK", "INVALID_INPUT", "CLOCK_UNAVAILABLE", "CLOCK_REGRESSION",
            "STORE_UNAVAILABLE", "LEASE_ACTIVE", "LEASE_MISSING",
            "LEASE_EXPIRED", "OWNER_MISMATCH", "LEASE_ID_MISMATCH",
            "STALE_FENCING_TOKEN"}

VARIABLES reply,     \* the decision of the last operation
          told,      \* grants that were answered and not seen to end since
          newest     \* scope -> the largest token answered so far

clientVars == <<reply, told, newest>>

Replies == [decision : Accepted, reason : {"OK"}, at : Instant,
            claim : Claims, lease : Grants]
           \cup [decision : Refused, reason : Reasons]

ClientTypeOK ==
  /\ reply \in Replies
  /\ told \subseteq Grants
  /\ newest \in [Scopes -> Instant]

ClientInit ==
  /\ reply = [decision |-> "NONE", reason |-> "OK"]
  /\ told = {}
  /\ newest = [s \in Scopes |-> 0]

SameClaim(g, c) ==
  /\ g.scope = c.scope /\ g.owner = c.owner
  /\ g.leaseId = c.leaseId /\ g.fencingToken = c.fencingToken

(* An operation on scope s decided at instant t shows every caller that    *)
(* the grants of s that expire by t are over.                              *)
StillTold(s, t) == {g \in told : g.scope = s => g.expiresAt > t}

ClaimOf(g) == [scope |-> g.scope, owner |-> g.owner, leaseId |-> g.leaseId,
               fencingToken |-> g.fencingToken]

(* The store accepted claim c: decision d on lease g at instant t. *)
Accept(d, c, g, t) ==
  /\ reply' = [decision |-> d, reason |-> "OK", at |-> t,
               claim |-> c, lease |-> g]
  /\ told' = {h \in StillTold(g.scope, t) : ~SameClaim(h, g)}
             \cup (IF d = "RELEASED" THEN {} ELSE {g})
  /\ newest' = [newest EXCEPT ![g.scope] =
                  IF g.fencingToken > newest[g.scope]
                  THEN g.fencingToken ELSE newest[g.scope]]

(* The store looked at scope s at instant t and refused. *)
Refuse(d, reason, s, t) ==
  /\ reply' = [decision |-> d, reason |-> reason]
  /\ told' = StillTold(s, t)
  /\ UNCHANGED newest

(* Refused before the store looked at the scope, or because it failed. *)
Unanswered(reason) ==
  /\ reply' = [decision |-> "REJECTED", reason |-> reason]
  /\ UNCHANGED <<told, newest>>
-----------------------------------------------------------------------------
(* An operation is accepted only on a claim to a grant that was answered earlier,    *)
(* was not released, was never seen expired, has not expired by the        *)
(* instant of the decision and carries the newest token of its scope: an   *)
(* ended lease never comes back, whichever caller presents it with         *)
(* whichever clock.                                                        *)
HeldClaim(r) ==
  \E g \in told : /\ SameClaim(g, r.claim)
                  /\ g.expiresAt > r.at
                  /\ g.fencingToken = newest[g.scope]

AcceptedOnlyWhileHeld ==
  [][reply'.decision \in {"RENEWED", "RELEASED", "VALID"} => HeldClaim(reply')]_clientVars

(* A grant carries a token larger than every token of its scope answered   *)
(* before, and no earlier grant of the scope reaches past the instant it   *)
(* is given: two callers never hold unexpired leases on one scope.         *)
FreshGrant(r) ==
  /\ r.lease.fencingToken > newest[r.lease.scope]
  /\ \A g \in told : g.scope = r.lease.scope => g.expiresAt <= r.at

GrantsNeverOverlap ==
  [][reply'.decision = "ACQUIRED" => FreshGrant(reply')]_clientVars
=============================================================================
