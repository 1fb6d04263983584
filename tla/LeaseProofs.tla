----------------------------- MODULE LeaseProofs -----------------------------
(***************************************************************************)
(* Proofs about ValidationLease and PostgresLease, for every set of        *)
(* scopes, owners, lease identifiers, managers, connections and durations  *)
(* and every MAX_SAFE_INTEGER.  First the table of PostgreSQL, where the   *)
(* clocks of the callers are unrelated unless a theorem says otherwise.    *)
(***************************************************************************)
EXTENDS MCLeases, TLAPS

USE MaxSafeIntegerIsPositive DEF P!Instant, P!Token

(* Only what the arguments use of the types. *)
TableTypeOK ==
  /\ rows \subseteq P!Leases
  /\ pending \in [Clients -> SUBSET P!Missed]
  /\ latest \in P!Instant
  /\ pgTold \subseteq P!Grants
  /\ pgNewest \in [Scopes -> P!Instant]

(* A refusal that has yet to be explained looked at the table before now. *)
MissesArePast == \A k \in Clients : \A p \in pending[k] : p.at <= latest

(* While the instants come in order, a lease that has not expired was      *)
(* answered to somebody and not seen to end since.                         *)
LiveRowsAreTold ==
  inOrder => \A x \in rows : x.expiresAt > latest => P!GrantOf(x) \in pgTold

TableInv ==
  /\ TableTypeOK /\ P!OneRowPerScope /\ P!RowIsNewest /\ P!GrantsAreRows
  /\ MissesArePast /\ LiveRowsAreTold

LEMMA TableInit == P!Init => TableInv
<1> SUFFICES ASSUME P!Init PROVE TableInv
  OBVIOUS
<1> USE DEF P!Init, P!ClientInit
<1>1. TableTypeOK
  BY DEF TableTypeOK
<1>2. P!OneRowPerScope /\ P!RowIsNewest /\ P!GrantsAreRows /\ MissesArePast /\ LiveRowsAreTold
  BY DEF P!OneRowPerScope, P!RowIsNewest, P!GrantsAreRows, MissesArePast, LiveRowsAreTold,
         P!Row
<1> QED
  BY <1>1, <1>2 DEF TableInv

LEMMA GrantOfRow ==
  ASSUME NEW x \in P!Leases
  PROVE  /\ P!GrantOf(x) \in P!Grants
         /\ P!GrantOf(x).scope = x.scope
         /\ P!GrantOf(x).owner = x.owner
         /\ P!GrantOf(x).leaseId = x.leaseId
         /\ P!GrantOf(x).fencingToken = x.fencingToken
         /\ P!GrantOf(x).expiresAt = x.expiresAt
BY DEF P!GrantOf, P!Leases, P!Grants

(* The row of a scope. *)
LEMMA RowIs ==
  ASSUME P!OneRowPerScope, NEW x \in rows
  PROVE  P!Row(x.scope) = {x}
BY DEF P!OneRowPerScope, P!Row

(* The instants of the history. *)
LEMMA Instants ==
  ASSUME TableTypeOK, NEW t \in P!Instant, P!At(t)
  PROVE  /\ latest' \in P!Instant /\ latest <= latest' /\ t <= latest'
         /\ inOrder' => inOrder /\ t >= latest /\ latest' = t
<1>1. inOrder' => inOrder /\ t >= latest
  BY Zenon DEF P!At
<1>2. latest' = (IF t > latest THEN t ELSE latest) /\ latest \in P!Instant
  BY DEF P!At, TableTypeOK
<1>3. latest' \in P!Instant /\ latest <= latest' /\ t <= latest'
  BY <1>2
<1>4. t >= latest => latest' = t
  BY <1>2
<1> QED
  BY <1>1, <1>3, <1>4

(* A step that leaves the table alone: what it shows the callers to be     *)
(* over had expired.                                                       *)
LEMMA LookStep ==
  ASSUME TableInv, UNCHANGED <<rows, pgNewest>>,
         NEW s, NEW t \in P!Instant,
         pgTold' = pgTold \/ pgTold' = P!StillTold(s, t),
         t <= latest', latest' \in P!Instant, latest <= latest', inOrder' => inOrder,
         pending' \in [Clients -> SUBSET P!Missed],
         \A k \in Clients : \A p \in pending'[k] : p \in pending[k] \/ p.at <= latest'
  PROVE  TableInv'
<1>1. pgTold' \subseteq pgTold
  BY DEF P!StillTold
<1>2. TableTypeOK'
  BY <1>1 DEF TableInv, TableTypeOK
<1>3. P!OneRowPerScope' /\ P!RowIsNewest'
  BY DEF TableInv, P!OneRowPerScope, P!RowIsNewest, P!Row
<1>4. P!GrantsAreRows'
  BY <1>1 DEF TableInv, P!GrantsAreRows, P!GrantOf
<1>5. MissesArePast'
  <2> SUFFICES ASSUME NEW k \in Clients, NEW p \in pending'[k] PROVE p.at <= latest'
    BY DEF MissesArePast
  <2>1. p.at \in Nat
    BY DEF P!Missed
  <2>2. latest \in Nat /\ latest' \in Nat
    BY DEF TableInv, TableTypeOK
  <2> QED
    BY <2>1, <2>2 DEF TableInv, MissesArePast
<1>6. LiveRowsAreTold'
  <2> SUFFICES ASSUME inOrder', NEW x \in rows, x.expiresAt > latest'
               PROVE  P!GrantOf(x) \in pgTold'
    BY DEF LiveRowsAreTold, P!GrantOf
  <2>1. x \in P!Leases /\ x.expiresAt \in Nat /\ latest \in Nat /\ latest' \in Nat
    BY DEF TableInv, TableTypeOK, P!Leases
  <2>2. P!GrantOf(x) \in pgTold
    BY <2>1 DEF TableInv, LiveRowsAreTold
  <2>3. P!GrantOf(x).expiresAt > t
    BY <2>1, GrantOfRow
  <2> QED
    BY <2>2, <2>3 DEF P!StillTold
<1> QED
  BY <1>2, <1>3, <1>4, <1>5, <1>6 DEF TableInv

(* The common shape of an accepted operation: the row of the scope becomes *)
(* new, with a token that is no older, and the callers hear of it.         *)
LEMMA WriteStep ==
  ASSUME TableInv, NEW t \in P!Instant, NEW d, NEW c, NEW new \in P!Leases,
         NEW g \in P!Grants, P!At(t), UNCHANGED pending,
         rows' = (rows \ P!Row(new.scope)) \cup {new},
         P!Accept(d, c, g, t), g.scope = new.scope, g.fencingToken = new.fencingToken,
         new.fencingToken >= pgNewest[new.scope],
         d # "RELEASED" => g = P!GrantOf(new),
         d = "RELEASED" => new.expiresAt = t,
         \A x \in P!Row(new.scope) :
           x.expiresAt <= t \/ P!SameClaim(P!GrantOf(x), g)
  PROVE  TableInv'
<1> PICK s : s = new.scope
  OBVIOUS
<1>1. s \in Scopes /\ new.fencingToken \in P!Token /\ pgNewest[s] \in P!Instant
  BY DEF P!Leases, TableInv, TableTypeOK
<1>2. pgNewest' = [pgNewest EXCEPT ![s] = new.fencingToken]
  <2>1. pgNewest' = [pgNewest EXCEPT ![s] =
                       IF new.fencingToken > pgNewest[s] THEN new.fencingToken ELSE pgNewest[s]]
    BY DEF P!Accept
  <2>2. (IF new.fencingToken > pgNewest[s] THEN new.fencingToken ELSE pgNewest[s])
          = new.fencingToken
    BY <1>1
  <2> QED
    BY <2>1, <2>2
<1>3. /\ latest' \in P!Instant /\ latest <= latest' /\ t <= latest'
      /\ (inOrder' => inOrder /\ t >= latest /\ latest' = t)
  BY Instants DEF TableInv
<1>4. /\ pgTold' \subseteq pgTold \cup {g}
      /\ (d # "RELEASED" => g \in pgTold')
      /\ \A h \in pgTold' : \/ h = g /\ d # "RELEASED"
                            \/ h \in P!StillTold(s, t) /\ ~P!SameClaim(h, g)
      /\ \A h \in pgTold : h.scope # s => h \in pgTold'
  <2>1. \A h : h.scope # s => ~P!SameClaim(h, g)
    BY DEF P!SameClaim
  <2>2. \A h \in pgTold : h.scope # s => h \in P!StillTold(s, t)
    BY DEF P!StillTold
  <2>3. P!StillTold(s, t) \subseteq pgTold
    BY DEF P!StillTold
  <2>4. pgTold' = {h \in P!StillTold(s, t) : ~P!SameClaim(h, g)}
                    \cup (IF d = "RELEASED" THEN {} ELSE {g})
    BY DEF P!Accept
  <2> QED
    BY <2>1, <2>2, <2>3, <2>4
<1>5. \A x \in rows' : x = new \/ (x \in rows /\ x.scope # s)
  BY DEF P!Row
<1>6. \A x \in rows : x.scope # s => x \in rows'
  BY DEF P!Row
<1>7. TableTypeOK'
  BY <1>1, <1>2, <1>3, <1>4 DEF TableInv, TableTypeOK
<1>8. P!OneRowPerScope'
  BY <1>5 DEF TableInv, P!OneRowPerScope
<1>9. P!RowIsNewest'
  <2>1. \A x \in rows' : x.fencingToken = pgNewest'[x.scope]
    <3> SUFFICES ASSUME NEW x \in rows' PROVE x.fencingToken = pgNewest'[x.scope]
      OBVIOUS
    <3>1. CASE x = new
      BY <3>1, <1>1, <1>2 DEF TableInv, TableTypeOK
    <3>2. CASE x \in rows /\ x.scope # s
      <4>1. x.scope \in Scopes
        BY <3>2 DEF TableInv, TableTypeOK, P!Leases
      <4> QED
        BY <3>2, <4>1, <1>2 DEF TableInv, TableTypeOK, P!RowIsNewest
    <3> QED
      BY <3>1, <3>2, <1>5
  <2>2. ASSUME NEW u \in Scopes, {x \in rows' : x.scope = u} = {} PROVE pgNewest'[u] = 0
    <3>1. u # s
      BY <2>2
    <3>2. {x \in rows : x.scope = u} = {}
      BY <2>2, <3>1, <1>6
    <3> QED
      BY <3>1, <3>2, <1>2 DEF TableInv, TableTypeOK, P!RowIsNewest, P!Row
  <2> QED
    BY <2>1, <2>2 DEF P!RowIsNewest, P!Row
<1>10. P!GrantsAreRows'
  <2> SUFFICES ASSUME NEW h \in pgTold' PROVE \E x \in rows' : h = P!GrantOf(x)
    BY DEF P!GrantsAreRows, P!GrantOf
  <2>1. CASE h = g /\ d # "RELEASED"
    BY <2>1
  <2>2. CASE h \in P!StillTold(s, t) /\ ~P!SameClaim(h, g)
    <3>1. PICK x \in rows : h = P!GrantOf(x)
      BY <2>2 DEF TableInv, P!GrantsAreRows, P!StillTold
    <3>2. x \in P!Leases /\ h.scope = x.scope /\ h.expiresAt = x.expiresAt /\ x.expiresAt \in Nat
      BY <3>1, GrantOfRow DEF TableInv, TableTypeOK, P!Leases
    <3>3. x.scope # s
      <4> SUFFICES ASSUME x.scope = s PROVE FALSE
        OBVIOUS
      <4>1. x \in P!Row(new.scope)
        BY DEF P!Row
      <4>2. x.expiresAt > t
        BY <2>2, <3>2 DEF P!StillTold
      <4> QED
        BY <4>1, <4>2, <2>2, <3>1, <3>2
    <3> QED
      BY <3>1, <3>3, <1>6
  <2> QED
    BY <2>1, <2>2, <1>4
<1>11. MissesArePast'
  <2> SUFFICES ASSUME NEW k \in Clients, NEW p \in pending[k] PROVE p.at <= latest'
    BY DEF MissesArePast
  <2>1. p.at \in Nat /\ latest \in Nat /\ latest' \in Nat /\ p.at <= latest
    BY <1>3 DEF TableInv, TableTypeOK, P!Missed, MissesArePast
  <2> QED
    BY <2>1, <1>3
<1>12. LiveRowsAreTold'
  <2> SUFFICES ASSUME inOrder', NEW x \in rows', x.expiresAt > latest'
               PROVE  P!GrantOf(x) \in pgTold'
    BY DEF LiveRowsAreTold, P!GrantOf
  <2>1. CASE x = new
    <3>1. d # "RELEASED"
      BY <2>1, <1>3
    <3> QED
      BY <2>1, <3>1, <1>4
  <2>2. CASE x \in rows /\ x.scope # s
    <3>1. x \in P!Leases /\ x.expiresAt \in Nat /\ latest \in Nat /\ latest' \in Nat
      BY <2>2, <1>3 DEF TableInv, TableTypeOK, P!Leases
    <3>2. P!GrantOf(x) \in pgTold
      BY <2>2, <3>1, <1>3 DEF TableInv, LiveRowsAreTold
    <3> QED
      BY <2>2, <3>1, <3>2, <1>4, GrantOfRow
  <2> QED
    BY <2>1, <2>2, <1>5
<1> QED
  BY <1>7, <1>8, <1>9, <1>10, <1>11, <1>12 DEF TableInv

(* A row that a claim matches is the only row of the claim's scope. *)
LEMMA MatchFacts ==
  ASSUME TableInv, NEW c \in P!Claims, NEW t \in P!Instant, NEW x \in P!Matching(c, t)
  PROVE  /\ x \in rows /\ x \in P!Leases /\ x.scope = c.scope /\ x.expiresAt > t
         /\ P!Row(c.scope) = {x} /\ P!SameClaim(P!GrantOf(x), c)
         /\ x.fencingToken = c.fencingToken /\ pgNewest[c.scope] = c.fencingToken
<1>1. x \in rows /\ x.scope = c.scope /\ x.expiresAt > t /\ P!IdentityReason(x, c) = "OK"
  BY DEF P!Matching, P!Row
<1>2. x.owner = c.owner /\ x.leaseId = c.leaseId /\ x.fencingToken = c.fencingToken
  BY <1>1 DEF P!IdentityReason
<1>3. x \in P!Leases
  BY <1>1 DEF TableInv, TableTypeOK
<1>4. P!Row(c.scope) = {x}
  BY <1>1, RowIs DEF TableInv
<1>5. P!SameClaim(P!GrantOf(x), c)
  BY <1>1, <1>2, <1>3, GrantOfRow DEF P!SameClaim
<1>6. pgNewest[c.scope] = c.fencingToken
  BY <1>1, <1>2 DEF TableInv, P!RowIsNewest
<1> QED
  BY <1>1, <1>2, <1>3, <1>4, <1>5, <1>6

(* The grant of the row a claim matches, whatever its expiry becomes. *)
LEMMA SameClaimOfMatch ==
  ASSUME TableInv, NEW c \in P!Claims, NEW t \in P!Instant, NEW x \in P!Matching(c, t),
         NEW y \in P!Leases, y.scope = x.scope, y.owner = x.owner, y.leaseId = x.leaseId,
         y.fencingToken = x.fencingToken
  PROVE  P!SameClaim(P!GrantOf(x), P!GrantOf(y))
BY MatchFacts, GrantOfRow DEF P!SameClaim

(* The token of a new row is the next one. *)
LEMMA UpsertedRow ==
  ASSUME TableInv, NEW s \in Scopes, NEW o \in Owners, NEW l \in LeaseIds,
         NEW t \in P!Instant, NEW e \in P!Instant, NEW new, new = P!Upserted(s, o, l, t, e)
  PROVE  /\ new.fencingToken = pgNewest[s] + 1 /\ new.scope = s /\ new.owner = o
         /\ new.leaseId = l /\ new.expiresAt = e
         /\ P!SafeRow(new) => new \in P!Leases
<1>1. (IF P!Row(s) = {} THEN 1 ELSE (CHOOSE x \in P!Row(s) : TRUE).fencingToken + 1)
        = pgNewest[s] + 1
  <2>1. CASE P!Row(s) = {}
    BY <2>1 DEF TableInv, P!RowIsNewest
  <2>2. CASE P!Row(s) # {}
    <3>1. PICK x : x = CHOOSE y \in P!Row(s) : TRUE
      OBVIOUS
    <3>2. x \in rows /\ x.scope = s
      BY <2>2, <3>1 DEF P!Row
    <3>3. x.fencingToken = pgNewest[s]
      BY <3>2 DEF TableInv, P!RowIsNewest
    <3> QED
      BY <2>2, <3>1, <3>3
  <2> QED
    BY <2>1, <2>2
<1>2. new = [scope |-> s, owner |-> o, leaseId |-> l, fencingToken |-> pgNewest[s] + 1,
             acquiredAt |-> t, renewedAt |-> t, expiresAt |-> e]
  BY <1>1 DEF P!Upserted
<1>3. pgNewest[s] \in P!Instant
  BY DEF TableInv, TableTypeOK
<1>4. P!SafeRow(new) => new \in P!Leases
  BY <1>2, <1>3 DEF P!SafeRow, P!Leases
<1> QED
  BY <1>2, <1>4

LEMMA TableAcquireStep ==
  ASSUME TableInv, NEW k \in Clients, NEW s \in Scopes, NEW o \in Owners,
         NEW l \in LeaseIds, NEW t \in P!Instant, NEW e \in P!Instant,
         P!Acquire(k, s, o, l, t, e)
  PROVE  TableInv'
<1>1. P!At(t) /\ e > t /\ UNCHANGED pending
  BY DEF P!Acquire
<1>2. /\ latest' \in P!Instant /\ latest <= latest' /\ t <= latest'
      /\ inOrder' => inOrder
  BY <1>1, Instants DEF TableInv
<1>3. CASE UNCHANGED <<rows, pgNewest>> /\ (pgTold' = pgTold \/ pgTold' = P!StillTold(s, t))
  BY <1>1, <1>2, <1>3, LookStep DEF TableInv, TableTypeOK
<1>4. ASSUME NEW new, new = P!Upserted(s, o, l, t, e), P!SafeRow(new),
             {x \in P!Row(s) : x.expiresAt > t} = {}, P!Write(P!Row(s), new),
             P!Accept("ACQUIRED", P!ClaimOf(new), P!GrantOf(new), t)
      PROVE  TableInv'
  <2>1. new \in P!Leases /\ new.scope = s /\ new.fencingToken = pgNewest[s] + 1
    BY <1>4, UpsertedRow
  <2>2. /\ P!GrantOf(new) \in P!Grants /\ P!GrantOf(new).scope = s
        /\ P!GrantOf(new).fencingToken = new.fencingToken
    BY <2>1, GrantOfRow
  <2>3. pgNewest[s] \in P!Instant /\ new.fencingToken >= pgNewest[s]
    BY <2>1 DEF TableInv, TableTypeOK
  <2>4. rows' = (rows \ P!Row(new.scope)) \cup {new}
    BY <1>4, <2>1 DEF P!Write
  <2>5. \A x \in P!Row(s) : x.expiresAt <= t
    BY <1>4 DEF TableInv, TableTypeOK, P!Leases, P!Row
  <2> QED
    BY <1>1, <1>4, <2>1, <2>2, <2>3, <2>4, <2>5, WriteStep
<1> QED
  BY <1>3, <1>4 DEF P!Acquire, P!Refuse, P!Throws, P!Unanswered

LEMMA MissStep ==
  ASSUME TableInv, NEW k \in Clients, NEW c \in P!Claims, NEW t \in P!Instant,
         P!At(t), P!Miss(k, c, t)
  PROVE  TableInv'
<1>1. /\ latest' \in P!Instant /\ latest <= latest' /\ t <= latest'
      /\ inOrder' => inOrder
  BY Instants DEF TableInv
<1>2. PICK m : m = [claim |-> c, at |-> t]
  OBVIOUS
<1>3. m \in P!Missed /\ m.at = t
  BY <1>2 DEF P!Missed
<1>4. pending' = [pending EXCEPT ![k] = {m}] /\ UNCHANGED <<rows, pgTold, pgNewest>>
  BY <1>2 DEF P!Miss
<1>5. pending' \in [Clients -> SUBSET P!Missed]
  BY <1>3, <1>4 DEF TableInv, TableTypeOK
<1>6. \A j \in Clients : \A p \in pending'[j] : p \in pending[j] \/ p.at <= latest'
  BY <1>1, <1>3, <1>4 DEF TableInv, TableTypeOK
<1> QED
  BY <1>1, <1>4, <1>5, <1>6, LookStep

LEMMA RenewStepInv ==
  ASSUME TableInv, NEW k \in Clients, NEW c \in P!Claims, NEW t \in P!Instant,
         NEW e \in P!Instant, P!Renew(k, c, t, e)
  PROVE  TableInv'
<1>1. P!At(t) /\ e > t
  BY DEF P!Renew
<1>2. CASE P!Miss(k, c, t)
  BY <1>1, <1>2, MissStep
<1>3. CASE UNCHANGED <<rows, pgNewest, pgTold, pending>>
  <2>1. /\ latest' \in P!Instant /\ latest <= latest' /\ t <= latest'
        /\ inOrder' => inOrder
    BY <1>1, Instants DEF TableInv
  <2> QED
    BY <1>3, <2>1, LookStep DEF TableInv, TableTypeOK
<1>4. ASSUME NEW x \in P!Matching(c, t), UNCHANGED pending, NEW new,
             new = [x EXCEPT !.renewedAt = t, !.expiresAt = e], P!Write({x}, new),
             P!Accept("RENEWED", c, P!GrantOf(new), t)
      PROVE  TableInv'
  <2>1. x \in P!Leases /\ x.scope = c.scope /\ P!Row(c.scope) = {x}
        /\ pgNewest[c.scope] = x.fencingToken
    BY MatchFacts
  <2>2. /\ new \in P!Leases /\ new.scope = x.scope /\ new.owner = x.owner
        /\ new.leaseId = x.leaseId /\ new.fencingToken = x.fencingToken
    BY <1>4, <2>1 DEF P!Leases
  <2>3. /\ P!GrantOf(new) \in P!Grants /\ P!GrantOf(new).scope = new.scope
        /\ P!GrantOf(new).fencingToken = new.fencingToken
    BY <2>2, GrantOfRow
  <2>4. P!SameClaim(P!GrantOf(x), P!GrantOf(new))
    BY <2>2, SameClaimOfMatch
  <2>5. rows' = (rows \ P!Row(new.scope)) \cup {new}
    BY <1>4, <2>1, <2>2 DEF P!Write
  <2>6. new.fencingToken >= pgNewest[new.scope]
    BY <2>1, <2>2 DEF P!Leases
  <2>7. \A y \in P!Row(new.scope) : P!SameClaim(P!GrantOf(y), P!GrantOf(new))
    BY <2>1, <2>2, <2>4
  <2> QED
    BY <1>1, <1>4, <2>2, <2>3, <2>5, <2>6, <2>7, WriteStep
<1> QED
  BY <1>2, <1>3, <1>4 DEF P!Renew, P!Throws, P!Unanswered

LEMMA ReleaseStepInv ==
  ASSUME TableInv, NEW k \in Clients, NEW c \in P!Claims, NEW t \in P!Instant,
         P!Release(k, c, t)
  PROVE  TableInv'
<1>1. P!At(t)
  BY DEF P!Release
<1>2. CASE P!Miss(k, c, t)
  BY <1>1, <1>2, MissStep
<1>3. CASE UNCHANGED <<rows, pgNewest, pgTold, pending>>
  <2>1. /\ latest' \in P!Instant /\ latest <= latest' /\ t <= latest'
        /\ inOrder' => inOrder
    BY <1>1, Instants DEF TableInv
  <2> QED
    BY <1>3, <2>1, LookStep DEF TableInv, TableTypeOK
<1>4. ASSUME NEW x \in P!Matching(c, t), UNCHANGED pending, NEW new,
             new = P!Released(x, t), P!Write({x}, new),
             P!Accept("RELEASED", c, P!GrantOf(x), t)
      PROVE  TableInv'
  <2>1. x \in P!Leases /\ x.scope = c.scope /\ P!Row(c.scope) = {x}
        /\ pgNewest[c.scope] = x.fencingToken
    BY MatchFacts
  <2>2. /\ new \in P!Leases /\ new.scope = x.scope /\ new.fencingToken = x.fencingToken
        /\ new.expiresAt = t
    BY <1>4, <2>1 DEF P!Leases, P!Released
  <2>3. /\ P!GrantOf(x) \in P!Grants /\ P!GrantOf(x).scope = new.scope
        /\ P!GrantOf(x).fencingToken = new.fencingToken
    BY <2>1, <2>2, GrantOfRow
  <2>4. P!SameClaim(P!GrantOf(x), P!GrantOf(x))
    BY <2>1, SameClaimOfMatch
  <2>5. rows' = (rows \ P!Row(new.scope)) \cup {new}
    BY <1>4, <2>1, <2>2 DEF P!Write
  <2>6. new.fencingToken >= pgNewest[new.scope]
    BY <2>1, <2>2 DEF P!Leases
  <2>7. \A y \in P!Row(new.scope) : P!SameClaim(P!GrantOf(y), P!GrantOf(x))
    BY <2>1, <2>2, <2>4
  <2> QED
    BY <1>1, <1>4, <2>2, <2>3, <2>5, <2>6, <2>7, WriteStep
<1> QED
  BY <1>2, <1>3, <1>4 DEF P!Release, P!Throws, P!Unanswered

LEMMA ValidateStepInv ==
  ASSUME TableInv, NEW k \in Clients, NEW c \in P!Claims, NEW t \in P!Instant,
         P!Validate(k, c, t)
  PROVE  TableInv'
<1>1. P!At(t) /\ UNCHANGED <<rows, pending>>
  BY DEF P!Validate
<1>2. CASE UNCHANGED pgNewest /\ pgTold' = P!StillTold(c.scope, t)
  <2>1. /\ latest' \in P!Instant /\ latest <= latest' /\ t <= latest'
        /\ inOrder' => inOrder
    BY <1>1, Instants DEF TableInv
  <2> QED
    BY <1>1, <1>2, <2>1, LookStep DEF TableInv, TableTypeOK
<1>3. ASSUME NEW x \in P!Matching(c, t), P!Accept("VALID", c, P!GrantOf(x), t)
      PROVE  TableInv'
  <2>1. x \in rows /\ x \in P!Leases /\ x.scope = c.scope /\ P!Row(c.scope) = {x}
        /\ pgNewest[c.scope] = x.fencingToken
    BY MatchFacts
  <2>3. /\ P!GrantOf(x) \in P!Grants /\ P!GrantOf(x).scope = x.scope
        /\ P!GrantOf(x).fencingToken = x.fencingToken
    BY <2>1, GrantOfRow
  <2>4. P!SameClaim(P!GrantOf(x), P!GrantOf(x))
    BY <2>1, SameClaimOfMatch
  <2>5. rows' = (rows \ P!Row(x.scope)) \cup {x}
    BY <1>1, <2>1
  <2>6. x.fencingToken >= pgNewest[x.scope]
    BY <2>1 DEF P!Leases
  <2>7. \A y \in P!Row(x.scope) : P!SameClaim(P!GrantOf(y), P!GrantOf(x))
    BY <2>1, <2>4
  <2> QED
    BY <1>1, <1>3, <2>1, <2>3, <2>5, <2>6, <2>7, WriteStep
<1> QED
  BY <1>2, <1>3 DEF P!Validate, P!Refuse

LEMMA RejectionStep ==
  ASSUME TableInv, NEW k \in Clients, P!RejectionFor(k)
  PROVE  TableInv'
<1>1. PICK p \in pending[k] : pgTold' = pgTold \/ pgTold' = P!StillTold(p.claim.scope, p.at)
  BY DEF P!RejectionFor, P!Refuse, P!Unanswered
<1>2. /\ UNCHANGED <<rows, latest, inOrder, pgNewest>>
      /\ pending' = [pending EXCEPT ![k] = {}]
  BY DEF P!RejectionFor, P!Refuse, P!Unanswered
<1>3. p \in P!Missed /\ p.at \in P!Instant /\ p.at <= latest /\ latest \in P!Instant
  BY DEF TableInv, TableTypeOK, MissesArePast, P!Missed
<1>4. /\ pending' \in [Clients -> SUBSET P!Missed]
      /\ \A j \in Clients : pending'[j] \subseteq pending[j]
  BY <1>2 DEF TableInv, TableTypeOK
<1>5. p.at <= latest' /\ latest <= latest' /\ latest' \in P!Instant
  BY <1>2, <1>3
<1>6. UNCHANGED <<rows, pgNewest>> /\ (inOrder' => inOrder)
  BY <1>2
<1> QED
  BY <1>1, <1>3, <1>4, <1>5, <1>6, LookStep

LEMMA TableStep == TableInv /\ [P!Next]_P!vars => TableInv'
<1> SUFFICES ASSUME TableInv, [P!Next]_P!vars PROVE TableInv'
  OBVIOUS
<1>1. CASE UNCHANGED <<rows, pending, latest, inOrder, pgTold, pgNewest>>
  BY <1>1 DEF TableInv, TableTypeOK, P!OneRowPerScope, P!RowIsNewest, P!GrantsAreRows,
              MissesArePast, LiveRowsAreTold, P!Row, P!GrantOf
<1>2. CASE P!InvalidInput
  BY <1>1, <1>2 DEF P!InvalidInput, P!Unanswered, P!tableVars
<1>3. CASE UNCHANGED P!vars
  BY <1>1, <1>3 DEF P!vars
<1> QED
  BY <1>2, <1>3, RejectionStep, TableAcquireStep, RenewStepInv, ReleaseStepInv, ValidateStepInv
     DEF P!Next

(* The table has one row a scope with its newest token, what the callers   *)
(* were told and not seen to end is in it, and as long as the instants     *)
(* come in order every unexpired row is what somebody was told, for every  *)
(* interleaving of the connections' transactions (acquire, renew, release, *)
(* validate and the second read of a mutation that missed).                *)
THEOREM TableInvariance == P!Spec => []TableInv
BY TableInit, TableStep, PTL DEF P!Spec
-----------------------------------------------------------------------------

Accepting == {"RENEWED", "RELEASED", "VALID"}

LEMMA TableReplyOfAccept ==
  ASSUME NEW d, NEW c, NEW g, NEW t, P!Accept(d, c, g, t)
  PROVE  pgReply'.decision = d /\ pgReply'.claim = c /\ pgReply'.at = t
BY DEF P!Accept

LEMMA TableReplyOfRefusal ==
  ASSUME \/ \E d \in {"HELD", "REJECTED"} : \E r, s, t : P!Refuse(d, r, s, t)
         \/ \E r : P!Unanswered(r)
  PROVE  pgReply'.decision \notin Accepting
BY DEF P!Refuse, P!Unanswered, Accepting

(* An operation is accepted only on a row that the claim matches. *)
LEMMA AcceptedOnMatch ==
  ASSUME TableInv, P!Next, ~UNCHANGED P!clientVars, pgReply'.decision \in Accepting
  PROVE  \E c \in P!Claims, t \in P!Instant :
           /\ P!At(t) /\ P!Matching(c, t) # {}
           /\ pgReply'.claim = c /\ pgReply'.at = t
<1>1. ASSUME P!InvalidInput PROVE FALSE
  BY <1>1, TableReplyOfRefusal DEF P!InvalidInput
<1>2. ASSUME NEW k \in Clients, P!RejectionFor(k) PROVE FALSE
  <2>1. \/ \E r, s, t : P!Refuse("REJECTED", r, s, t)
        \/ \E r : P!Unanswered(r)
    BY <1>2 DEF P!RejectionFor
  <2> QED
    BY <2>1, TableReplyOfRefusal
<1>3. ASSUME NEW k \in Clients, NEW s \in Scopes, NEW o \in Owners,
             NEW l \in LeaseIds, NEW t \in P!Instant, NEW e \in P!Instant,
             P!Acquire(k, s, o, l, t, e)
      PROVE  FALSE
  <2>1. \/ P!Refuse("HELD", "LEASE_ACTIVE", s, t)
        \/ P!Unanswered("STORE_UNAVAILABLE")
        \/ \E c, g : P!Accept("ACQUIRED", c, g, t)
    BY <1>3 DEF P!Acquire, P!Throws
  <2>2. "ACQUIRED" \notin Accepting
    BY DEF Accepting
  <2> QED
    BY <2>1, <2>2, TableReplyOfRefusal, TableReplyOfAccept
<1>4. ASSUME NEW k \in Clients, NEW c \in P!Claims, NEW t \in P!Instant,
             \/ \E e \in P!Instant : P!Renew(k, c, t, e)
             \/ P!Release(k, c, t)
             \/ P!Validate(k, c, t)
      PROVE  P!At(t) /\ P!Matching(c, t) # {} /\ pgReply'.claim = c /\ pgReply'.at = t
  <2>1. P!At(t)
    BY <1>4 DEF P!Renew, P!Release, P!Validate
  <2>2. \/ P!Miss(k, c, t)
        \/ \E d \in {"HELD", "REJECTED"} : \E r, s, u : P!Refuse(d, r, s, u)
        \/ \E r : P!Unanswered(r)
        \/ P!Matching(c, t) # {} /\ \E d, g : P!Accept(d, c, g, t)
    <3>1. CASE \E e \in P!Instant : P!Renew(k, c, t, e)
      BY <3>1 DEF P!Renew, P!Throws
    <3>2. CASE P!Release(k, c, t)
      BY <3>2 DEF P!Release, P!Throws
    <3>3. CASE P!Validate(k, c, t)
      BY <3>3 DEF P!Validate
    <3> QED
      BY <1>4, <3>1, <3>2, <3>3
  <2>3. ~P!Miss(k, c, t)
    BY DEF P!Miss, P!clientVars
  <2> QED
    BY <2>1, <2>2, <2>3, TableReplyOfRefusal, TableReplyOfAccept
<1> QED
  BY <1>1, <1>2, <1>3, <1>4 DEF P!Next

(* The fence of the table: whatever the callers' clocks say, renew,        *)
(* release and validate succeed only for the newest token of the scope.    *)
THEOREM OnlyNewestTokenTheorem == P!Spec => OnlyNewestTokenAccepted
<1> DEFINE Fence == pgReply'.decision \in {"RENEWED", "RELEASED", "VALID"} =>
                      pgReply'.claim.fencingToken = pgNewest[pgReply'.claim.scope]
<1>1. TableInv /\ [P!Next]_P!vars => [Fence]_P!clientVars
  <2> SUFFICES ASSUME TableInv, P!Next, ~UNCHANGED P!clientVars,
                      pgReply'.decision \in Accepting
               PROVE  pgReply'.claim.fencingToken = pgNewest[pgReply'.claim.scope]
    BY DEF Accepting, P!vars, P!clientVars
  <2>1. PICK c \in P!Claims, t \in P!Instant :
           P!Matching(c, t) # {} /\ pgReply'.claim = c
    BY AcceptedOnMatch
  <2>2. PICK x \in P!Matching(c, t) : TRUE
    BY <2>1
  <2> QED
    BY <2>1, <2>2, MatchFacts
<1> QED
  BY <1>1, TableInvariance, PTL DEF P!Spec, OnlyNewestTokenAccepted, P!OnlyNewestTokenAccepted

(* As long as the instants reach the database in order, an operation is    *)
(* accepted only for a grant that was answered, has not been released,     *)
(* has not expired and carries the newest token (renew, release,           *)
(* validate).                                                              *)
THEOREM HeldWhileClocksAgreeTheorem == P!Spec => P!HeldWhileClocksAgree
<1> DEFINE Held == inOrder' /\ pgReply'.decision \in {"RENEWED", "RELEASED", "VALID"}
                     => P!HeldClaim(pgReply')
<1>1. TableInv /\ [P!Next]_P!vars => [Held]_P!clientVars
  <2> SUFFICES ASSUME TableInv, P!Next, ~UNCHANGED P!clientVars, inOrder',
                      pgReply'.decision \in Accepting
               PROVE  P!HeldClaim(pgReply')
    BY DEF Accepting, P!vars, P!clientVars
  <2>1. PICK c \in P!Claims, t \in P!Instant :
           P!At(t) /\ P!Matching(c, t) # {} /\ pgReply'.claim = c /\ pgReply'.at = t
    BY AcceptedOnMatch
  <2>2. PICK x \in P!Matching(c, t) : TRUE
    BY <2>1
  <2>3. inOrder /\ t >= latest
    BY <2>1, Instants DEF TableInv
  <2>4. /\ x \in rows /\ x \in P!Leases /\ x.scope = c.scope /\ x.expiresAt > t
        /\ P!SameClaim(P!GrantOf(x), c) /\ x.fencingToken = pgNewest[x.scope]
    BY MatchFacts
  <2>5. x.expiresAt > latest
    BY <2>3, <2>4 DEF TableInv, TableTypeOK, P!Leases
  <2>6. P!GrantOf(x) \in pgTold
    BY <2>3, <2>4, <2>5 DEF TableInv, LiveRowsAreTold
  <2>7. /\ P!GrantOf(x).expiresAt > t
        /\ P!GrantOf(x).fencingToken = pgNewest[P!GrantOf(x).scope]
    BY <2>4, GrantOfRow
  <2> QED
    BY <2>1, <2>4, <2>6, <2>7 DEF P!HeldClaim
<1> QED
  BY <1>1, TableInvariance, PTL DEF P!Spec, P!HeldWhileClocksAgree
-----------------------------------------------------------------------------
(* The refinement: transactions whose instants come in order are steps of  *)
(* the contract.                                                           *)

LEMMA TableLiveLater ==
  ASSUME TableTypeOK, NEW t \in P!Instant, t >= latest
  PROVE  /\ P!Contract!LiveAt(t) = P!Live(t)
         /\ \A s : P!Contract!Holding(s, t) = {g \in P!Live(t) : g.scope = s}
<1>1. \A x \in rows : /\ x \in P!Leases /\ P!GrantOf(x).expiresAt = x.expiresAt
                      /\ x.expiresAt \in P!Instant
  BY GrantOfRow DEF TableTypeOK, P!Leases
<1>2. P!Contract!LiveAt(t) = P!Live(t)
  BY <1>1 DEF P!Contract!LiveAt, P!Live, TableTypeOK
<1> QED
  BY <1>2 DEF P!Contract!Holding

(* The counters of the contract are the newest tokens. *)
Counters == [s \in Scopes |-> P!TokenOf(s)]

LEMMA CounterIsNewest == TableInv => Counters = pgNewest
<1> SUFFICES ASSUME TableInv, NEW s \in Scopes PROVE P!TokenOf(s) = pgNewest[s]
  BY DEF Counters, TableInv, TableTypeOK
<1>1. CASE P!Row(s) = {}
  BY <1>1 DEF P!TokenOf, TableInv, P!RowIsNewest
<1>2. CASE P!Row(s) # {}
  <2>1. PICK x : x = CHOOSE y \in P!Row(s) : TRUE
    OBVIOUS
  <2>2. x \in rows /\ x.scope = s
    BY <1>2, <2>1 DEF P!Row
  <2> QED
    BY <1>2, <2>1, <2>2 DEF P!TokenOf, TableInv, P!RowIsNewest
<1> QED
  BY <1>1, <1>2

LEMMA CounterIsNewestNext == TableInv' => (Counters = pgNewest)'
BY CounterIsNewest, PTL

(* The contract's variables after a step that is in order. *)
LEMMA ViewPrime ==
  ASSUME TableInv, TableInv', NEW t \in P!Instant, P!At(t), inOrder'
  PROVE  /\ t >= latest /\ latest' = t
         /\ P!Live(latest)' = {P!GrantOf(x) : x \in {y \in rows' : y.expiresAt > t}}
         /\ Counters' = pgNewest'
<1>1. t >= latest /\ latest' = t
  BY Instants DEF TableInv
<1>2. P!Live(latest)' = {P!GrantOf(x) : x \in {y \in rows' : y.expiresAt > t}}
  BY <1>1 DEF P!Live, P!GrantOf
<1> QED
  BY <1>1, <1>2, CounterIsNewestNext

(* A transaction that leaves the table alone lets time pass. *)
LEMMA TableElapseStep ==
  ASSUME TableInv, TableInv', NEW t \in P!Instant, P!At(t), inOrder',
         UNCHANGED <<rows, pgNewest>>
  PROVE  P!Contract!Elapse(t)
<1>1. P!Live(latest)' = P!Live(t)
  BY ViewPrime DEF P!Live
<1>2. t >= latest /\ latest' = t /\ Counters' = Counters
  BY ViewPrime, CounterIsNewest
<1>3. P!Contract!LiveAt(t) = P!Live(t)
  BY <1>2, TableLiveLater DEF TableInv
<1> QED
  BY <1>1, <1>2, <1>3 DEF P!Contract!Elapse, Counters

(* The live leases when the row of scope s has become new. *)
LEMMA LiveAfterWrite ==
  ASSUME TableInv, TableInv', NEW t \in P!Instant, P!At(t), inOrder',
         NEW new \in P!Leases,
         rows' = (rows \ P!Row(new.scope)) \cup {new}
  PROVE  P!Live(latest)' =
           {g \in P!Contract!LiveAt(t) : g.scope # new.scope}
             \cup (IF new.expiresAt > t THEN {P!GrantOf(new)} ELSE {})
<1>1. \A x \in rows : x \in P!Leases /\ P!GrantOf(x).scope = x.scope
  BY GrantOfRow DEF TableInv, TableTypeOK
<1>2. P!Contract!LiveAt(t) = P!Live(t)
  BY TableLiveLater, ViewPrime DEF TableInv
<1>3. {g \in P!Live(t) : g.scope # new.scope}
        = {P!GrantOf(x) : x \in {y \in rows : y.expiresAt > t /\ y.scope # new.scope}}
  BY <1>1 DEF P!Live
<1>4. {y \in rows' : y.expiresAt > t}
        = {y \in rows : y.expiresAt > t /\ y.scope # new.scope}
            \cup (IF new.expiresAt > t THEN {new} ELSE {})
  BY DEF P!Row
<1>5. P!Live(latest)' = {P!GrantOf(x) : x \in {y \in rows' : y.expiresAt > t}}
  BY ViewPrime
<1> QED
  BY <1>2, <1>3, <1>4, <1>5

LEMMA GrantStep ==
  ASSUME TableInv, TableInv', NEW k \in Clients, NEW s \in Scopes, NEW o \in Owners,
         NEW l \in LeaseIds, NEW t \in P!Instant, NEW e \in P!Instant,
         P!Acquire(k, s, o, l, t, e), inOrder'
  PROVE  P!Contract!Elapse(t) \/ P!Contract!Grant(s, o, l, t, e)
<1>1. P!At(t) /\ e > t
  BY DEF P!Acquire
<1>2. CASE UNCHANGED <<rows, pgNewest>>
  BY <1>1, <1>2, TableElapseStep
<1>3. ASSUME NEW new, new = P!Upserted(s, o, l, t, e), P!SafeRow(new),
             {x \in P!Row(s) : x.expiresAt > t} = {}, P!Write(P!Row(s), new),
             P!Accept("ACQUIRED", P!ClaimOf(new), P!GrantOf(new), t)
      PROVE  P!Contract!Grant(s, o, l, t, e)
  <2>1. /\ new \in P!Leases /\ new.scope = s /\ new.owner = o /\ new.leaseId = l
        /\ new.fencingToken = pgNewest[s] + 1 /\ new.expiresAt = e
    BY <1>3, UpsertedRow
  <2>2. P!GrantOf(new) = [scope |-> s, owner |-> o, leaseId |-> l,
                          fencingToken |-> Counters[s] + 1, expiresAt |-> e]
    BY <2>1, CounterIsNewest DEF P!GrantOf
  <2>3. t >= latest /\ latest' = t /\ Counters' = pgNewest'
    BY <1>1, ViewPrime
  <2>4. Counters[s] = pgNewest[s] /\ Counters[s] < MaxSafeInteger
    BY <1>3, <2>1, CounterIsNewest DEF P!SafeRow, TableInv, TableTypeOK
  <2>5. Counters' = [Counters EXCEPT ![s] = Counters[s] + 1]
    <3>1. pgNewest' = [pgNewest EXCEPT ![s] = pgNewest[s] + 1]
      <4>1. pgNewest' = [pgNewest EXCEPT ![s] =
               IF pgNewest[s] + 1 > pgNewest[s] THEN pgNewest[s] + 1 ELSE pgNewest[s]]
        <5>1. P!GrantOf(new).scope = s /\ P!GrantOf(new).fencingToken = pgNewest[s] + 1
          BY <2>1, GrantOfRow
        <5> QED
          BY <1>3, <5>1 DEF P!Accept
      <4>2. pgNewest[s] + 1 > pgNewest[s]
        BY DEF TableInv, TableTypeOK
      <4> QED
        BY <4>1, <4>2
    <3> QED
      BY <3>1, <2>3, CounterIsNewest
  <2>6. P!Contract!Holding(s, t) = {}
    <3>1. P!Contract!Holding(s, t) = {g \in P!Live(t) : g.scope = s}
      BY <2>3, TableLiveLater DEF TableInv
    <3>2. \A x \in rows : x \in P!Leases /\ P!GrantOf(x).scope = x.scope
      BY GrantOfRow DEF TableInv, TableTypeOK
    <3> QED
      BY <1>3, <3>1, <3>2 DEF P!Live, P!Row
  <2>7. P!Live(latest)' = P!Contract!LiveAt(t) \cup {P!GrantOf(new)}
    <3>1. rows' = (rows \ P!Row(new.scope)) \cup {new}
      BY <1>3, <2>1 DEF P!Write
    <3>2. {g \in P!Contract!LiveAt(t) : g.scope # s} = P!Contract!LiveAt(t)
      BY <2>6 DEF P!Contract!Holding
    <3> QED
      BY <1>1, <2>1, <3>1, <3>2, LiveAfterWrite
  <2> QED
    BY <1>1, <2>2, <2>3, <2>4, <2>5, <2>6, <2>7 DEF P!Contract!Grant, Counters
<1> QED
  BY <1>2, <1>3 DEF P!Acquire, P!Refuse, P!Throws, P!Unanswered

(* The live lease of a scope with a matching row is the row's grant. *)
LEMMA HoldingIsMatch ==
  ASSUME TableInv, NEW c \in P!Claims, NEW t \in P!Instant, t >= latest,
         NEW x \in P!Matching(c, t)
  PROVE  /\ P!Contract!Holding(c.scope, t) = {P!GrantOf(x)}
         /\ P!Contract!LiveAt(t) \ {P!GrantOf(x)} =
              {g \in P!Contract!LiveAt(t) : g.scope # c.scope}
<1>1. x \in rows /\ x.scope = c.scope /\ x.expiresAt > t /\ P!Row(c.scope) = {x}
  BY MatchFacts
<1>2. \A y \in rows : P!GrantOf(y).scope = y.scope /\ (y.scope = c.scope => y = x)
  BY <1>1, GrantOfRow DEF TableInv, TableTypeOK, P!OneRowPerScope
<1>3. P!Contract!Holding(c.scope, t) = {g \in P!Live(t) : g.scope = c.scope}
      /\ P!Contract!LiveAt(t) = P!Live(t)
  BY TableLiveLater DEF TableInv
<1> QED
  BY <1>1, <1>2, <1>3 DEF P!Live

LEMMA ExtendStep ==
  ASSUME TableInv, TableInv', NEW k \in Clients, NEW c \in P!Claims, NEW t \in P!Instant,
         NEW e \in P!Instant, P!Renew(k, c, t, e), inOrder'
  PROVE  P!Contract!Elapse(t) \/ P!Contract!Extend(c.scope, t, e)
<1>1. P!At(t) /\ e > t
  BY DEF P!Renew
<1>2. CASE UNCHANGED <<rows, pgNewest>>
  BY <1>1, <1>2, TableElapseStep
<1>3. ASSUME NEW x \in P!Matching(c, t), NEW new,
             new = [x EXCEPT !.renewedAt = t, !.expiresAt = e], P!Write({x}, new),
             P!Accept("RENEWED", c, P!GrantOf(new), t)
      PROVE  P!Contract!Extend(c.scope, t, e)
  <2>1. x \in P!Leases /\ x.scope = c.scope /\ P!Row(c.scope) = {x}
        /\ pgNewest[c.scope] = x.fencingToken
    BY MatchFacts
  <2>2. /\ new \in P!Leases /\ new.scope = x.scope /\ new.owner = x.owner
        /\ new.leaseId = x.leaseId /\ new.fencingToken = x.fencingToken /\ new.expiresAt = e
    BY <1>3, <2>1 DEF P!Leases
  <2>3. t >= latest /\ latest' = t /\ Counters' = pgNewest' /\ Counters = pgNewest
    BY <1>1, ViewPrime, CounterIsNewest
  <2>4. pgNewest' = pgNewest
    <3>1. pgNewest' = [pgNewest EXCEPT ![c.scope] = pgNewest[c.scope]]
      BY <1>3, <2>1, <2>2, GrantOfRow DEF P!Accept
    <3> QED
      BY <3>1 DEF TableInv, TableTypeOK
  <2>5. /\ P!Contract!Holding(c.scope, t) = {P!GrantOf(x)}
        /\ P!Contract!LiveAt(t) \ {P!GrantOf(x)} =
             {g \in P!Contract!LiveAt(t) : g.scope # c.scope}
    BY <2>3, HoldingIsMatch
  <2>6. rows' = (rows \ P!Row(new.scope)) \cup {new}
    BY <1>3, <2>1, <2>2 DEF P!Write
  <2>7. P!Live(latest)' = {g \in P!Contract!LiveAt(t) : g.scope # c.scope}
                            \cup {P!GrantOf(new)}
    BY <1>1, <2>1, <2>2, <2>6, LiveAfterWrite
  <2>8. [P!GrantOf(x) EXCEPT !.expiresAt = e] = P!GrantOf(new)
    BY <2>1, <2>2 DEF P!GrantOf
  <2> QED
    BY <1>1, <2>3, <2>4, <2>5, <2>7, <2>8 DEF P!Contract!Extend, Counters
<1> QED
  BY <1>2, <1>3 DEF P!Renew, P!Miss, P!Throws, P!Unanswered

LEMMA EndStep ==
  ASSUME TableInv, TableInv', NEW k \in Clients, NEW c \in P!Claims, NEW t \in P!Instant,
         P!Release(k, c, t), inOrder'
  PROVE  P!Contract!Elapse(t) \/ P!Contract!End(c.scope, t)
<1>1. P!At(t)
  BY DEF P!Release
<1>2. CASE UNCHANGED <<rows, pgNewest>>
  BY <1>1, <1>2, TableElapseStep
<1>3. ASSUME NEW x \in P!Matching(c, t), NEW new, new = P!Released(x, t),
             P!Write({x}, new), P!Accept("RELEASED", c, P!GrantOf(x), t)
      PROVE  P!Contract!End(c.scope, t)
  <2>1. x \in P!Leases /\ x.scope = c.scope /\ P!Row(c.scope) = {x}
        /\ pgNewest[c.scope] = x.fencingToken
    BY MatchFacts
  <2>2. new \in P!Leases /\ new.scope = x.scope /\ new.expiresAt = t
    BY <1>3, <2>1 DEF P!Leases, P!Released
  <2>3. t >= latest /\ latest' = t /\ Counters' = pgNewest' /\ Counters = pgNewest
    BY <1>1, ViewPrime, CounterIsNewest
  <2>4. pgNewest' = pgNewest
    <3>1. pgNewest' = [pgNewest EXCEPT ![c.scope] = pgNewest[c.scope]]
      BY <1>3, <2>1, GrantOfRow DEF P!Accept
    <3> QED
      BY <3>1 DEF TableInv, TableTypeOK
  <2>5. /\ P!Contract!Holding(c.scope, t) = {P!GrantOf(x)}
        /\ P!Contract!LiveAt(t) \ {P!GrantOf(x)} =
             {g \in P!Contract!LiveAt(t) : g.scope # c.scope}
    BY <2>3, HoldingIsMatch
  <2>6. rows' = (rows \ P!Row(new.scope)) \cup {new}
    BY <1>3, <2>1, <2>2 DEF P!Write
  <2>7. P!Live(latest)' = {g \in P!Contract!LiveAt(t) : g.scope # c.scope}
    BY <1>1, <2>1, <2>2, <2>6, LiveAfterWrite
  <2> QED
    BY <2>3, <2>4, <2>5, <2>7 DEF P!Contract!End, Counters
<1> QED
  BY <1>2, <1>3 DEF P!Release, P!Miss, P!Throws, P!Unanswered

LEMMA ValidateRefines ==
  ASSUME TableInv, TableInv', NEW k \in Clients, NEW c \in P!Claims, NEW t \in P!Instant,
         P!Validate(k, c, t), inOrder'
  PROVE  P!Contract!Elapse(t)
<1>1. P!At(t) /\ UNCHANGED rows
  BY DEF P!Validate
<1>2. pgNewest' = pgNewest
  <2>1. ASSUME NEW x \in P!Matching(c, t), P!Accept("VALID", c, P!GrantOf(x), t)
        PROVE  pgNewest' = pgNewest
    <3>1. x \in P!Leases /\ x.scope = c.scope /\ pgNewest[c.scope] = x.fencingToken
      BY MatchFacts
    <3>2. pgNewest' = [pgNewest EXCEPT ![c.scope] = pgNewest[c.scope]]
      BY <2>1, <3>1, GrantOfRow DEF P!Accept
    <3> QED
      BY <3>2 DEF TableInv, TableTypeOK
  <2> QED
    BY <2>1 DEF P!Validate, P!Refuse
<1> QED
  BY <1>1, <1>2, TableElapseStep

LEMMA TableStepRefines ==
  TableInv /\ TableInv' /\ [P!Next]_P!vars =>
    [inOrder' => P!Contract!ContractNext]_<<latest, P!Live(latest), [s \in Scopes |-> P!TokenOf(s)]>>
<1> DEFINE view == <<latest, P!Live(latest), [s \in Scopes |-> P!TokenOf(s)]>>
<1>v. UNCHANGED <<rows, latest>> => UNCHANGED view
  BY DEF P!Live, P!GrantOf, P!TokenOf, P!Row
<1> HIDE DEF view
<1> SUFFICES ASSUME TableInv, TableInv', [P!Next]_P!vars, inOrder'
             PROVE  P!Contract!ContractNext \/ UNCHANGED <<rows, latest>>
  BY <1>v DEF view
<1>1. ASSUME NEW t \in P!Instant,
             \/ P!Contract!Elapse(t)
             \/ \E s \in Scopes :
                  \/ P!Contract!End(s, t)
                  \/ \E e \in P!Instant :
                       \/ P!Contract!Extend(s, t, e)
                       \/ \E o \in Owners, l \in LeaseIds :
                            P!Contract!Grant(s, o, l, t, e)
      PROVE  P!Contract!ContractNext
  BY <1>1 DEF P!Contract!ContractNext, P!Contract!Instant
<1>2. \A c \in P!Claims : c.scope \in Scopes
  BY DEF P!Claims
<1>3. CASE P!InvalidInput \/ (\E k \in Clients : P!RejectionFor(k)) \/ UNCHANGED P!vars
  BY <1>3 DEF P!InvalidInput, P!RejectionFor, P!tableVars, P!vars
<1>4. ASSUME NEW k \in Clients, NEW t \in P!Instant, NEW s \in Scopes, NEW o \in Owners,
             NEW l \in LeaseIds, NEW e \in P!Instant, P!Acquire(k, s, o, l, t, e)
      PROVE  P!Contract!ContractNext
  BY <1>1, <1>4, GrantStep
<1>5. ASSUME NEW k \in Clients, NEW t \in P!Instant, NEW c \in P!Claims,
             \/ \E e \in P!Instant : P!Renew(k, c, t, e)
             \/ P!Release(k, c, t) \/ P!Validate(k, c, t)
      PROVE  P!Contract!ContractNext
  BY <1>1, <1>2, <1>5, ExtendStep, EndStep, ValidateRefines
<1> QED
  BY <1>3, <1>4, <1>5 DEF P!Next

(* As long as the instants of the connections reach the table in order it  *)
(* implements the lease contract, with its unexpired rows as the granted   *)
(* leases and its tokens as the counters: acquire grants, renew extends,   *)
(* release ends, and everything else lets time pass.                       *)
THEOREM PostgresRefinementTheorem == P!Spec => PostgresImplementsContract
<1>1. P!Init => P!Contract!ContractInit
  BY DEF P!Init, P!Contract!ContractInit, P!Live, P!TokenOf, P!Row
<1> QED
  BY <1>1, TableStepRefines, TableInvariance, PTL
     DEF P!Spec, PostgresImplementsContract, P!ImplementsContract

HIDE DEF P!Instant, P!Token
-----------------------------------------------------------------------------
(***************************************************************************)
(* The store in memory behind its managers.                                *)
(***************************************************************************)
USE MaxSafeIntegerIsPositive, DurationsArePositive DEF Instant, Token

(* The initial state satisfies both invariants. *)
LEMMA InitInv == Init => TypeOK /\ LeaseInv
<1> SUFFICES ASSUME Init PROVE TypeOK /\ LeaseInv
  OBVIOUS
<1>1. reply \in Replies
  BY DEF Init, ClientInit, Replies, Refused, Reasons
<1>2. TypeOK
  BY <1>1 DEF Init, ClientInit, TypeOK, ClientTypeOK
<1>3. LeaseInv
  BY DEF Init, ClientInit, LeaseInv, OneEntryPerScope, EntryIsNewest,
         EntryIsTimely, BeliefsMatchStore
<1> QED
  BY <1>2, <1>3

(* A lease record yields a grant with the same fields. *)
LEMMA GrantOfType ==
  ASSUME NEW x \in Leases
  PROVE  /\ GrantOf(x) \in Grants
         /\ GrantOf(x).scope = x.scope
         /\ GrantOf(x).owner = x.owner
         /\ GrantOf(x).leaseId = x.leaseId
         /\ GrantOf(x).fencingToken = x.fencingToken
         /\ GrantOf(x).expiresAt = x.expiresAt
BY DEF GrantOf, Leases, Grants

(* What the callers' history becomes stays well typed. *)
LEMMA AcceptType ==
  ASSUME ClientTypeOK, NEW g \in Grants, NEW t \in Instant,
         NEW d \in Accepted, NEW k \in Claims, Accept(d, k, g, t)
  PROVE  ClientTypeOK'
<1>1. reply' \in Replies
  BY DEF Accept, Replies
<1>2. told' \subseteq Grants
  BY DEF Accept, StillTold, ClientTypeOK
<1>3. newest' \in [Scopes -> Instant]
  BY DEF Accept, ClientTypeOK, Grants
<1> QED
  BY <1>1, <1>2, <1>3 DEF ClientTypeOK

LEMMA RefuseType ==
  ASSUME ClientTypeOK, NEW s \in Scopes, NEW t \in Instant,
         NEW d \in Refused, NEW r \in Reasons, Refuse(d, r, s, t)
  PROVE  ClientTypeOK'
BY DEF Refuse, StillTold, ClientTypeOK, Replies

LEMMA UnansweredType ==
  ASSUME ClientTypeOK, NEW r \in Reasons, Unanswered(r)
  PROVE  ClientTypeOK'
BY DEF Unanswered, ClientTypeOK, Replies, Refused

StoreTypeOK ==
  /\ ClientTypeOK
  /\ leases \subseteq Leases
  /\ fencingCounters \in [Scopes -> Instant]
  /\ lastObservedAt \in Instant

(* Steps the store does not take part in leave the invariant alone. *)
LEMMA UnansweredInv ==
  ASSUME StoreTypeOK, LeaseInv, NEW r \in Reasons, Unanswered(r),
         UNCHANGED storeVars
  PROVE  StoreTypeOK' /\ LeaseInv'
<1>1. StoreTypeOK'
  BY UnansweredType DEF StoreTypeOK, storeVars
<1>2. LeaseInv'
  BY DEF LeaseInv, OneEntryPerScope, EntryIsNewest, EntryIsTimely,
         BeliefsMatchStore, GrantOf, Unanswered, storeVars
<1> QED
  BY <1>1, <1>2

(* A refusal: the scope's entry stays, or goes because it has expired. *)
LEMMA RefusesInv ==
  ASSUME StoreTypeOK, LeaseInv, NEW c \in Claims, NEW t \in Instant,
         ObserveClock(t), StoreRefuses(c, t)
  PROVE  StoreTypeOK' /\ LeaseInv'
<1> USE DEF StoreTypeOK
<1>0. c.scope \in Scopes
  BY DEF Claims
<1>1. /\ leases' \subseteq leases
      /\ \A x \in leases \ leases' : ExpiredAt(x, t) /\ x.scope = c.scope
      /\ \A x \in leases' : x.scope = c.scope => ~ExpiredAt(x, t)
  BY DEF StoreRefuses, Entry, LeaseInv, OneEntryPerScope
<1>2. /\ fencingCounters' = fencingCounters /\ newest' = newest
      /\ told' = StillTold(c.scope, t)
      /\ t >= lastObservedAt /\ lastObservedAt' = t
  BY DEF StoreRefuses, Refuse, ObserveClock
<1>3. ClientTypeOK'
  <2>1. \E d \in Refused, r \in Reasons : Refuse(d, r, c.scope, t)
    BY DEF StoreRefuses, IdentityReason, Refused, Reasons
  <2> QED
    BY <1>0, <2>1, RefuseType
<1>4. StoreTypeOK'
  BY <1>1, <1>2, <1>3
<1>5. OneEntryPerScope' /\ EntryIsNewest' /\ EntryIsTimely'
  <2>1. OneEntryPerScope'
    BY <1>1 DEF LeaseInv, OneEntryPerScope
  <2>2. EntryIsNewest'
    BY <1>1, <1>2 DEF LeaseInv, EntryIsNewest
  <2>3. EntryIsTimely'
    BY <1>1, <1>2 DEF LeaseInv, EntryIsTimely, Leases
  <2> QED
    BY <2>1, <2>2, <2>3
<1>6. BeliefsMatchStore'
  <2>1. \A x \in leases' : GrantOf(x) \in told'
    BY <1>1, <1>2, GrantOfType
       DEF LeaseInv, BeliefsMatchStore, StillTold, ExpiredAt, Leases
  <2>2. ASSUME NEW g \in told', g.expiresAt > lastObservedAt'
        PROVE  \E x \in leases' : GrantOf(x) = g
    <3>1. g \in told /\ g.expiresAt > t /\ g.expiresAt > lastObservedAt
      BY <1>2, <2>2 DEF StillTold, ClientTypeOK, Grants
    <3>2. PICK x \in leases : GrantOf(x) = g
      BY <3>1 DEF LeaseInv, BeliefsMatchStore
    <3>3. x \in leases'
      BY <1>1, <3>1, <3>2, GrantOfType DEF ExpiredAt, Leases
    <3> QED
      BY <3>2, <3>3
  <2>3. newest' = fencingCounters'
    BY <1>2 DEF LeaseInv, BeliefsMatchStore
  <2> QED
    BY <2>1, <2>2, <2>3 DEF BeliefsMatchStore, GrantOf
<1> QED
  BY <1>4, <1>5, <1>6 DEF LeaseInv

(* The common shape of an accepted operation on scope s: its entry becomes *)
(* N (nothing, or one lease), and so do the beliefs about s that last      *)
(* beyond the instant of the decision.                                     *)
LEMMA ReplaceInv ==
  ASSUME StoreTypeOK, LeaseInv, NEW s \in Scopes, NEW t \in Instant,
         ObserveClock(t), ClientTypeOK',
         NEW N \in SUBSET Leases,
         \A x, y \in N : x = y,
         \A x \in N : /\ x.scope = s
                      /\ x.fencingToken = fencingCounters'[s]
                      /\ x.acquiredAt <= x.renewedAt /\ x.renewedAt <= t,
         leases' = {x \in leases : x.scope # s} \cup N,
         fencingCounters' \in [Scopes -> Instant],
         \A q \in Scopes \ {s} : fencingCounters'[q] = fencingCounters[q],
         newest' = fencingCounters',
         \A g \in Grants : g.scope # s => (g \in told' <=> g \in told),
         \A x \in N : GrantOf(x) \in told',
         \A g \in told' : g.scope = s /\ g.expiresAt > t =>
            \E x \in N : GrantOf(x) = g
  PROVE  StoreTypeOK' /\ LeaseInv'
<1> USE DEF StoreTypeOK
<1>1. t >= lastObservedAt /\ lastObservedAt' = t
  BY DEF ObserveClock
<1>2. StoreTypeOK'
  BY <1>1
<1>3. OneEntryPerScope'
  BY DEF LeaseInv, OneEntryPerScope
<1>4. EntryIsNewest'
  BY DEF LeaseInv, EntryIsNewest, Leases
<1>5. EntryIsTimely'
  BY <1>1 DEF LeaseInv, EntryIsTimely, Leases
<1>6. \A x \in leases' : GrantOf(x) \in told'
  BY GrantOfType DEF LeaseInv, BeliefsMatchStore
<1>7. ASSUME NEW g \in told', g.expiresAt > lastObservedAt'
      PROVE  \E x \in leases' : GrantOf(x) = g
  <2>1. g \in Grants
    BY DEF ClientTypeOK
  <2>2. CASE g.scope = s
    BY <1>1, <1>7, <2>2
  <2>3. CASE g.scope # s
    <3>1. g \in told /\ g.expiresAt > lastObservedAt
      BY <1>1, <1>7, <2>1, <2>3 DEF Grants
    <3>2. PICK x \in leases : GrantOf(x) = g
      BY <3>1 DEF LeaseInv, BeliefsMatchStore
    <3> QED
      BY <2>3, <3>2, GrantOfType
  <2> QED
    BY <2>2, <2>3
<1> QED
  BY <1>2, <1>3, <1>4, <1>5, <1>6, <1>7
     DEF LeaseInv, BeliefsMatchStore, GrantOf

(* What is known of the holder of a claim: it is the scope's only entry,   *)
(* and the only unexpired belief about the scope is its grant.             *)
LEMMA HolderFacts ==
  ASSUME StoreTypeOK, LeaseInv, NEW c \in Claims, NEW t \in Instant,
         t >= lastObservedAt, NEW x \in Holder(c, t)
  PROVE  /\ x \in leases /\ x \in Leases
         /\ x.scope = c.scope /\ x.scope \in Scopes
         /\ SameClaim(GrantOf(x), c)
         /\ x.expiresAt > t
         /\ x.fencingToken = fencingCounters[x.scope]
         /\ x.acquiredAt <= x.renewedAt /\ x.renewedAt <= t
         /\ leases = {y \in leases : y.scope # c.scope} \cup {x}
         /\ GrantOf(x) \in told
         /\ \A g \in told : g.scope = c.scope /\ g.expiresAt > t => g = GrantOf(x)
<1> USE DEF StoreTypeOK
<1>1. /\ x \in leases /\ x \in Leases /\ x.scope = c.scope
      /\ x.scope \in Scopes /\ x.expiresAt > t
      /\ IdentityReason(x, c) = "OK"
  BY DEF Holder, Entry, ExpiredAt, Leases
<1>2. SameClaim(GrantOf(x), c)
  BY <1>1, GrantOfType DEF IdentityReason, SameClaim
<1>3. x.fencingToken = fencingCounters[x.scope]
  BY <1>1 DEF LeaseInv, EntryIsNewest
<1>4. x.acquiredAt <= x.renewedAt /\ x.renewedAt <= t
  BY <1>1 DEF LeaseInv, EntryIsTimely, Leases
<1>5. leases = {y \in leases : y.scope # c.scope} \cup {x}
  BY <1>1 DEF LeaseInv, OneEntryPerScope
<1>6. GrantOf(x) \in told
  BY <1>1 DEF LeaseInv, BeliefsMatchStore
<1>7. ASSUME NEW g \in told, g.scope = c.scope, g.expiresAt > t
      PROVE  g = GrantOf(x)
  <2>1. g.expiresAt > lastObservedAt
    BY <1>7 DEF ClientTypeOK, Grants
  <2>2. PICK y \in leases : GrantOf(y) = g
    BY <2>1 DEF LeaseInv, BeliefsMatchStore
  <2>3. y = x
    BY <1>1, <1>7, <2>2, GrantOfType DEF LeaseInv, OneEntryPerScope
  <2> QED
    BY <2>2, <2>3
<1> QED
  BY <1>1, <1>2, <1>3, <1>4, <1>5, <1>6, <1>7

(* Beliefs about other scopes survive an accepted operation on s. *)
LEMMA AcceptFrame ==
  ASSUME NEW d \in Accepted, NEW h \in Grants, NEW t \in Instant,
         NEW k, Accept(d, k, h, t)
  PROVE  \A g \in Grants : g.scope # h.scope => (g \in told' <=> g \in told)
BY DEF Accept, StillTold, SameClaim

(* The holder's lease becomes y, with the same claim, and is answered. *)
LEMMA HolderAnsweredInv ==
  ASSUME StoreTypeOK, LeaseInv, NEW c \in Claims, NEW t \in Instant,
         ObserveClock(t), NEW x \in Holder(c, t), NEW y \in Leases,
         SameClaim(GrantOf(y), GrantOf(x)),
         y.acquiredAt <= y.renewedAt, y.renewedAt <= t,
         NEW d \in Accepted, d # "RELEASED", Accept(d, c, GrantOf(y), t),
         leases' = {z \in leases : z.scope # c.scope} \cup {y},
         fencingCounters' = fencingCounters
  PROVE  StoreTypeOK' /\ LeaseInv'
<1>1. t >= lastObservedAt
  BY DEF ObserveClock
<1>2. /\ x \in Leases /\ x.scope = c.scope /\ x.scope \in Scopes
      /\ x.fencingToken = fencingCounters[c.scope]
      /\ \A g \in told : g.scope = c.scope /\ g.expiresAt > t => g = GrantOf(x)
  BY <1>1, HolderFacts
<1>3. /\ y.scope = c.scope /\ y.fencingToken = fencingCounters[c.scope]
      /\ GrantOf(y) \in Grants /\ GrantOf(y).scope = c.scope
      /\ GrantOf(y).fencingToken = fencingCounters[c.scope]
  BY <1>2, GrantOfType DEF SameClaim
<1>4. newest' = fencingCounters'
  <2>1. newest = fencingCounters /\ fencingCounters \in [Scopes -> Instant]
    BY DEF LeaseInv, BeliefsMatchStore, StoreTypeOK
  <2> QED
    BY <1>3, <2>1 DEF Accept
<1>5. told' = {g \in StillTold(c.scope, t) : ~SameClaim(g, GrantOf(y))}
                \cup {GrantOf(y)}
  BY <1>3 DEF Accept
<1>6. \A g \in told' : g.scope = c.scope /\ g.expiresAt > t => g = GrantOf(y)
  BY <1>2, <1>5 DEF StillTold, SameClaim
<1>7. ClientTypeOK'
  BY <1>3, AcceptType DEF StoreTypeOK
<1>8. \A g \in Grants : g.scope # c.scope => (g \in told' <=> g \in told)
  BY <1>3, AcceptFrame
<1>9. c.scope \in Scopes /\ fencingCounters' \in [Scopes -> Instant]
  BY <1>2 DEF StoreTypeOK
<1> DEFINE N == {y}
<1>10. /\ N \in SUBSET Leases
       /\ \A z, w \in N : z = w
       /\ \A z \in N : /\ z.scope = c.scope
                       /\ z.fencingToken = fencingCounters'[c.scope]
                       /\ z.acquiredAt <= z.renewedAt /\ z.renewedAt <= t
       /\ leases' = {z \in leases : z.scope # c.scope} \cup N
       /\ \A z \in N : GrantOf(z) \in told'
       /\ \A g \in told' : g.scope = c.scope /\ g.expiresAt > t =>
            \E z \in N : GrantOf(z) = g
  BY <1>3, <1>5, <1>6
<1> HIDE DEF N
<1>11. \A q \in Scopes \ {c.scope} : fencingCounters'[q] = fencingCounters[q]
  OBVIOUS
<1> QED
  BY <1>4, <1>7, <1>8, <1>9, <1>10, <1>11, ReplaceInv

LEMMA ValidateInv ==
  ASSUME StoreTypeOK, LeaseInv, NEW c \in Claims, NEW t \in Instant,
         StoreValidate(c, t)
  PROVE  StoreTypeOK' /\ LeaseInv'
<1>1. CASE StoreRefuses(c, t)
  BY <1>1, RefusesInv DEF StoreValidate
<1>2. ASSUME NEW x \in Holder(c, t), AnswerWith("VALID", c, x, t),
             UNCHANGED <<leases, fencingCounters>>
      PROVE  StoreTypeOK' /\ LeaseInv'
  <2>1. ObserveClock(t) /\ t >= lastObservedAt
    BY DEF StoreValidate, ObserveClock
  <2>2. Accept("VALID", c, GrantOf(x), t)
    BY <1>2, <2>1, HolderFacts DEF AnswerWith, ValidLeaseForScope
  <2>3. /\ x \in Leases /\ x.acquiredAt <= x.renewedAt /\ x.renewedAt <= t
        /\ leases' = {z \in leases : z.scope # c.scope} \cup {x}
    BY <1>2, <2>1, HolderFacts
  <2>4. SameClaim(GrantOf(x), GrantOf(x)) /\ "VALID" \in Accepted
    BY DEF SameClaim, Accepted
  <2> QED
    BY <1>2, <2>1, <2>2, <2>3, <2>4, HolderAnsweredInv
<1> QED
  BY <1>1, <1>2 DEF StoreValidate

(* A renewed lease is a lease with the same claim. *)
LEMMA RenewedType ==
  ASSUME NEW x \in Leases, NEW t \in Instant, NEW e \in Instant
  PROVE  LET w == Renewed(x, t, e)
         IN  /\ w \in Leases /\ w.scope = x.scope /\ w.owner = x.owner
             /\ w.leaseId = x.leaseId /\ w.fencingToken = x.fencingToken
             /\ w.acquiredAt = x.acquiredAt
             /\ w.renewedAt = t /\ w.expiresAt = e
<1> DEFINE z == [x EXCEPT !.renewedAt = t]
<1>1. /\ z \in Leases /\ z.scope = x.scope /\ z.owner = x.owner
      /\ z.leaseId = x.leaseId /\ z.fencingToken = x.fencingToken
      /\ z.acquiredAt = x.acquiredAt /\ z.renewedAt = t
  BY DEF Leases
<1> DEFINE y == [z EXCEPT !.expiresAt = e]
<1>2. Renewed(x, t, e) = y
  BY DEF Renewed
<1> HIDE DEF z
<1>3. /\ y \in Leases /\ y.scope = z.scope /\ y.owner = z.owner
      /\ y.leaseId = z.leaseId /\ y.fencingToken = z.fencingToken
      /\ y.acquiredAt = z.acquiredAt /\ y.renewedAt = z.renewedAt
      /\ y.expiresAt = e
  BY <1>1 DEF Leases
<1> QED
  BY <1>1, <1>2, <1>3

LEMMA RenewInv ==
  ASSUME StoreTypeOK, LeaseInv, NEW c \in Claims, NEW t \in Instant,
         NEW e \in Instant, e > t, StoreRenew(c, t, e)
  PROVE  StoreTypeOK' /\ LeaseInv'
<1>1. CASE StoreRefuses(c, t)
  BY <1>1, RefusesInv DEF StoreRenew
<1>2. ASSUME NEW x \in Holder(c, t),
             leases' = (leases \ {x}) \cup {Renewed(x, t, e)},
             AnswerWith("RENEWED", c, Renewed(x, t, e), t),
             UNCHANGED fencingCounters
      PROVE  StoreTypeOK' /\ LeaseInv'
  <2> DEFINE y == Renewed(x, t, e)
  <2>1. ObserveClock(t) /\ t >= lastObservedAt
    BY DEF StoreRenew, ObserveClock
  <2>2. /\ x \in Leases /\ x.acquiredAt <= x.renewedAt /\ x.renewedAt <= t
        /\ x \in leases /\ x.scope = c.scope
        /\ leases = {z \in leases : z.scope # c.scope} \cup {x}
    BY <2>1, HolderFacts
  <2>4. leases' = (leases \ {x}) \cup {y} /\ AnswerWith("RENEWED", c, y, t)
        /\ fencingCounters' = fencingCounters
    BY <1>2
  <2>8. /\ y \in Leases /\ y.scope = x.scope /\ y.owner = x.owner
        /\ y.leaseId = x.leaseId /\ y.fencingToken = x.fencingToken
        /\ y.acquiredAt = x.acquiredAt
        /\ y.renewedAt = t /\ y.expiresAt = e
    BY <2>2, RenewedType
  <2> HIDE DEF y
  <2>3. /\ y \in Leases /\ y.scope = x.scope /\ y.owner = x.owner
        /\ y.leaseId = x.leaseId /\ y.fencingToken = x.fencingToken
        /\ y.acquiredAt <= y.renewedAt /\ y.renewedAt <= t /\ y.expiresAt > t
    BY <2>2, <2>8 DEF Leases
  <2>5. Accept("RENEWED", c, GrantOf(y), t)
    BY <2>3, <2>4 DEF AnswerWith, ValidLeaseForScope
  <2>6. SameClaim(GrantOf(y), GrantOf(x)) /\ "RENEWED" \in Accepted
    BY <2>2, <2>3, GrantOfType DEF SameClaim, Accepted
  <2>7. leases' = {z \in leases : z.scope # c.scope} \cup {y}
    BY <2>2, <2>4
  <2> QED
    BY <2>1, <2>3, <2>4, <2>5, <2>6, <2>7, HolderAnsweredInv
<1> QED
  BY <1>1, <1>2 DEF StoreRenew

LEMMA ReleaseInv ==
  ASSUME StoreTypeOK, LeaseInv, NEW c \in Claims, NEW t \in Instant,
         StoreRelease(c, t)
  PROVE  StoreTypeOK' /\ LeaseInv'
<1>1. CASE StoreRefuses(c, t)
  BY <1>1, RefusesInv DEF StoreRelease
<1>2. ASSUME NEW x \in Holder(c, t), leases' = leases \ {x},
             Accept("RELEASED", c, GrantOf(x), t), UNCHANGED fencingCounters
      PROVE  StoreTypeOK' /\ LeaseInv'
  <2>1. ObserveClock(t) /\ t >= lastObservedAt
    BY DEF StoreRelease, ObserveClock
  <2>2. /\ x \in Leases /\ x \in leases /\ x.scope = c.scope
        /\ c.scope \in Scopes
        /\ x.fencingToken = fencingCounters[c.scope]
        /\ leases = {z \in leases : z.scope # c.scope} \cup {x}
        /\ \A g \in told : g.scope = c.scope /\ g.expiresAt > t
                             => g = GrantOf(x)
    BY <2>1, HolderFacts
  <2>3. /\ GrantOf(x) \in Grants /\ GrantOf(x).scope = c.scope
        /\ GrantOf(x).fencingToken = fencingCounters[c.scope]
    BY <2>2, GrantOfType
  <2>4. newest' = fencingCounters'
    <3>1. newest = fencingCounters /\ fencingCounters \in [Scopes -> Instant]
      BY DEF LeaseInv, BeliefsMatchStore, StoreTypeOK
    <3> QED
      BY <1>2, <2>3, <3>1 DEF Accept
  <2>5. told' = {g \in StillTold(c.scope, t) : ~SameClaim(g, GrantOf(x))}
    BY <1>2, <2>3 DEF Accept
  <2>6. \A g \in told' : ~(g.scope = c.scope /\ g.expiresAt > t)
    BY <2>2, <2>5 DEF StillTold, SameClaim
  <2>7. "RELEASED" \in Accepted
    BY DEF Accepted
  <2>8. ClientTypeOK'
    BY <1>2, <2>3, <2>7, AcceptType DEF StoreTypeOK
  <2>9. \A g \in Grants : g.scope # c.scope => (g \in told' <=> g \in told)
    BY <1>2, <2>3, <2>7, AcceptFrame
  <2> DEFINE N == {}
  <2>10. /\ N \in SUBSET Leases
         /\ \A z, w \in N : z = w
         /\ \A z \in N : /\ z.scope = c.scope
                         /\ z.fencingToken = fencingCounters'[c.scope]
                         /\ z.acquiredAt <= z.renewedAt /\ z.renewedAt <= t
         /\ \A z \in N : GrantOf(z) \in told'
         /\ \A g \in told' : g.scope = c.scope /\ g.expiresAt > t =>
              \E z \in N : GrantOf(z) = g
    BY <2>6
  <2>11. leases' = {z \in leases : z.scope # c.scope} \cup N
    BY <1>2, <2>2
  <2> HIDE DEF N
  <2>12. /\ fencingCounters' \in [Scopes -> Instant]
         /\ \A q \in Scopes \ {c.scope} : fencingCounters'[q] = fencingCounters[q]
    BY <1>2 DEF StoreTypeOK
  <2> QED
    BY <2>1, <2>2, <2>4, <2>8, <2>9, <2>10, <2>11, <2>12, ReplaceInv
<1> QED
  BY <1>1, <1>2 DEF StoreRelease

(* A new lease replaces an expired entry, or none. *)
LEMMA AcquireInv ==
  ASSUME StoreTypeOK, LeaseInv, NEW s \in Scopes, NEW o \in Owners,
         NEW l \in LeaseIds, NEW t \in Instant, NEW e \in Instant, e > t,
         StoreAcquire(s, o, l, t, e)
  PROVE  StoreTypeOK' /\ LeaseInv'
<1> DEFINE active == {x \in Entry(s) : ~ExpiredAt(x, t)}
           kept   == leases \ {x \in Entry(s) : ExpiredAt(x, t)}
           lease  == [scope |-> s, owner |-> o, leaseId |-> l,
                      fencingToken |-> fencingCounters[s] + 1,
                      acquiredAt |-> t, renewedAt |-> t, expiresAt |-> e]
<1>1. ObserveClock(t) /\ t >= lastObservedAt /\ lastObservedAt' = t
  BY DEF StoreAcquire, ObserveClock
<1>2. ASSUME NEW x \in active,
             IF ~ValidLeaseForScope(x, t)
             THEN Unanswered("STORE_UNAVAILABLE")
             ELSE Refuse(IF x.owner = o /\ x.leaseId = l
                         THEN "ALREADY_HELD" ELSE "CONTENDED",
                         "LEASE_ACTIVE", s, t),
             UNCHANGED <<leases, fencingCounters>>
      PROVE  StoreTypeOK' /\ LeaseInv'
  <2>1. /\ x \in leases /\ x \in Leases /\ x.scope = s /\ x.expiresAt > t
        /\ x.acquiredAt <= x.renewedAt /\ x.renewedAt <= t
    BY <1>1 DEF Entry, ExpiredAt, StoreTypeOK, Leases, LeaseInv, EntryIsTimely
  <2>2. PICK d \in {"ALREADY_HELD", "CONTENDED"} : Refuse(d, "LEASE_ACTIVE", s, t)
    BY <1>2, <2>1 DEF ValidLeaseForScope
  <2>3. ClientTypeOK'
    BY <2>2, RefuseType DEF Refused, Reasons, StoreTypeOK
  <2>4. StoreTypeOK'
    BY <1>1, <1>2, <2>3 DEF StoreTypeOK
  <2>5. told' = StillTold(s, t) /\ newest' = newest
    BY <2>2 DEF Refuse
  <2>6. OneEntryPerScope' /\ EntryIsNewest'
    BY <1>2 DEF LeaseInv, OneEntryPerScope, EntryIsNewest
  <2>7. EntryIsTimely'
    BY <1>1, <1>2 DEF LeaseInv, EntryIsTimely, StoreTypeOK, Leases
  <2>8. \A y \in leases' : GrantOf(y) \in told'
    BY <1>2, <2>1, <2>5, GrantOfType
       DEF LeaseInv, OneEntryPerScope, BeliefsMatchStore, StillTold, StoreTypeOK
  <2>9. \A g \in told' : g.expiresAt > lastObservedAt' =>
          \E y \in leases' : GrantOf(y) = g
    BY <1>1, <1>2, <2>5
       DEF LeaseInv, BeliefsMatchStore, StillTold, StoreTypeOK, ClientTypeOK, Grants
  <2>10. newest' = fencingCounters'
    BY <1>2, <2>5 DEF LeaseInv, BeliefsMatchStore
  <2> QED
    BY <2>4, <2>6, <2>7, <2>8, <2>9, <2>10 DEF LeaseInv, BeliefsMatchStore, GrantOf
<1>3. ASSUME active = {}
      PROVE  /\ kept = {x \in leases : x.scope # s}
             /\ \A g \in told : g.scope = s => ~(g.expiresAt > t)
  <2>1. kept = {x \in leases : x.scope # s}
    BY <1>3 DEF Entry
  <2>2. ASSUME NEW g \in told, g.scope = s, g.expiresAt > t
        PROVE  FALSE
    <3>1. g.expiresAt > lastObservedAt
      BY <1>1, <2>2 DEF StoreTypeOK, ClientTypeOK, Grants
    <3>2. PICK y \in leases : GrantOf(y) = g
      BY <3>1 DEF LeaseInv, BeliefsMatchStore
    <3>3. y \in Leases /\ y.scope = s /\ y.expiresAt > t
      BY <2>2, <3>2, GrantOfType DEF StoreTypeOK
    <3> QED
      BY <1>3, <3>2, <3>3 DEF Entry, ExpiredAt, Leases
  <2> QED
    BY <2>1, <2>2
<1>4. ASSUME active = {}, leases' = kept, Unanswered("STORE_UNAVAILABLE"),
             UNCHANGED fencingCounters
      PROVE  StoreTypeOK' /\ LeaseInv'
  <2>1. ClientTypeOK'
    BY <1>4, UnansweredType DEF Reasons, StoreTypeOK
  <2>2. told' = told /\ newest' = newest
    BY <1>4 DEF Unanswered
  <2>3. leases' = {x \in leases : x.scope # s}
    BY <1>3, <1>4
  <2>4. StoreTypeOK'
    BY <1>1, <1>4, <2>1, <2>3 DEF StoreTypeOK
  <2>5. OneEntryPerScope' /\ EntryIsNewest'
    BY <1>4, <2>3 DEF LeaseInv, OneEntryPerScope, EntryIsNewest
  <2>6. EntryIsTimely'
    BY <1>1, <2>3 DEF LeaseInv, EntryIsTimely, StoreTypeOK, Leases
  <2>7. \A y \in leases' : GrantOf(y) \in told'
    BY <2>2, <2>3 DEF LeaseInv, BeliefsMatchStore
  <2>8. ASSUME NEW g \in told', g.expiresAt > lastObservedAt'
        PROVE  \E y \in leases' : GrantOf(y) = g
    <3>1. g \in told /\ g.scope # s /\ g.expiresAt > lastObservedAt
      BY <1>1, <1>3, <1>4, <2>2, <2>8 DEF StoreTypeOK, ClientTypeOK, Grants
    <3>2. PICK y \in leases : GrantOf(y) = g
      BY <3>1 DEF LeaseInv, BeliefsMatchStore
    <3> QED
      BY <2>3, <3>1, <3>2, GrantOfType DEF StoreTypeOK
  <2>9. newest' = fencingCounters'
    BY <1>4, <2>2 DEF LeaseInv, BeliefsMatchStore
  <2> QED
    BY <2>4, <2>5, <2>6, <2>7, <2>8, <2>9 DEF LeaseInv, BeliefsMatchStore, GrantOf
<1>5. ASSUME active = {}, ~TokensExhausted(s),
             fencingCounters' = [fencingCounters EXCEPT
                                   ![s] = fencingCounters[s] + 1],
             leases' = kept \cup {lease}, AnswerWith("ACQUIRED", ClaimOf(lease), lease, t)
      PROVE  StoreTypeOK' /\ LeaseInv'
  <2>0. fencingCounters[s] < MaxSafeInteger
    BY <1>5 DEF TokensExhausted, StoreTypeOK
  <2>1. /\ lease \in Leases /\ lease.scope = s
        /\ lease.fencingToken = fencingCounters[s] + 1
        /\ lease.acquiredAt = t /\ lease.renewedAt = t /\ lease.expiresAt = e
    BY <1>5, <2>0 DEF Leases, StoreTypeOK
  <2>2. leases' = {x \in leases : x.scope # s} \cup {lease}
    BY <1>3, <1>5
  <2>3. AnswerWith("ACQUIRED", ClaimOf(lease), lease, t)
    BY <1>5
  <2> HIDE DEF lease
  <2>4. Accept("ACQUIRED", ClaimOf(lease), GrantOf(lease), t)
    BY <2>1, <2>3 DEF AnswerWith, ValidLeaseForScope
  <2>5. /\ GrantOf(lease) \in Grants /\ GrantOf(lease).scope = s
        /\ GrantOf(lease).fencingToken = fencingCounters[s] + 1
    BY <2>1, GrantOfType
  <2>6. "ACQUIRED" \in Accepted /\ ClaimOf(lease) \in Claims
    BY <2>1 DEF Accepted, ClaimOf, Claims, Leases
  <2>7. ClientTypeOK'
    BY <2>4, <2>5, <2>6, AcceptType DEF StoreTypeOK
  <2>8. \A g \in Grants : g.scope # s => (g \in told' <=> g \in told)
    BY <2>4, <2>5, <2>6, AcceptFrame
  <2>9. /\ fencingCounters' \in [Scopes -> Instant]
        /\ fencingCounters'[s] = fencingCounters[s] + 1
        /\ \A q \in Scopes \ {s} : fencingCounters'[q] = fencingCounters[q]
    BY <1>5, <2>0 DEF StoreTypeOK
  <2>10. newest' = fencingCounters'
    <3>1. newest = fencingCounters /\ fencingCounters \in [Scopes -> Instant]
      BY DEF LeaseInv, BeliefsMatchStore, StoreTypeOK
    <3>2. newest' = [newest EXCEPT ![s] = fencingCounters[s] + 1]
      <4> DEFINE g == GrantOf(lease)
      <4>1. g.scope = s /\ g.fencingToken = newest[s] + 1 /\ newest[s] \in Nat
        BY <2>5, <3>1
      <4>2. newest' = [newest EXCEPT ![g.scope] =
                         IF g.fencingToken > newest[g.scope]
                         THEN g.fencingToken ELSE newest[g.scope]]
        BY <2>4 DEF Accept
      <4> HIDE DEF g
      <4>3. (IF g.fencingToken > newest[s] THEN g.fencingToken ELSE newest[s])
              = newest[s] + 1
        BY <4>1
      <4>4. newest' = [newest EXCEPT ![s] = newest[s] + 1]
        BY <4>1, <4>2, <4>3 DEF g
      <4> QED
        BY <3>1, <4>4
    <3> QED
      BY <1>5, <3>1, <3>2
  <2>11. told' = {g \in StillTold(s, t) : ~SameClaim(g, GrantOf(lease))}
                   \cup {GrantOf(lease)}
    BY <2>4, <2>5 DEF Accept
  <2>12. \A g \in told' : g.scope = s /\ g.expiresAt > t => g = GrantOf(lease)
    BY <1>3, <1>5, <2>11 DEF StillTold
  <2> DEFINE N == {lease}
  <2>13. /\ N \in SUBSET Leases
         /\ \A z, w \in N : z = w
         /\ \A z \in N : /\ z.scope = s
                         /\ z.fencingToken = fencingCounters'[s]
                         /\ z.acquiredAt <= z.renewedAt /\ z.renewedAt <= t
         /\ leases' = {z \in leases : z.scope # s} \cup N
         /\ \A z \in N : GrantOf(z) \in told'
         /\ \A g \in told' : g.scope = s /\ g.expiresAt > t =>
              \E z \in N : GrantOf(z) = g
    BY <2>1, <2>2, <2>9, <2>11, <2>12
  <2> HIDE DEF N
  <2> QED
    BY <1>1, <2>7, <2>8, <2>9, <2>10, <2>13, ReplaceInv
<1> QED
  BY <1>2, <1>4, <1>5 DEF StoreAcquire

-----------------------------------------------------------------------------
(* Every step of the system preserves the types and the invariant. *)
LEMMA StepInv == TypeOK /\ LeaseInv /\ [Next]_vars => (TypeOK /\ LeaseInv)'
<1> SUFFICES ASSUME TypeOK, LeaseInv, [Next]_vars
             PROVE  TypeOK' /\ LeaseInv'
  OBVIOUS
<1>1. StoreTypeOK /\ managerClock \in [Managers -> Instant]
  BY DEF TypeOK, StoreTypeOK
<1>2. SUFFICES /\ StoreTypeOK' /\ LeaseInv'
               /\ managerClock' \in [Managers -> Instant]
  BY DEF TypeOK, StoreTypeOK
<1>3. \A r \in Reasons : Unanswered(r) /\ UNCHANGED storeVars
                           => StoreTypeOK' /\ LeaseInv'
  BY <1>1, UnansweredInv
<1>4. /\ "INVALID_INPUT" \in Reasons /\ "CLOCK_UNAVAILABLE" \in Reasons
      /\ "CLOCK_REGRESSION" \in Reasons /\ "STORE_UNAVAILABLE" \in Reasons
  BY DEF Reasons
<1>5. CASE InvalidInput
  BY <1>1, <1>3, <1>4, <1>5 DEF InvalidInput
<1>6. ASSUME NEW m \in Managers, ClockFails(m)
      PROVE  StoreTypeOK' /\ LeaseInv' /\ managerClock' = managerClock
  BY <1>3, <1>4, <1>6 DEF ClockFails
<1>7. ASSUME NEW m \in Managers, NEW t \in Instant, ReadClock(m, t)
      PROVE  managerClock' \in [Managers -> Instant]
  BY <1>1, <1>7 DEF ReadClock
<1>8. ASSUME NEW t \in Instant, StoreClockRegression(t)
      PROVE  StoreTypeOK' /\ LeaseInv'
  BY <1>3, <1>4, <1>8 DEF StoreClockRegression
<1>9. ASSUME NEW t \in Instant, NEW d \in Durations, ExpiryOverflows(t, d)
      PROVE  StoreTypeOK' /\ LeaseInv'
  BY <1>3, <1>4, <1>9 DEF ExpiryOverflows
<1>10. ASSUME NEW t \in Instant, NEW d \in Durations, t <= MaxSafeInteger - d
       PROVE  t + d \in Instant /\ t + d > t
  BY <1>10
<1>11. ASSUME NEW m \in Managers, NEW t \in Instant, NEW s \in Scopes,
              NEW o \in Owners, NEW l \in LeaseIds, NEW d \in Durations,
              Acquire(m, s, o, l, d, t)
       PROVE  StoreTypeOK' /\ LeaseInv'
  BY <1>1, <1>8, <1>9, <1>10, <1>11, AcquireInv DEF Acquire
<1>12. ASSUME NEW m \in Managers, NEW t \in Instant, NEW c \in Claims,
              NEW d \in Durations, Renew(m, c, d, t)
       PROVE  StoreTypeOK' /\ LeaseInv'
  BY <1>1, <1>8, <1>9, <1>10, <1>12, RenewInv DEF Renew
<1>13. ASSUME NEW m \in Managers, NEW t \in Instant, NEW c \in Claims,
              Release(m, c, t)
       PROVE  StoreTypeOK' /\ LeaseInv'
  BY <1>1, <1>8, <1>13, ReleaseInv DEF Release
<1>14. ASSUME NEW m \in Managers, NEW t \in Instant, NEW c \in Claims,
              Validate(m, c, t)
       PROVE  StoreTypeOK' /\ LeaseInv'
  BY <1>1, <1>8, <1>14, ValidateInv DEF Validate
<1>15. CASE UNCHANGED vars
  <2>1. StoreTypeOK' /\ managerClock' = managerClock
    BY <1>1, <1>15 DEF vars, StoreTypeOK, ClientTypeOK
  <2>2. LeaseInv'
    BY <1>15 DEF vars, LeaseInv, OneEntryPerScope, EntryIsNewest,
                 EntryIsTimely, BeliefsMatchStore, GrantOf
  <2> QED
    BY <1>1, <2>1, <2>2
<1>16. CASE Next
  <2>1. CASE InvalidInput
    BY <1>1, <1>5, <2>1 DEF InvalidInput
  <2>2. ASSUME NEW m \in Managers, ClockFails(m)
        PROVE  StoreTypeOK' /\ LeaseInv' /\ managerClock' \in [Managers -> Instant]
    BY <1>1, <1>6, <2>2
  <2>3. ASSUME NEW m \in Managers, NEW t \in Instant, NEW s \in Scopes,
               NEW o \in Owners, NEW l \in LeaseIds, NEW d \in Durations,
               Acquire(m, s, o, l, d, t)
        PROVE  StoreTypeOK' /\ LeaseInv' /\ managerClock' \in [Managers -> Instant]
    BY <1>7, <1>11, <2>3 DEF Acquire
  <2>4. ASSUME NEW m \in Managers, NEW t \in Instant, NEW c \in Claims,
               \/ \E d \in Durations : Renew(m, c, d, t)
               \/ Release(m, c, t)
               \/ Validate(m, c, t)
        PROVE  StoreTypeOK' /\ LeaseInv' /\ managerClock' \in [Managers -> Instant]
    <3>1. ReadClock(m, t)
      BY <2>4 DEF Renew, Release, Validate
    <3>2. StoreTypeOK' /\ LeaseInv'
      BY <1>12, <1>13, <1>14, <2>4
    <3> QED
      BY <1>7, <3>1, <3>2
  <2> QED
    BY <1>16, <2>1, <2>2, <2>3, <2>4 DEF Next
<1> QED
  BY <1>15, <1>16

(* In every reachable state the types hold and the store, its counters and *)
(* the callers' beliefs agree.                                             *)
THEOREM Invariance == Spec => [](TypeOK /\ LeaseInv)
<1>1. Init => TypeOK /\ LeaseInv
  BY InitInv
<1>2. TypeOK /\ LeaseInv /\ [Next]_vars => (TypeOK /\ LeaseInv)'
  BY StepInv
<1> QED
  BY <1>1, <1>2, PTL DEF Spec

-----------------------------------------------------------------------------
(* What each kind of answer leaves in reply. *)
LEMMA ReplyOfRefusal ==
  ASSUME NEW r, Unanswered(r) \/ \E d \in Refused : \E s, t : Refuse(d, r, s, t)
  PROVE  reply'.decision \in Refused
BY DEF Unanswered, Refuse, Refused

LEMMA ReplyOfRefuses ==
  ASSUME NEW c, NEW t, StoreRefuses(c, t)
  PROVE  reply'.decision \in Refused
BY DEF StoreRefuses, Refuse, Refused

LEMMA ReplyOfAccept ==
  ASSUME NEW d, NEW k, NEW g, NEW t, Accept(d, k, g, t)
  PROVE  reply'.decision = d /\ reply'.claim = k /\ reply'.lease = g /\ reply'.at = t
BY DEF Accept

(* A claim of the holder is a claim that some caller was told it may make. *)
LEMMA HolderIsHeld ==
  ASSUME StoreTypeOK, LeaseInv, NEW c \in Claims, NEW t \in Instant,
         t >= lastObservedAt, NEW x \in Holder(c, t), NEW d, NEW y \in Leases,
         Accept(d, c, GrantOf(y), t)
  PROVE  HeldClaim(reply')
<1>1. /\ x \in Leases /\ x.expiresAt > t /\ GrantOf(x) \in told
      /\ x.fencingToken = fencingCounters[x.scope]
  BY HolderFacts
<1>2. reply'.claim = c /\ reply'.at = t
  BY ReplyOfAccept
<1>3. SameClaim(GrantOf(x), c) /\ GrantOf(x).expiresAt > t
      /\ GrantOf(x).fencingToken = newest[GrantOf(x).scope]
  BY <1>1, GrantOfType, HolderFacts DEF LeaseInv, BeliefsMatchStore
<1> QED
  BY <1>1, <1>2, <1>3 DEF HeldClaim

(* The operations on one claim are accepted only for the holder. *)
LEMMA ClaimStepHeld ==
  ASSUME StoreTypeOK, LeaseInv, NEW c \in Claims, NEW t \in Instant,
         \/ StoreValidate(c, t) \/ StoreRelease(c, t)
         \/ \E e \in Instant : StoreRenew(c, t, e),
         reply'.decision \notin Refused
  PROVE  HeldClaim(reply') /\ reply'.decision # "ACQUIRED"
<1>1. t >= lastObservedAt /\ ~StoreRefuses(c, t)
  BY ReplyOfRefuses DEF StoreValidate, StoreRelease, StoreRenew, ObserveClock
<1>2. ASSUME NEW x \in Holder(c, t) PROVE x \in Leases
  BY <1>1, HolderFacts
<1>3. ASSUME NEW r, Unanswered(r) PROVE FALSE
  BY <1>3, ReplyOfRefusal
<1>4. CASE StoreValidate(c, t)
  <2>1. PICK x \in Holder(c, t) : AnswerWith("VALID", c, x, t)
    BY <1>1, <1>4 DEF StoreValidate
  <2>2. Accept("VALID", c, GrantOf(x), t)
    BY <1>3, <2>1 DEF AnswerWith
  <2> QED
    BY <1>1, <1>2, <2>2, HolderIsHeld, ReplyOfAccept
<1>5. CASE StoreRelease(c, t)
  <2>1. PICK x \in Holder(c, t) : Accept("RELEASED", c, GrantOf(x), t)
    BY <1>1, <1>5 DEF StoreRelease
  <2> QED
    BY <1>1, <1>2, <2>1, HolderIsHeld, ReplyOfAccept
<1>6. ASSUME NEW e \in Instant, StoreRenew(c, t, e)
      PROVE  HeldClaim(reply') /\ reply'.decision # "ACQUIRED"
  <2>1. PICK x \in Holder(c, t) : AnswerWith("RENEWED", c, Renewed(x, t, e), t)
    BY <1>1, <1>6 DEF StoreRenew
  <2>2. Accept("RENEWED", c, GrantOf(Renewed(x, t, e)), t)
    BY <1>3, <2>1 DEF AnswerWith
  <2> DEFINE y == Renewed(x, t, e)
  <2>3. /\ y \in Leases /\ y.scope = x.scope /\ y.owner = x.owner
        /\ y.leaseId = x.leaseId /\ y.fencingToken = x.fencingToken
    BY <1>2, RenewedType
  <2> HIDE DEF y
  <2>4. Accept("RENEWED", c, GrantOf(y), t)
    BY <2>2 DEF y
  <2> QED
    BY <1>1, <2>3, <2>4, HolderIsHeld, ReplyOfAccept
<1> QED
  BY <1>4, <1>5, <1>6

(* A grant is fresh: its token is new and nothing unexpired is left. *)
LEMMA AcquireStepFresh ==
  ASSUME StoreTypeOK, LeaseInv, NEW s \in Scopes, NEW o \in Owners,
         NEW l \in LeaseIds, NEW t \in Instant, NEW e \in Instant,
         StoreAcquire(s, o, l, t, e), reply'.decision \notin Refused
  PROVE  FreshGrant(reply') /\ reply'.decision = "ACQUIRED"
<1> DEFINE active == {x \in Entry(s) : ~ExpiredAt(x, t)}
           lease  == [scope |-> s, owner |-> o, leaseId |-> l,
                      fencingToken |-> fencingCounters[s] + 1,
                      acquiredAt |-> t, renewedAt |-> t, expiresAt |-> e]
<1>1. t >= lastObservedAt
  BY DEF StoreAcquire, ObserveClock
<1>2. ASSUME NEW r, Unanswered(r) PROVE FALSE
  BY <1>2, ReplyOfRefusal
<1>3. ASSUME NEW d \in Refused, NEW r, Refuse(d, r, s, t) PROVE FALSE
  BY <1>3, ReplyOfRefusal
<1>4. active = {} /\ AnswerWith("ACQUIRED", ClaimOf(lease), lease, t)
  BY <1>2, <1>3 DEF StoreAcquire, Refused
<1>5. Accept("ACQUIRED", ClaimOf(lease), GrantOf(lease), t)
  BY <1>2, <1>4 DEF AnswerWith
<1>6. /\ reply'.decision = "ACQUIRED" /\ reply'.at = t
      /\ reply'.lease.scope = s
      /\ reply'.lease.fencingToken = fencingCounters[s] + 1
  BY <1>5, ReplyOfAccept DEF GrantOf
<1>7. reply'.lease.fencingToken > newest[reply'.lease.scope]
  BY <1>6 DEF StoreTypeOK, LeaseInv, BeliefsMatchStore
<1>8. ASSUME NEW g \in told, g.scope = s
      PROVE  g.expiresAt <= t
  <2>1. g \in Grants
    BY DEF StoreTypeOK, ClientTypeOK
  <2>2. SUFFICES ASSUME g.expiresAt > t PROVE FALSE
    BY <2>1 DEF Grants
  <2>3. g.expiresAt > lastObservedAt
    BY <1>1, <2>1, <2>2 DEF StoreTypeOK, Grants
  <2>4. PICK y \in leases : GrantOf(y) = g
    BY <2>3 DEF LeaseInv, BeliefsMatchStore
  <2>5. y \in Leases /\ y.scope = s /\ y.expiresAt > t
    BY <1>8, <2>2, <2>4, GrantOfType DEF StoreTypeOK
  <2> QED
    BY <1>4, <2>4, <2>5 DEF Entry, ExpiredAt, Leases
<1> QED
  BY <1>6, <1>7, <1>8 DEF FreshGrant

(* A step that answers anything but a refusal is a step of the store. *)
LEMMA AcceptingStep ==
  ASSUME Next, reply'.decision \notin Refused
  PROVE  \/ \E s \in Scopes, o \in Owners, l \in LeaseIds,
               t \in Instant, e \in Instant : StoreAcquire(s, o, l, t, e)
         \/ \E c \in Claims, t \in Instant :
               \/ StoreValidate(c, t) \/ StoreRelease(c, t)
               \/ \E e \in Instant : StoreRenew(c, t, e)
<1>1. ASSUME NEW r, Unanswered(r) PROVE FALSE
  BY <1>1, ReplyOfRefusal
<1>2. ~InvalidInput /\ \A m \in Managers : ~ClockFails(m)
  BY <1>1 DEF InvalidInput, ClockFails
<1>3. \A t : ~StoreClockRegression(t)
  BY <1>1 DEF StoreClockRegression
<1>4. \A t, d : ~ExpiryOverflows(t, d)
  BY <1>1 DEF ExpiryOverflows
<1>5. ASSUME NEW t \in Instant, NEW d \in Durations, t <= MaxSafeInteger - d
      PROVE  t + d \in Instant
  BY <1>5
<1>6. ASSUME NEW m, NEW t \in Instant, NEW s \in Scopes, NEW o \in Owners,
             NEW l \in LeaseIds, NEW d \in Durations, Acquire(m, s, o, l, d, t)
      PROVE  \E e \in Instant : StoreAcquire(s, o, l, t, e)
  BY <1>3, <1>4, <1>5, <1>6 DEF Acquire
<1>7. ASSUME NEW m, NEW t \in Instant, NEW c \in Claims, NEW d \in Durations,
             Renew(m, c, d, t)
      PROVE  \E e \in Instant : StoreRenew(c, t, e)
  BY <1>3, <1>4, <1>5, <1>7 DEF Renew
<1>8. ASSUME NEW m, NEW t \in Instant, NEW c \in Claims,
             Release(m, c, t) \/ Validate(m, c, t)
      PROVE  StoreRelease(c, t) \/ StoreValidate(c, t)
  BY <1>3, <1>8 DEF Release, Validate
<1> QED
  BY <1>2, <1>6, <1>7, <1>8 DEF Next

(* renew, release and validate are accepted only for a claim that was      *)
(* granted, never seen to end and unexpired, with the newest token of its  *)
(* scope, for any number of managers and any clocks.                       *)
THEOREM HeldTheorem == Spec => AcceptedOnlyWhileHeld
<1>1. TypeOK /\ LeaseInv /\ [Next]_vars =>
        [reply'.decision \in {"RENEWED", "RELEASED", "VALID"}
           => HeldClaim(reply')]_clientVars
  <2> SUFFICES ASSUME TypeOK, LeaseInv, Next,
                      reply'.decision \in {"RENEWED", "RELEASED", "VALID"}
               PROVE  HeldClaim(reply')
    BY DEF vars, clientVars
  <2>1. StoreTypeOK
    BY DEF TypeOK, StoreTypeOK
  <2>2. reply'.decision \notin Refused /\ reply'.decision # "ACQUIRED"
    BY DEF Refused
  <2> QED
    BY <2>1, <2>2, AcceptingStep, AcquireStepFresh, ClaimStepHeld
<1> QED
  BY <1>1, Invariance, PTL DEF Spec, AcceptedOnlyWhileHeld

(* A lease is granted only when nothing granted before on the scope is     *)
(* still unexpired, and with a token above every earlier one.              *)
THEOREM NoOverlapTheorem == Spec => GrantsNeverOverlap
<1>1. TypeOK /\ LeaseInv /\ [Next]_vars =>
        [reply'.decision = "ACQUIRED" => FreshGrant(reply')]_clientVars
  <2> SUFFICES ASSUME TypeOK, LeaseInv, Next, reply'.decision = "ACQUIRED"
               PROVE  FreshGrant(reply')
    BY DEF vars, clientVars
  <2>1. StoreTypeOK
    BY DEF TypeOK, StoreTypeOK
  <2>2. reply'.decision \notin Refused
    BY DEF Refused
  <2> QED
    BY <2>1, <2>2, AcceptingStep, AcquireStepFresh, ClaimStepHeld
<1> QED
  BY <1>1, Invariance, PTL DEF Spec, GrantsNeverOverlap

-----------------------------------------------------------------------------
(* The refinement: the operations of the store are steps of the contract.  *)

(* The contract's view of the leases that are live at a later instant. *)
LEMMA LiveLater ==
  ASSUME StoreTypeOK, NEW t \in Instant, t >= lastObservedAt
  PROVE  /\ Contract!LiveAt(t) = Live(t)
         /\ \A s : Contract!Holding(s, t) = {g \in Live(t) : g.scope = s}
<1>1. \A x \in leases : x \in Leases /\ GrantOf(x).expiresAt = x.expiresAt
                        /\ x.expiresAt \in Instant
  BY GrantOfType DEF StoreTypeOK, Leases
<1>2. Contract!LiveAt(t) = Live(t)
  BY <1>1 DEF Contract!LiveAt, Live, ExpiredAt, StoreTypeOK
<1> QED
  BY <1>2 DEF Contract!Holding

(* The live leases after a step, from the entries after it. *)
LEMMA LivePrime ==
  ASSUME StoreTypeOK, NEW t \in Instant, ObserveClock(t)
  PROVE  Live(lastObservedAt)' = {GrantOf(x) : x \in {y \in leases' : ~ExpiredAt(y, t)}}
BY DEF ObserveClock, Live, ExpiredAt, GrantOf

(* Dropping entries that have expired lets time pass and nothing else. *)
LEMMA ElapseStep ==
  ASSUME StoreTypeOK, NEW t \in Instant, ObserveClock(t),
         leases' \subseteq leases,
         \A x \in leases \ leases' : ExpiredAt(x, t),
         UNCHANGED fencingCounters
  PROVE  Contract!Elapse(t)
<1>1. t >= lastObservedAt /\ lastObservedAt' = t
  BY DEF ObserveClock
<1>2. Live(lastObservedAt)' = Live(t)
  BY LivePrime DEF Live
<1> QED
  BY <1>1, <1>2, LiveLater DEF Contract!Elapse

LEMMA RefusesStep ==
  ASSUME StoreTypeOK, NEW t \in Instant, NEW c \in Claims, ObserveClock(t),
         StoreRefuses(c, t)
  PROVE  Contract!Elapse(t)
<1>1. /\ leases' \subseteq leases
      /\ \A x \in leases \ leases' : ExpiredAt(x, t)
      /\ UNCHANGED fencingCounters
  BY DEF StoreRefuses, Entry
<1> QED
  BY <1>1, ElapseStep

(* The live leases of a scope with a holder are the holder's grant. *)
LEMMA HoldingIsHolder ==
  ASSUME StoreTypeOK, LeaseInv, NEW c \in Claims, NEW t \in Instant,
         t >= lastObservedAt, NEW x \in Holder(c, t)
  PROVE  /\ Contract!Holding(c.scope, t) = {GrantOf(x)}
         /\ Contract!LiveAt(t) \ {GrantOf(x)} =
              {GrantOf(z) : z \in {y \in leases : ~ExpiredAt(y, t) /\ y # x}}
<1>1. x \in leases /\ x \in Leases /\ x.scope = c.scope /\ x.expiresAt > t
  BY HolderFacts
<1>2. \A y \in leases : /\ y \in Leases /\ GrantOf(y).scope = y.scope
                        /\ (y.scope = c.scope => y = x)
                        /\ y.expiresAt \in Instant
  BY <1>1, GrantOfType
     DEF StoreTypeOK, LeaseInv, OneEntryPerScope, Leases
<1>3. Contract!Holding(c.scope, t) = {g \in Live(t) : g.scope = c.scope}
      /\ Contract!LiveAt(t) = Live(t)
  BY LiveLater
<1> QED
  BY <1>1, <1>2, <1>3 DEF Live, ExpiredAt

LEMMA ReleaseStep ==
  ASSUME StoreTypeOK, LeaseInv, NEW t \in Instant, NEW c \in Claims,
         StoreRelease(c, t)
  PROVE  Contract!Elapse(t) \/ Contract!End(c.scope, t)
<1>1. ObserveClock(t) /\ t >= lastObservedAt /\ lastObservedAt' = t
  BY DEF StoreRelease, ObserveClock
<1>2. CASE StoreRefuses(c, t)
  BY <1>1, <1>2, RefusesStep
<1>3. ASSUME NEW x \in Holder(c, t), leases' = leases \ {x},
             UNCHANGED fencingCounters
      PROVE  Contract!End(c.scope, t)
  <2>1. Live(lastObservedAt)' =
          {GrantOf(z) : z \in {y \in leases : ~ExpiredAt(y, t) /\ y # x}}
    BY <1>1, <1>3, LivePrime
  <2> QED
    BY <1>1, <1>3, <2>1, HoldingIsHolder DEF Contract!End
<1> QED
  BY <1>2, <1>3 DEF StoreRelease

LEMMA RenewStep ==
  ASSUME StoreTypeOK, LeaseInv, NEW t \in Instant, NEW c \in Claims,
         NEW e \in Instant, e > t, StoreRenew(c, t, e)
  PROVE  Contract!Elapse(t) \/ Contract!Extend(c.scope, t, e)
<1>1. ObserveClock(t) /\ t >= lastObservedAt /\ lastObservedAt' = t
  BY DEF StoreRenew, ObserveClock
<1>2. CASE StoreRefuses(c, t)
  BY <1>1, <1>2, RefusesStep
<1>3. ASSUME NEW x \in Holder(c, t),
             leases' = (leases \ {x}) \cup {Renewed(x, t, e)},
             UNCHANGED fencingCounters
      PROVE  Contract!Extend(c.scope, t, e)
  <2> DEFINE y == Renewed(x, t, e)
             others == {GrantOf(z) : z \in {w \in leases : ~ExpiredAt(w, t) /\ w # x}}
  <2>1. x \in Leases
    BY <1>1, HolderFacts
  <2>2. /\ y \in Leases /\ y.scope = x.scope /\ y.owner = x.owner
        /\ y.leaseId = x.leaseId /\ y.fencingToken = x.fencingToken
        /\ y.expiresAt = e
    BY <2>1, RenewedType
  <2>3. leases' = (leases \ {x}) \cup {y}
    BY <1>3
  <2> HIDE DEF y
  <2>4. GrantOf(y) = [GrantOf(x) EXCEPT !.expiresAt = e]
    BY <2>1, <2>2 DEF GrantOf
  <2>5. ~ExpiredAt(y, t)
    BY <2>2 DEF ExpiredAt
  <2>6. Live(lastObservedAt)' = others \cup {GrantOf(y)}
    BY <1>1, <2>3, <2>5, LivePrime
  <2>7. Contract!Holding(c.scope, t) = {GrantOf(x)}
        /\ Contract!LiveAt(t) \ {GrantOf(x)} = others
    BY <1>1, HoldingIsHolder
  <2> HIDE DEF others
  <2>8. (Contract!LiveAt(t) \ Contract!Holding(c.scope, t)) \cup
          {[g EXCEPT !.expiresAt = e] : g \in Contract!Holding(c.scope, t)}
        = others \cup {GrantOf(y)}
    BY <2>4, <2>7
  <2> QED
    BY <1>1, <1>3, <2>6, <2>7, <2>8 DEF Contract!Extend
<1> QED
  BY <1>2, <1>3 DEF StoreRenew

LEMMA ValidateStep ==
  ASSUME StoreTypeOK, NEW t \in Instant, NEW c \in Claims, StoreValidate(c, t)
  PROVE  Contract!Elapse(t)
<1>1. ObserveClock(t)
  BY DEF StoreValidate
<1>2. CASE StoreRefuses(c, t)
  BY <1>1, <1>2, RefusesStep
<1>3. CASE UNCHANGED <<leases, fencingCounters>>
  BY <1>1, <1>3, ElapseStep
<1> QED
  BY <1>2, <1>3 DEF StoreValidate

LEMMA AcquireStep ==
  ASSUME StoreTypeOK, LeaseInv, NEW s \in Scopes, NEW o \in Owners,
         NEW l \in LeaseIds, NEW t \in Instant, NEW e \in Instant, e > t,
         StoreAcquire(s, o, l, t, e)
  PROVE  Contract!Elapse(t) \/ Contract!Grant(s, o, l, t, e)
<1> DEFINE active == {x \in Entry(s) : ~ExpiredAt(x, t)}
           kept   == leases \ {x \in Entry(s) : ExpiredAt(x, t)}
           lease  == [scope |-> s, owner |-> o, leaseId |-> l,
                      fencingToken |-> fencingCounters[s] + 1,
                      acquiredAt |-> t, renewedAt |-> t, expiresAt |-> e]
<1>1. ObserveClock(t) /\ t >= lastObservedAt /\ lastObservedAt' = t
  BY DEF StoreAcquire, ObserveClock
<1>2. CASE UNCHANGED <<leases, fencingCounters>>
  BY <1>1, <1>2, ElapseStep
<1>3. CASE leases' = kept /\ UNCHANGED fencingCounters
  BY <1>1, <1>3, ElapseStep DEF Entry
<1>4. ASSUME active = {}, ~TokensExhausted(s),
             fencingCounters' = [fencingCounters EXCEPT
                                   ![s] = fencingCounters[s] + 1],
             leases' = kept \cup {lease}
      PROVE  Contract!Grant(s, o, l, t, e)
  <2>1. Contract!LiveAt(t) = Live(t)
        /\ Contract!Holding(s, t) = {g \in Live(t) : g.scope = s}
    BY <1>1, LiveLater
  <2>2. Contract!Holding(s, t) = {}
    BY <1>4, <2>1, GrantOfType DEF Live, Entry, StoreTypeOK
  <2>3. lease.expiresAt = e
        /\ GrantOf(lease) = [scope |-> s, owner |-> o, leaseId |-> l,
                             fencingToken |-> fencingCounters[s] + 1,
                             expiresAt |-> e]
    BY DEF GrantOf
  <2>4. leases' = kept \cup {lease}
    BY <1>4
  <2> HIDE DEF lease
  <2>5. ~ExpiredAt(lease, t)
    BY <2>3 DEF ExpiredAt
  <2>6. Live(lastObservedAt)' = Live(t) \cup {GrantOf(lease)}
    BY <1>1, <2>4, <2>5, LivePrime DEF Live, Entry
  <2> QED
    BY <1>1, <1>4, <2>1, <2>2, <2>3, <2>6
       DEF Contract!Grant, TokensExhausted, StoreTypeOK
<1> QED
  BY <1>2, <1>3, <1>4 DEF StoreAcquire

(* Every step of the managers and their store is a step of the contract or *)
(* leaves its state alone.                                                 *)
LEMMA StepRefines ==
  TypeOK /\ LeaseInv /\ [Next]_vars =>
    [Contract!ContractNext]_<<lastObservedAt, Live(lastObservedAt), fencingCounters>>
<1> SUFFICES ASSUME TypeOK, LeaseInv, [Next]_vars
             PROVE  \/ Contract!ContractNext
                    \/ UNCHANGED storeVars
  BY DEF storeVars, Live, ExpiredAt, GrantOf
<1>1. StoreTypeOK
  BY DEF TypeOK, StoreTypeOK
<1>2. CASE UNCHANGED vars
  BY <1>2 DEF vars, storeVars
<1>3. ASSUME NEW t \in Instant,
             \/ Contract!Elapse(t)
             \/ \E s \in Scopes :
                  \/ Contract!End(s, t)
                  \/ \E e \in Instant :
                       \/ Contract!Extend(s, t, e)
                       \/ \E o \in Owners, l \in LeaseIds :
                            Contract!Grant(s, o, l, t, e)
      PROVE  Contract!ContractNext
  BY <1>3 DEF Contract!ContractNext, Contract!Instant
<1>4. ASSUME NEW t \in Instant, NEW d \in Durations, t <= MaxSafeInteger - d
      PROVE  t + d \in Instant /\ t + d > t
  BY <1>4
<1>5. \A c \in Claims : c.scope \in Scopes
  BY DEF Claims
<1>6. InvalidInput \/ (\E m \in Managers : ClockFails(m)) => UNCHANGED storeVars
  BY DEF InvalidInput, ClockFails
<1>7. ASSUME NEW m \in Managers, NEW t \in Instant, NEW s \in Scopes,
             NEW o \in Owners, NEW l \in LeaseIds, NEW d \in Durations,
             Acquire(m, s, o, l, d, t)
      PROVE  Contract!ContractNext \/ UNCHANGED storeVars
  <2>1. CASE ExpiryOverflows(t, d) \/ StoreClockRegression(t)
    BY <2>1 DEF ExpiryOverflows, StoreClockRegression
  <2>2. CASE t <= MaxSafeInteger - d /\ StoreAcquire(s, o, l, t, t + d)
    BY <1>1, <1>3, <1>4, <2>2, AcquireStep
  <2> QED
    BY <1>7, <2>1, <2>2 DEF Acquire
<1>8. ASSUME NEW m \in Managers, NEW t \in Instant, NEW c \in Claims,
             NEW d \in Durations, Renew(m, c, d, t)
      PROVE  Contract!ContractNext \/ UNCHANGED storeVars
  <2>1. CASE ExpiryOverflows(t, d) \/ StoreClockRegression(t)
    BY <2>1 DEF ExpiryOverflows, StoreClockRegression
  <2>2. CASE t <= MaxSafeInteger - d /\ StoreRenew(c, t, t + d)
    BY <1>1, <1>3, <1>4, <1>5, <2>2, RenewStep
  <2> QED
    BY <1>8, <2>1, <2>2 DEF Renew
<1>9. ASSUME NEW m \in Managers, NEW t \in Instant, NEW c \in Claims,
             Release(m, c, t) \/ Validate(m, c, t)
      PROVE  Contract!ContractNext \/ UNCHANGED storeVars
  <2>1. CASE StoreClockRegression(t)
    BY <2>1 DEF StoreClockRegression
  <2>2. CASE StoreRelease(c, t) \/ StoreValidate(c, t)
    BY <1>1, <1>3, <1>5, <2>2, ReleaseStep, ValidateStep
  <2> QED
    BY <1>9, <2>1, <2>2 DEF Release, Validate
<1> QED
  BY <1>2, <1>6, <1>7, <1>8, <1>9 DEF Next

(* The managers and their in-memory store implement the lease contract,    *)
(* with the unexpired entries of the map as the granted leases.            *)
THEOREM RefinementTheorem == Spec => ImplementsContract
<1>1. Init => Contract!ContractInit
  BY DEF Init, Contract!ContractInit, Live
<1>2. TypeOK /\ LeaseInv /\ [Next]_vars =>
        [Contract!ContractNext]_(Contract!contractVars)
  BY StepRefines DEF Contract!contractVars
<1> QED
  BY <1>1, <1>2, Invariance, PTL DEF Spec, ImplementsContract, Contract!ContractSpec
=============================================================================
