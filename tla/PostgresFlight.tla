--------------------------- MODULE PostgresFlight ---------------------------
(***************************************************************************)
(* PostgresValidationFlightStore (packages/store-postgres/src/             *)
(* validation-flight.ts): workers of several processes share one           *)
(* validation of a scope.  One row a scope names the leader's flight, its  *)
(* fencing token and, once completed, the receipt everybody else uses.     *)
(*                                                                         *)
(* Each operation is one READ COMMITTED transaction with an instant of the *)
(* caller's own clock.  claim is one step: ON CONFLICT DO UPDATE locks the *)
(* row whether or not its WHERE holds, so the SELECT after it sees the     *)
(* same row.  complete that misses reads the row in a second statement,    *)
(* and others may commit in between.  waitForCompletion reads again and    *)
(* again.  The acknowledgement of a commit may be lost: the caller is told *)
(* STORE_UNAVAILABLE for what took place.                                  *)
(***************************************************************************)
EXTENDS SafeIntegers, FiniteSets, TLC

CONSTANTS Scopes,
          Workers,          \* callers, each with one call at a time
          Receipts

(* Flights: an owner and a flight id identify the worker that presents     *)
(* them.  No receipt is the empty set.                                     *)
Rows == [flight : Workers, fencingToken : Token,
         state : {"IN_PROGRESS", "COMPLETED"},
         receipt : SUBSET Receipts, expiresAt : Instant]

VARIABLES row,        \* scope -> {} or the singleton of its row
          call,       \* worker -> the call that is under way
          leads,      \* worker -> claims it was answered LEADER to
          granted,    \* history: <<scope, token, worker>> of every LEADER row
          published,  \* history: <<scope, token, worker, receipt>> of completions
          heard       \* history: <<scope, token, receipt, since>> of every answer
                      \* COMPLETED; since is the newest token when its call began

vars == <<row, call, leads, granted, published, heard>>

Idle == [op |-> "idle"]

Calls == {Idle}
  \cup [op : {"missed"}, scope : Scopes]
  \cup [op : {"waiting"}, scope : Scopes, since : 0 .. MaxSafeInteger]

TypeOK ==
  /\ row \in [Scopes -> SUBSET Rows] /\ \A s \in Scopes : Cardinality(row[s]) <= 1
  /\ call \in [Workers -> Calls]
  /\ leads \in [Workers -> SUBSET (Scopes \X Token)]
  /\ granted \subseteq Scopes \X Token \X Workers
  /\ published \subseteq Scopes \X Token \X Workers \X Receipts
  /\ heard \subseteq Scopes \X Token \X Receipts \X (0 .. MaxSafeInteger)

Init ==
  /\ row = [s \in Scopes |-> {}]
  /\ call = [w \in Workers |-> Idle]
  /\ leads = [w \in Workers |-> {}]
  /\ granted = {} /\ published = {} /\ heard = {}

Newest(s) ==
  LET tokens == {0} \cup {g[2] : g \in {h \in granted : h[1] = s}}
  IN CHOOSE t \in tokens : \A u \in tokens : u <= t
-----------------------------------------------------------------------------

NextToken(s) ==
  IF row[s] = {} THEN 1 ELSE (CHOOSE x \in row[s] : TRUE).fencingToken + 1

(* The row is free for a new leader: none yet, or one whose time is over.  *)
Claimable(s, t) == \A x \in row[s] : x.expiresAt <= t

(* claim answered LEADER: the caller may never hear of it.                 *)
ClaimLeads(w, s, t, e) ==
  /\ call[w] = Idle /\ e > t /\ Claimable(s, t)
  /\ NextToken(s) <= MaxSafeInteger
  /\ row' = [row EXCEPT ![s] = {[flight |-> w, fencingToken |-> NextToken(s),
                                 state |-> "IN_PROGRESS", receipt |-> {},
                                 expiresAt |-> e]}]
  /\ granted' = granted \cup {<<s, NextToken(s), w>>}
  /\ \/ leads' = [leads EXCEPT ![w] = @ \cup {<<s, NextToken(s)>>}]
     \/ UNCHANGED leads
  /\ UNCHANGED <<call, published, heard>>

(* claim answered COMPLETED (FOLLOWER changes nothing).  A token beyond    *)
(* the safe integers is refused and rolled back, which changes nothing.    *)
ClaimCompleted(w, s, t) ==
  /\ call[w] = Idle
  /\ \E x \in row[s] :
       /\ x.state = "COMPLETED" /\ x.expiresAt > t
       /\ heard' = heard \cup {<<s, x.fencingToken, r, Newest(s)>> : r \in x.receipt}
  /\ UNCHANGED <<row, call, leads, granted, published>>

IgnoresToken(w, s, k, t) ==                     \* mutant: token not compared
  {x \in row[s] : x.flight = w /\ x.state = "IN_PROGRESS" /\ x.expiresAt > t}

CompletesTwice(w, s, k, t) ==                   \* mutant: state not compared
  {x \in row[s] : x.flight = w /\ x.fencingToken = k /\ x.expiresAt > t}

(* The row the conditional UPDATE of complete selects. *)
Completable(w, s, k, t) ==
  {x \in row[s] : /\ x.flight = w /\ x.fencingToken = k
                  /\ x.state = "IN_PROGRESS" /\ x.expiresAt > t}

(* complete by a leader, again after a lost acknowledgement too, with the  *)
(* receipt it has now; the row is retained until e.                        *)
Complete(w, s, k, r, t, e) ==
  /\ call[w] = Idle /\ <<s, k>> \in leads[w] /\ e > t
  /\ \/ /\ Completable(w, s, k, t) = {}
        /\ call' = [call EXCEPT ![w] = [op |-> "missed", scope |-> s]]
        /\ UNCHANGED <<row, published>>
     \/ \E x \in Completable(w, s, k, t) :
          /\ row' = [row EXCEPT ![s] = {[x EXCEPT !.state = "COMPLETED",
                                                  !.receipt = {r}, !.expiresAt = e]}]
          /\ published' = published \cup {<<s, k, w, r>>}
          /\ UNCHANGED call
  /\ UNCHANGED <<leads, granted, heard>>

(* The second statement of a complete that missed: MISSING, EXPIRED or     *)
(* FENCED, none of which changes anything.                                 *)
ExplainMiss(w) ==
  /\ call[w].op = "missed"
  /\ call' = [call EXCEPT ![w] = Idle]
  /\ UNCHANGED <<row, leads, granted, published, heard>>

(* waitForCompletion, usually after FOLLOWER.                              *)
StartWait(w, s) ==
  /\ call[w] = Idle
  /\ call' = [call EXCEPT ![w] = [op |-> "waiting", scope |-> s,
                                  since |-> Newest(s)]]
  /\ UNCHANGED <<row, leads, granted, published, heard>>

(* One round of the loop: read with the clock at t.  A row in progress is  *)
(* read again.  A round that finds COMPLETED answers it; no row, or one    *)
(* whose time is over, ends the wait as MISSING or EXPIRED.                *)
Poll(w, t) ==
  /\ call[w].op = "waiting"
  /\ LET s    == call[w].scope
         live == {x \in row[s] : x.expiresAt > t}
     IN \/ \E x \in live :
             /\ x.state = "COMPLETED"
             /\ heard' = heard \cup {<<s, x.fencingToken, r, call[w].since>> : r \in x.receipt}
        \/ live = {} /\ UNCHANGED heard
  /\ call' = [call EXCEPT ![w] = Idle]
  /\ UNCHANGED <<row, leads, granted, published>>

(* TIMEOUT: the signal is aborted, or the caller's clock, read anew after  *)
(* the row, has come to the deadline.                                      *)
GiveUp(w) ==
  /\ call[w].op = "waiting"
  /\ call' = [call EXCEPT ![w] = Idle]
  /\ UNCHANGED <<row, leads, granted, published, heard>>

(* A worker stops and starts again: what it led is forgotten.              *)
Restart(w) ==
  /\ call' = [call EXCEPT ![w] = Idle]
  /\ leads' = [leads EXCEPT ![w] = {}]
  /\ UNCHANGED <<row, granted, published, heard>>

Next ==
  \E w \in Workers :
    \/ ExplainMiss(w) \/ GiveUp(w) \/ Restart(w)
    \/ \E t \in Instant : Poll(w, t)
    \/ \E s \in Scopes :
         \/ StartWait(w, s)
         \/ \E t \in Instant :
              \/ ClaimCompleted(w, s, t)
              \/ \E e \in Instant :
                   \/ ClaimLeads(w, s, t, e)
                   \/ \E k \in Token, r \in Receipts : Complete(w, s, k, r, t, e)

Spec == Init /\ [][Next]_vars

(* For TLC: neither workers nor receipts are told apart. *)
Symmetry == Permutations(Workers) \cup Permutations(Receipts)
-----------------------------------------------------------------------------
(* The row carries the newest token, belongs to the flight that was given  *)
(* the token, and a token is given once: no two workers lead under one     *)
(* token, whatever their clocks (claim).                                   *)
RowInv ==
  /\ \A g, h \in granted : g[1] = h[1] /\ g[2] = h[2] => g = h
  /\ \A s \in Scopes : \A x \in row[s] :
       /\ x.fencingToken = Newest(s) /\ <<s, x.fencingToken, x.flight>> \in granted
       /\ x.state = "COMPLETED" <=> Cardinality(x.receipt) = 1
       /\ \A r \in x.receipt : <<s, x.fencingToken, x.flight, r>> \in published
  /\ \A w \in Workers : \A l \in leads[w] : <<l[1], l[2], w>> \in granted

(* Everybody who is answered COMPLETED for a token gets one and the same   *)
(* receipt, and it is the one its leader published, however often the      *)
(* leader repeats complete with another receipt (complete, claim, read).   *)
OneReceiptPerToken ==
  /\ \A p, q \in published : p[1] = q[1] /\ p[2] = q[2] => p = q
  /\ \A h \in heard : \E p \in published : <<p[1], p[2], p[4]>> = <<h[1], h[2], h[3]>>

(* The fence: a receipt is published only under the newest token of its    *)
(* scope, and nobody is answered with a receipt older than the newest      *)
(* token there was when its call began, however long it has waited         *)
(* (complete, claim, waitForCompletion).                                   *)
NothingOldIsUsed ==
  [][/\ \A p \in published' \ published : p[2] = Newest(p[1])
     /\ \A h \in heard' : h[2] >= h[4]]_vars
=============================================================================
