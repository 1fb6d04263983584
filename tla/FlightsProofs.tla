---------------------------- MODULE FlightsProofs ----------------------------
(***************************************************************************)
(* Shared validations, in one process and between processes, for every     *)
(* number of callers, scopes, workers and receipts and every bound.        *)
(***************************************************************************)
EXTENDS MCFlights, TLAPS

(***************************************************************************)
(* The table.  The row of a scope carries its newest token, so no token is *)
(* given twice, a token that is in progress has no receipt yet, and a row  *)
(* that is read later is no older than one that was there before.          *)
(***************************************************************************)
PgTypeOK ==
  /\ row \in [PgScopes -> SUBSET P!Rows]
  /\ \A s \in PgScopes : \A x, y \in row[s] : x = y
  /\ call \in [Workers -> P!Calls]
  /\ granted \subseteq PgScopes \X P!Token \X Workers

(* No token of the scope is above n. *)
AtMost(s, n) == \A g \in granted : g[1] = s => g[2] <= n

RowNewest ==
  \A s \in PgScopes :
    /\ row[s] = {} => \A g \in granted : g[1] # s
    /\ \A x \in row[s] : <<s, x.fencingToken, x.flight>> \in granted /\ AtMost(s, x.fencingToken)

PublishedInv ==
  /\ P!OneReceiptPerToken
  /\ \A p \in published : \E g \in granted : g[1] = p[1] /\ g[2] = p[2]
  /\ \A s \in PgScopes : \A x \in row[s] :
       /\ x.state = "IN_PROGRESS" =>
            /\ x.receipt = {}
            /\ \A p \in published : p[1] = s => p[2] # x.fencingToken
       /\ \A r \in x.receipt : <<s, x.fencingToken, x.flight, r>> \in published

(* The newest token when a wait began is still not above the row's. *)
SinceInv ==
  /\ \A h \in heard : h[2] >= h[4]
  /\ \A w \in Workers : call[w].op = "waiting" =>
       /\ row[call[w].scope] = {} => call[w].since = 0
       /\ \A x \in row[call[w].scope] : call[w].since <= x.fencingToken

FlightTableInv == PgTypeOK /\ RowNewest /\ PublishedInv /\ SinceInv

USE DEF P!Token, P!Instant

LEMMA FlightInit == P!Init => FlightTableInv
<1> SUFFICES ASSUME P!Init PROVE FlightTableInv
  OBVIOUS
<1>1. P!Idle \in P!Calls
  BY DEF P!Calls
<1>2. PgTypeOK
  BY <1>1 DEF P!Init, PgTypeOK
<1>3. RowNewest
  BY DEF P!Init, RowNewest
<1>4. PublishedInv
  BY DEF P!Init, PublishedInv, P!OneReceiptPerToken
<1>5. SinceInv
  BY DEF P!Init, SinceInv, P!Idle
<1> QED
  BY <1>2, <1>3, <1>4, <1>5 DEF FlightTableInv

(* Newest is the token of the row, and zero where there is no row. *)
LEMMA NewestIs ==
  ASSUME PgTypeOK, RowNewest, NEW s \in PgScopes
  PROVE  /\ row[s] = {} => P!Newest(s) = 0
         /\ \A x \in row[s] : P!Newest(s) = x.fencingToken
<1> DEFINE tokens == {0} \cup {g[2] : g \in {h \in granted : h[1] = s}}
<1>1. tokens \subseteq Nat
  BY DEF PgTypeOK
<1>2. P!Newest(s) = CHOOSE t \in tokens : \A u \in tokens : u <= t
  BY DEF P!Newest
<1>3. ASSUME NEW m \in tokens, \A u \in tokens : u <= m
      PROVE  P!Newest(s) = m
  <2> HIDE DEF tokens
  <2>1. P!Newest(s) \in tokens /\ \A u \in tokens : u <= P!Newest(s)
    BY <1>2, <1>3
  <2>2. P!Newest(s) \in Nat /\ m \in Nat
    BY <2>1, <1>1, <1>3
  <2>3. m <= P!Newest(s) /\ P!Newest(s) <= m
    BY <2>1, <1>3
  <2> QED
    BY <2>2, <2>3
<1>4. CASE row[s] = {}
  <2>1. \A u \in tokens : u <= 0
    BY <1>4 DEF RowNewest
  <2> QED
    BY <1>3, <1>4, <2>1
<1>5. ASSUME NEW x \in row[s]
      PROVE  P!Newest(s) = x.fencingToken
  <2>1. x.fencingToken \in Nat
    BY DEF PgTypeOK, P!Rows
  <2>2. <<s, x.fencingToken, x.flight>> \in granted /\ AtMost(s, x.fencingToken)
    BY DEF RowNewest
  <2>3. x.fencingToken \in tokens
    <3>1. <<s, x.fencingToken, x.flight>>[1] = s
      OBVIOUS
    <3>2. <<s, x.fencingToken, x.flight>>[2] = x.fencingToken
      OBVIOUS
    <3> QED
      BY <2>2, <3>1, <3>2
  <2>4. \A u \in tokens : u <= x.fencingToken
    BY <2>1, <2>2 DEF AtMost
  <2> QED
    BY <1>3, <2>3, <2>4
<1> QED
  BY <1>4, <1>5

(* The next token is above every token of the scope. *)
LEMMA NextTokenIsNew ==
  ASSUME PgTypeOK, RowNewest, NEW s \in PgScopes
  PROVE  /\ P!NextToken(s) \in Nat \ {0}
         /\ \A g \in granted : g[1] = s => g[2] < P!NextToken(s)
         /\ \A x \in row[s] : x.fencingToken < P!NextToken(s)
<1>1. CASE row[s] = {}
  <2>1. P!NextToken(s) = 1
    BY <1>1 DEF P!NextToken
  <2> QED
    BY <1>1, <2>1 DEF RowNewest
<1>2. ASSUME NEW x \in row[s]
      PROVE  P!NextToken(s) = x.fencingToken + 1
  <2>1. (CHOOSE y \in row[s] : TRUE) \in row[s]
    BY <1>2
  <2>2. (CHOOSE y \in row[s] : TRUE) = x
    BY <2>1 DEF PgTypeOK
  <2> QED
    BY <1>2, <2>2 DEF P!NextToken
<1>3. CASE row[s] # {}
  <2> PICK x \in row[s] : TRUE
    BY <1>3
  <2>1. x.fencingToken \in Nat
    BY DEF PgTypeOK, P!Rows
  <2>2. P!NextToken(s) = x.fencingToken + 1
    BY <1>2
  <2>3. \A y \in row[s] : y = x
    BY DEF PgTypeOK
  <2>4. AtMost(s, x.fencingToken)
    BY DEF RowNewest
  <2>5. \A g \in granted : g[2] \in Nat
    BY DEF PgTypeOK
  <2> QED
    BY <2>1, <2>2, <2>3, <2>4, <2>5 DEF AtMost
<1> QED
  BY <1>1, <1>3

(* The records of the calls. *)
LEMMA CallRecords ==
  /\ P!Idle \in P!Calls /\ P!Idle.op = "idle"
  /\ \A s \in PgScopes : LET c == [op |-> "missed", scope |-> s]
                         IN c \in P!Calls /\ c.op = "missed"
  /\ \A s \in PgScopes, n \in 0 .. MaxSafeInteger :
       LET c == [op |-> "waiting", scope |-> s, since |-> n]
       IN c \in P!Calls /\ c.op = "waiting" /\ c.scope = s /\ c.since = n
  /\ \A c \in P!Calls : c.op = "waiting" => c.scope \in PgScopes /\ c.since \in Nat
<1>1. P!Idle \in P!Calls /\ P!Idle.op = "idle"
  BY DEF P!Calls, P!Idle
<1>2. \A s \in PgScopes : LET c == [op |-> "missed", scope |-> s]
                          IN c \in P!Calls /\ c.op = "missed"
  BY DEF P!Calls
<1>3. \A s \in PgScopes, n \in 0 .. MaxSafeInteger :
       LET c == [op |-> "waiting", scope |-> s, since |-> n]
       IN c \in P!Calls /\ c.op = "waiting" /\ c.scope = s /\ c.since = n
  BY DEF P!Calls
<1>4. ASSUME NEW c \in P!Calls, c.op = "waiting"
      PROVE  c.scope \in PgScopes /\ c.since \in Nat
  <2>1. CASE c = P!Idle
    BY <2>1, <1>1, <1>4
  <2>2. CASE c \in [op : {"missed"}, scope : PgScopes]
    BY <2>2, <1>4
  <2>3. CASE c \in [op : {"waiting"}, scope : PgScopes, since : 0 .. MaxSafeInteger]
    BY <2>3, MaxSafeIntegerIsPositive
  <2> QED
    BY <2>1, <2>2, <2>3 DEF P!Calls
<1> QED
  BY <1>1, <1>2, <1>3, <1>4

LEMMA ClaimLeadsStep ==
  ASSUME FlightTableInv, NEW w \in Workers, NEW s \in PgScopes,
         NEW t \in P!Instant, NEW e \in P!Instant, P!ClaimLeads(w, s, t, e)
  PROVE  FlightTableInv'
<1> PICK k : k = P!NextToken(s)
  OBVIOUS
<1> DEFINE new == [flight |-> w, fencingToken |-> k, state |-> "IN_PROGRESS",
                   receipt |-> {}, expiresAt |-> e]
<1>1. /\ k \in P!Token
      /\ \A g \in granted : g[1] = s => g[2] < k
      /\ \A x \in row[s] : x.fencingToken < k
  BY NextTokenIsNew, MaxSafeIntegerIsPositive DEF FlightTableInv, P!ClaimLeads
<1>2. new \in P!Rows /\ new.flight = w /\ new.fencingToken = k
      /\ new.state = "IN_PROGRESS" /\ new.receipt = {}
  BY <1>1 DEF P!Rows
<1>3. /\ row' = [row EXCEPT ![s] = {new}]
      /\ granted' = granted \cup {<<s, k, w>>}
      /\ UNCHANGED <<call, published, heard>>
  BY DEF P!ClaimLeads
<1> HIDE DEF new
<1>4. PgTypeOK'
  BY <1>1, <1>2, <1>3 DEF FlightTableInv, PgTypeOK
<1>5. row'[s] = {new} /\ \A u \in PgScopes : u # s => row'[u] = row[u]
  BY <1>3 DEF FlightTableInv, PgTypeOK
<1>t. <<s, k, w>>[1] = s /\ <<s, k, w>>[2] = k
  OBVIOUS
<1>6. RowNewest'
  <2> SUFFICES ASSUME NEW u \in PgScopes
               PROVE  /\ (row'[u] = {} => \A g \in granted' : g[1] # u)
                      /\ \A x \in row'[u] : /\ <<u, x.fencingToken, x.flight>> \in granted'
                                            /\ AtMost(u, x.fencingToken)'
    BY DEF RowNewest
  <2>1. CASE u = s
    <3>1. \A g \in granted' : g[1] = s => g[2] <= k
      <4> SUFFICES ASSUME NEW g \in granted', g[1] = s PROVE g[2] <= k
        OBVIOUS
      <4>1. CASE g \in granted
        <5>1. g[2] \in Nat /\ k \in Nat
          BY <4>1, <1>1 DEF FlightTableInv, PgTypeOK
        <5> QED
          BY <4>1, <5>1, <1>1
      <4>2. CASE g = <<s, k, w>>
        BY <4>2, <1>1
      <4> QED
        BY <4>1, <4>2, <1>3
    <3> QED
      BY <2>1, <1>2, <1>3, <1>5, <3>1 DEF AtMost
  <2>2. CASE u # s
    <3>1. \A g \in granted' : g[1] = u => g \in granted
      BY <2>2, <1>3, <1>t
    <3> QED
      BY <2>2, <1>3, <1>5, <3>1 DEF FlightTableInv, RowNewest, AtMost
  <2> QED
    BY <2>1, <2>2
<1>7. PublishedInv'
  <2>1. P!OneReceiptPerToken'
    BY <1>3 DEF FlightTableInv, PublishedInv, P!OneReceiptPerToken
  <2>2. \A p \in published' : \E g \in granted' : g[1] = p[1] /\ g[2] = p[2]
    BY <1>3 DEF FlightTableInv, PublishedInv
  <2>3. \A p \in published : p[1] = s => p[2] # k
    <3> SUFFICES ASSUME NEW p \in published, p[1] = s, p[2] = k PROVE FALSE
      OBVIOUS
    <3>1. PICK g \in granted : g[1] = s /\ g[2] = k
      BY DEF FlightTableInv, PublishedInv
    <3> QED
      BY <3>1, <1>1
  <2>4. ASSUME NEW u \in PgScopes, NEW x \in row'[u]
        PROVE  /\ x.state = "IN_PROGRESS" =>
                    x.receipt = {} /\ \A p \in published' : p[1] = u => p[2] # x.fencingToken
               /\ \A r \in x.receipt : <<u, x.fencingToken, x.flight, r>> \in published'
    <3>1. CASE u = s
      BY <3>1, <2>3, <2>4, <1>2, <1>3, <1>5
    <3>2. CASE u # s
      BY <3>2, <2>4, <1>3, <1>5 DEF FlightTableInv, PublishedInv
    <3> QED
      BY <3>1, <3>2
  <2> QED
    BY <2>1, <2>2, <2>4 DEF PublishedInv
<1>8. SinceInv'
  <2>1. \A h \in heard' : h[2] >= h[4]
    BY <1>3 DEF FlightTableInv, SinceInv
  <2>2. ASSUME NEW v \in Workers, call'[v].op = "waiting", NEW x \in row'[call'[v].scope]
        PROVE  call'[v].since <= x.fencingToken
    <3>1. call'[v] = call[v] /\ call[v] \in P!Calls
      BY <1>3 DEF FlightTableInv, PgTypeOK
    <3>2. PICK u \in PgScopes : u = call[v].scope
      BY <3>1, <2>2, CallRecords
    <3>3. call[v].since \in Nat
      BY <3>1, <2>2, CallRecords
    <3>4. \A y \in row[u] : call[v].since <= y.fencingToken
      BY <3>1, <3>2, <2>2 DEF FlightTableInv, SinceInv
    <3>5. CASE u = s /\ row[s] # {}
      <4> PICK y \in row[s] : TRUE
        BY <3>5
      <4>1. y.fencingToken < k /\ x.fencingToken = k /\ call[v].since <= y.fencingToken
        BY <3>1, <3>2, <3>4, <3>5, <2>2, <1>1, <1>2, <1>5
      <4>2. y.fencingToken \in Nat /\ k \in Nat
        BY <1>1 DEF FlightTableInv, PgTypeOK, P!Rows
      <4> QED
        BY <4>1, <4>2, <3>1, <3>3
    <3>6. CASE u = s /\ row[s] = {}
      <4>1. call[v].since = 0 /\ x.fencingToken = k
        BY <3>1, <3>2, <3>6, <2>2, <1>2, <1>5 DEF FlightTableInv, SinceInv
      <4> QED
        BY <4>1, <3>1, <1>1
    <3>7. CASE u # s
      BY <3>1, <3>2, <3>4, <3>7, <2>2, <1>5
    <3> QED
      BY <3>5, <3>6, <3>7
  <2>3. ASSUME NEW v \in Workers, call'[v].op = "waiting", row'[call'[v].scope] = {}
        PROVE  call'[v].since = 0
    <3>1. call'[v] = call[v] /\ call[v] \in P!Calls
      BY <1>3 DEF FlightTableInv, PgTypeOK
    <3>2. PICK u \in PgScopes : u = call[v].scope
      BY <3>1, <2>3, CallRecords
    <3>3. u # s
      BY <3>1, <3>2, <2>3, <1>5
    <3> QED
      BY <3>1, <3>2, <3>3, <2>3, <1>5 DEF FlightTableInv, SinceInv
  <2> QED
    BY <2>1, <2>2, <2>3 DEF SinceInv
<1> QED
  BY <1>4, <1>6, <1>7, <1>8 DEF FlightTableInv

(* A step that reads the table: it may set the caller's call, and answers  *)
(* with the receipts of a row that is no older than the call.              *)
LEMMA ReadStep ==
  ASSUME FlightTableInv, NEW w \in Workers, NEW c \in P!Calls,
         UNCHANGED <<row, granted, published>>, call' = [call EXCEPT ![w] = c],
         c.op = "waiting" =>
           /\ row[c.scope] = {} => c.since = 0
           /\ \A x \in row[c.scope] : c.since <= x.fencingToken,
         \A h \in heard' : h \in heard
           \/ \E s \in PgScopes : \E x \in row[s] : \E r \in x.receipt : \E n \in Nat :
                n <= x.fencingToken /\ h = <<s, x.fencingToken, r, n>>
  PROVE  FlightTableInv'
<1>1. PgTypeOK'
  BY DEF FlightTableInv, PgTypeOK
<1>2. RowNewest'
  BY DEF FlightTableInv, RowNewest, AtMost
<1>3. \A h \in heard' : /\ \E p \in published' : <<p[1], p[2], p[4]>> = <<h[1], h[2], h[3]>>
                        /\ h[2] >= h[4]
  <2> SUFFICES ASSUME NEW h \in heard'
               PROVE  /\ \E p \in published' : <<p[1], p[2], p[4]>> = <<h[1], h[2], h[3]>>
                      /\ h[2] >= h[4]
    OBVIOUS
  <2>1. CASE h \in heard
    BY <2>1 DEF FlightTableInv, PublishedInv, P!OneReceiptPerToken, SinceInv
  <2>2. CASE h \notin heard
    <3>1. PICK s \in PgScopes : \E x \in row[s] : \E r \in x.receipt : \E n \in Nat :
                n <= x.fencingToken /\ h = <<s, x.fencingToken, r, n>>
      BY <2>2
    <3>2. PICK x \in row[s] : \E r \in x.receipt : \E n \in Nat :
                n <= x.fencingToken /\ h = <<s, x.fencingToken, r, n>>
      BY <3>1
    <3>3. PICK r \in x.receipt : \E n \in Nat :
                n <= x.fencingToken /\ h = <<s, x.fencingToken, r, n>>
      BY <3>2
    <3>4. PICK n \in Nat : n <= x.fencingToken /\ h = <<s, x.fencingToken, r, n>>
      BY <3>3
    <3>5. <<s, x.fencingToken, x.flight, r>> \in published
      BY DEF FlightTableInv, PublishedInv
    <3>6. x.fencingToken \in Nat
      BY DEF FlightTableInv, PgTypeOK, P!Rows
    <3> QED
      BY <3>4, <3>5, <3>6
  <2> QED
    BY <2>1, <2>2
<1>4. PublishedInv'
  BY <1>3 DEF FlightTableInv, PublishedInv, P!OneReceiptPerToken
<1>5. SinceInv'
  <2> SUFFICES ASSUME NEW v \in Workers, call'[v].op = "waiting"
               PROVE  /\ (row[call'[v].scope] = {} => call'[v].since = 0)
                      /\ \A x \in row[call'[v].scope] : call'[v].since <= x.fencingToken
    BY <1>3 DEF SinceInv
  <2>1. call'[v] = IF v = w THEN c ELSE call[v]
    BY DEF FlightTableInv, PgTypeOK
  <2> QED
    BY <2>1 DEF FlightTableInv, SinceInv
<1> QED
  BY <1>1, <1>2, <1>4, <1>5 DEF FlightTableInv

LEMMA ClaimCompletedStep ==
  ASSUME FlightTableInv, NEW w \in Workers, NEW s \in PgScopes, NEW t \in P!Instant,
         P!ClaimCompleted(w, s, t)
  PROVE  FlightTableInv'
<1>1. PICK x \in row[s] :
        heard' = heard \cup {<<s, x.fencingToken, r, P!Newest(s)>> : r \in x.receipt}
  BY DEF P!ClaimCompleted
<1>2. x.fencingToken \in Nat
  BY DEF FlightTableInv, PgTypeOK, P!Rows
<1>3. P!Newest(s) = x.fencingToken
  BY NewestIs DEF FlightTableInv
<1>4. /\ UNCHANGED <<row, granted, published>>
      /\ call' = [call EXCEPT ![w] = P!Idle]
  BY DEF P!ClaimCompleted, FlightTableInv, PgTypeOK
<1>5. \A h \in heard' : h \in heard
           \/ \E u \in PgScopes : \E y \in row[u] : \E r \in y.receipt : \E n \in Nat :
                n <= y.fencingToken /\ h = <<u, y.fencingToken, r, n>>
  BY <1>1, <1>2, <1>3
<1> QED
  BY <1>4, <1>5, CallRecords, ReadStep

LEMMA PollStep ==
  ASSUME FlightTableInv, NEW w \in Workers, NEW t \in P!Instant, P!Poll(w, t)
  PROVE  FlightTableInv'
<1>1. call[w].op = "waiting" /\ call[w] \in P!Calls
  BY DEF P!Poll, FlightTableInv, PgTypeOK
<1>2. PICK s \in PgScopes : s = call[w].scope
  BY <1>1, CallRecords
<1>3. PICK n \in Nat : n = call[w].since
  BY <1>1, CallRecords
<1>4. UNCHANGED <<row, granted, published>> /\ call' = [call EXCEPT ![w] = P!Idle]
  BY DEF P!Poll
<1>5. \A h \in heard' : h \in heard
           \/ \E u \in PgScopes : \E y \in row[u] : \E r \in y.receipt : \E m \in Nat :
                m <= y.fencingToken /\ h = <<u, y.fencingToken, r, m>>
  <2>1. CASE UNCHANGED heard
    BY <2>1
  <2>2. ASSUME NEW x \in row[s],
               heard' = heard \cup {<<s, x.fencingToken, r, n>> : r \in x.receipt}
        PROVE  <1>5
    <3>1. n <= x.fencingToken
      BY <1>1, <1>2, <1>3 DEF FlightTableInv, SinceInv
    <3> QED
      BY <2>2, <3>1
  <2> QED
    BY <2>1, <2>2, <1>2, <1>3 DEF P!Poll
<1> QED
  BY <1>4, <1>5, CallRecords, ReadStep

LEMMA StartWaitStep ==
  ASSUME FlightTableInv, NEW w \in Workers, NEW s \in PgScopes, P!StartWait(w, s)
  PROVE  FlightTableInv'
<1> PICK n : n = P!Newest(s)
  OBVIOUS
<1>1. /\ row[s] = {} => n = 0
      /\ \A x \in row[s] : n = x.fencingToken
  BY NewestIs DEF FlightTableInv
<1>2. \A x \in row[s] : x.fencingToken \in P!Token
  BY DEF FlightTableInv, PgTypeOK, P!Rows
<1>3. n \in 0 .. MaxSafeInteger
  BY <1>1, <1>2, MaxSafeIntegerIsPositive
<1> DEFINE c == [op |-> "waiting", scope |-> s, since |-> n]
<1>4. c \in P!Calls /\ c.scope = s /\ c.since = n
  BY <1>3, CallRecords
<1>5. UNCHANGED <<row, granted, published, heard>> /\ call' = [call EXCEPT ![w] = c]
  BY DEF P!StartWait
<1>6. /\ row[c.scope] = {} => c.since = 0
      /\ \A x \in row[c.scope] : c.since <= x.fencingToken
  BY <1>1, <1>2, <1>3, <1>4
<1> HIDE DEF c
<1> QED
  BY <1>4, <1>5, <1>6, ReadStep

LEMMA CompleteStep ==
  ASSUME FlightTableInv, NEW w \in Workers, NEW s \in PgScopes, NEW k \in P!Token,
         NEW r \in Receipts, NEW t \in P!Instant, NEW e \in P!Instant,
         P!Complete(w, s, k, r, t, e)
  PROVE  FlightTableInv'
<1>1. CASE UNCHANGED <<row, published>>
           /\ call' = [call EXCEPT ![w] = [op |-> "missed", scope |-> s]]
  <2> DEFINE c == [op |-> "missed", scope |-> s]
  <2>1. c \in P!Calls /\ c.op # "waiting"
    BY CallRecords
  <2>2. UNCHANGED <<granted, heard>> /\ call' = [call EXCEPT ![w] = c]
    BY <1>1 DEF P!Complete
  <2> HIDE DEF c
  <2> QED
    BY <1>1, <2>1, <2>2, ReadStep
<1>2. ASSUME NEW x \in P!Completable(w, s, k, t), UNCHANGED call,
             row' = [row EXCEPT ![s] = {[x EXCEPT !.state = "COMPLETED",
                                                  !.receipt = {r}, !.expiresAt = e]}],
             published' = published \cup {<<s, k, w, r>>}
      PROVE  FlightTableInv'
  <2> DEFINE new == [x EXCEPT !.state = "COMPLETED", !.receipt = {r}, !.expiresAt = e]
  <2>1. x \in row[s] /\ x.flight = w /\ x.fencingToken = k /\ x.state = "IN_PROGRESS"
    BY DEF P!Completable
  <2>2. /\ new \in P!Rows /\ new.flight = w /\ new.fencingToken = k
        /\ new.state = "COMPLETED" /\ new.receipt = {r}
    <3>1. x \in P!Rows
      BY <2>1 DEF FlightTableInv, PgTypeOK
    <3> QED
      BY <2>1, <3>1 DEF P!Rows
  <2>3. row' = [row EXCEPT ![s] = {new}] /\ UNCHANGED <<granted, heard>>
    BY <1>2 DEF P!Complete
  <2> HIDE DEF new
  <2>4. row'[s] = {new} /\ \A u \in PgScopes : u # s => row'[u] = row[u]
    BY <2>3 DEF FlightTableInv, PgTypeOK
  <2>5. \A p \in published : p[1] = s => p[2] # k
    BY <2>1 DEF FlightTableInv, PublishedInv
  <2>6. \A p \in published' : p \in published \/ (p = <<s, k, w, r>> /\ p[1] = s /\ p[2] = k)
    BY <1>2
  <2>7. PgTypeOK'
    BY <1>2, <2>2, <2>3 DEF FlightTableInv, PgTypeOK
  <2>8. RowNewest'
    <3>1. <<s, k, w>> \in granted /\ AtMost(s, k)
      BY <2>1 DEF FlightTableInv, RowNewest
    <3> QED
      BY <2>2, <2>3, <2>4, <3>1 DEF FlightTableInv, RowNewest, AtMost
  <2>9. PublishedInv'
    <3>1. \A p, q \in published' : p[1] = q[1] /\ p[2] = q[2] => p = q
      BY <2>5, <2>6 DEF FlightTableInv, PublishedInv, P!OneReceiptPerToken
    <3>2. P!OneReceiptPerToken'
      BY <3>1, <1>2, <2>3 DEF FlightTableInv, PublishedInv, P!OneReceiptPerToken
    <3>3. \A p \in published' : \E g \in granted' : g[1] = p[1] /\ g[2] = p[2]
      <4>1. <<s, k, w>> \in granted
        BY <2>1 DEF FlightTableInv, RowNewest
      <4>2. <<s, k, w>>[1] = s /\ <<s, k, w>>[2] = k
        OBVIOUS
      <4> QED
        BY <4>1, <4>2, <2>3, <2>6 DEF FlightTableInv, PublishedInv
    <3>4. ASSUME NEW u \in PgScopes, NEW y \in row'[u]
          PROVE  /\ (y.state = "IN_PROGRESS" =>
                       y.receipt = {} /\ \A p \in published' : p[1] = u => p[2] # y.fencingToken)
                 /\ \A q \in y.receipt : <<u, y.fencingToken, y.flight, q>> \in published'
      <4>1. CASE u = s
        BY <4>1, <3>4, <1>2, <2>2, <2>4
      <4>2. CASE u # s
        BY <4>2, <3>4, <1>2, <2>4, <2>6 DEF FlightTableInv, PublishedInv
      <4> QED
        BY <4>1, <4>2
    <3> QED
      BY <3>2, <3>3, <3>4 DEF PublishedInv
  <2>10. SinceInv'
    <3> SUFFICES ASSUME NEW v \in Workers, call[v].op = "waiting"
                 PROVE  /\ (row'[call[v].scope] = {} => call[v].since = 0)
                        /\ \A y \in row'[call[v].scope] : call[v].since <= y.fencingToken
      BY <1>2, <2>3 DEF FlightTableInv, SinceInv
    <3>1. PICK u \in PgScopes : u = call[v].scope
      BY CallRecords DEF FlightTableInv, PgTypeOK
    <3>2. /\ row[u] = {} => call[v].since = 0
          /\ \A y \in row[u] : call[v].since <= y.fencingToken
      BY <3>1 DEF FlightTableInv, SinceInv
    <3>3. CASE u = s
      BY <3>1, <3>2, <3>3, <2>1, <2>2, <2>4
    <3>4. CASE u # s
      BY <3>1, <3>2, <3>4, <2>4
    <3> QED
      BY <3>3, <3>4
  <2> QED
    BY <2>7, <2>8, <2>9, <2>10 DEF FlightTableInv
<1> QED
  BY <1>1, <1>2 DEF P!Complete

LEMMA FlightTableStep ==
  ASSUME FlightTableInv, [P!Next]_P!vars
  PROVE  FlightTableInv'
<1>1. ASSUME NEW w \in Workers, P!ExplainMiss(w) \/ P!GiveUp(w) \/ P!Restart(w)
      PROVE  FlightTableInv'
  <2>1. UNCHANGED <<row, granted, published, heard>> /\ call' = [call EXCEPT ![w] = P!Idle]
    BY <1>1 DEF P!ExplainMiss, P!GiveUp, P!Restart
  <2> QED
    BY <2>1, CallRecords, ReadStep
<1>2. CASE UNCHANGED P!vars
  BY <1>2 DEF P!vars, FlightTableInv, PgTypeOK, RowNewest, AtMost, PublishedInv,
              P!OneReceiptPerToken, SinceInv
<1>3. ASSUME NEW w \in Workers, NEW t \in P!Instant, P!Poll(w, t)
      PROVE  FlightTableInv'
  BY <1>3, PollStep
<1>4. ASSUME NEW w \in Workers, NEW s \in PgScopes, P!StartWait(w, s)
      PROVE  FlightTableInv'
  BY <1>4, StartWaitStep
<1>5. ASSUME NEW w \in Workers, NEW s \in PgScopes, NEW t \in P!Instant,
             P!ClaimCompleted(w, s, t)
      PROVE  FlightTableInv'
  BY <1>5, ClaimCompletedStep
<1>6. ASSUME NEW w \in Workers, NEW s \in PgScopes, NEW t \in P!Instant,
             NEW e \in P!Instant, P!ClaimLeads(w, s, t, e)
      PROVE  FlightTableInv'
  BY <1>6, ClaimLeadsStep
<1>7. ASSUME NEW w \in Workers, NEW s \in PgScopes, NEW t \in P!Instant,
             NEW e \in P!Instant, NEW k \in P!Token, NEW r \in Receipts,
             P!Complete(w, s, k, r, t, e)
      PROVE  FlightTableInv'
  BY <1>7, CompleteStep
<1> QED
  BY <1>1, <1>2, <1>3, <1>4, <1>5, <1>6, <1>7 DEF P!Next

(* However the workers' claims, completions, reads, lost answers and       *)
(* restarts interleave, and whatever their clocks say, a fencing token     *)
(* gets one receipt and everybody who is answered COMPLETED under it gets  *)
(* that one (claim, complete, waitForCompletion).                          *)
THEOREM OneReceiptPerTokenTheorem == P!Spec => []OneReceiptPerToken
<1>1. FlightTableInv => OneReceiptPerToken
  BY DEF FlightTableInv, PublishedInv, OneReceiptPerToken
<1> QED
  BY <1>1, FlightInit, FlightTableStep, PTL DEF P!Spec

(* A receipt is published only under the newest token of its scope, and no *)
(* answer is older than the newest token there was when the call began, at *)
(* every step of the table (complete, claim, waitForCompletion).           *)
THEOREM NothingOldIsUsedTheorem == P!Spec => NothingOldIsUsed
<1> DEFINE NothingOld == /\ \A p \in published' \ published : p[2] = P!Newest(p[1])
                         /\ \A h \in heard' : h[2] >= h[4]
<1>1. ASSUME FlightTableInv, FlightTableInv', [P!Next]_P!vars
      PROVE  [NothingOld]_P!vars
  <2>1. \A h \in heard' : h[2] >= h[4]
    BY <1>1 DEF FlightTableInv, SinceInv
  <2>2. ASSUME NEW w \in Workers, NEW s \in PgScopes, NEW t \in P!Instant,
               NEW e \in P!Instant, NEW k \in P!Token, NEW r \in Receipts,
               P!Complete(w, s, k, r, t, e), NEW p \in published' \ published
        PROVE  p[2] = P!Newest(p[1])
    <3>1. PICK x \in P!Completable(w, s, k, t) : p = <<s, k, w, r>>
      BY <2>2 DEF P!Complete
    <3>2. x \in row[s] /\ x.fencingToken = k
      BY DEF P!Completable
    <3>3. P!Newest(s) = k
      BY <3>2, <1>1, NewestIs DEF FlightTableInv
    <3> QED
      BY <3>1, <3>3
  <2>3. published' # published =>
          \E w \in Workers, s \in PgScopes, t \in P!Instant, e \in P!Instant,
             k \in P!Token, r \in Receipts : P!Complete(w, s, k, r, t, e)
    BY <1>1 DEF P!Next, P!vars, P!ExplainMiss, P!GiveUp, P!Restart, P!Poll, P!StartWait,
                P!ClaimCompleted, P!ClaimLeads
  <2> QED
    BY <2>1, <2>2, <2>3
<1>2. P!Spec => []FlightTableInv
  BY FlightInit, FlightTableStep, PTL DEF P!Spec
<1> QED
  BY <1>1, <1>2, PTL DEF P!Spec, NothingOldIsUsed, P!NothingOldIsUsed
-----------------------------------------------------------------------------

(***************************************************************************)
(* One process.  A flight whose promise is open is in the map and its      *)
(* generation is the latest of the resource exactly as long as no flight   *)
(* for another version has started: a generation that comes back after     *)
(* another has a token of its own, and clean-up forgets a generation only  *)
(* when no flight of the resource is left.                                 *)
(***************************************************************************)
IsLatest(f) == latestByResource[f.resource] = [sup |-> f.sup, token |-> f.token]

FlightOK(f) ==
  /\ f.id <= started /\ f.token <= nextFencingToken
  /\ f.outcome = "none" => f.phase # "done" /\ (f.overtaken = ~IsLatest(f))
  /\ f.outcome \in {"ANSWER", "FENCED"} => f.phase = "done"
  /\ f.reply = "echo" /\ f.outcome \in {"ANSWER", "FENCED"}
       => (f.outcome = "FENCED" <=> f.overtaken)

FencedInv ==
  /\ TypeOK
  /\ nextFencingToken <= started
  /\ open = {f.id : f \in flights}
  /\ \A r \in Resources : latestByResource[r].token <= nextFencingToken
  /\ \A f \in flights : FlightOK(f)

LEMMA FencedInit == Init => FencedInv
<1> SUFFICES ASSUME Init PROVE FencedInv
  OBVIOUS
<1>1. NoGeneration \in Generations /\ NoGeneration.token = 0
  BY DEF Generations, NoGeneration
<1>2. TypeOK
  BY <1>1, ScopeAssumption DEF Init, TypeOK
<1>3. \A r \in Resources : latestByResource[r].token <= nextFencingToken
  BY <1>1 DEF Init
<1> QED
  BY <1>2, <1>3 DEF Init, FencedInv

(* A flight is replaced by one that differs in what the step sets. *)
LEMMA BecomesStep ==
  ASSUME FencedInv, NEW f \in flights, NEW g \in Flights, Becomes(f, g),
         UNCHANGED <<open, latestByResource, nextFencingToken, started>>,
         g.id = f.id, g.outcome # "none" => g.waiting = {}, FlightOK(g)
  PROVE  FencedInv'
<1>1. flights' = (flights \ {f}) \cup {g}
  BY DEF Becomes
<1>2. \A h \in flights : h.id = f.id => h = f
  BY DEF FencedInv, TypeOK
<1>3. {h.id : h \in flights'} = {h.id : h \in flights}
  BY <1>1
<1>4. TypeOK'
  <2>1. \A h, k \in flights' : h.id = k.id => h = k
    BY <1>1, <1>2 DEF FencedInv, TypeOK
  <2> QED
    BY <1>1, <1>3, <2>1 DEF FencedInv, TypeOK
<1>5. \A h \in flights' : FlightOK(h)'
  <2> SUFFICES ASSUME NEW h \in flights' PROVE FlightOK(h)'
    OBVIOUS
  <2>1. FlightOK(h)
    BY <1>1 DEF FencedInv
  <2> QED
    BY <2>1 DEF FlightOK, IsLatest
<1> QED
  BY <1>3, <1>4, <1>5 DEF FencedInv

LEMMA JoinStep ==
  ASSUME FencedInv, NEW c \in Callers, NEW f \in flights, f.outcome = "none",
         flights' = (flights \ {f}) \cup {[f EXCEPT !.waiting = @ \cup {c}]},
         UNCHANGED <<open, latestByResource, nextFencingToken, started>>
  PROVE  FencedInv'
<1> DEFINE g == [f EXCEPT !.waiting = f.waiting \cup {c}]
<1>1. f \in Flights /\ FlightOK(f)
  BY DEF FencedInv, TypeOK
<1>2. /\ g \in Flights /\ g.id = f.id /\ g.token = f.token /\ g.outcome = f.outcome
      /\ g.phase = f.phase /\ g.overtaken = f.overtaken /\ g.reply = f.reply
      /\ g.resource = f.resource /\ g.sup = f.sup
  BY <1>1 DEF Flights
<1>3. Becomes(f, g)
  BY DEF Becomes
<1> HIDE DEF g
<1>4. FlightOK(g)
  BY <1>1, <1>2 DEF FlightOK, IsLatest
<1> QED
  BY <1>2, <1>3, <1>4, BecomesStep

LEMMA CallSourceStep ==
  ASSUME FencedInv, NEW f \in flights, CallSource(f)
  PROVE  FencedInv'
<1> DEFINE g == [f EXCEPT !.phase = IF f.outcome = "none" THEN "running" ELSE "done"]
<1>1. f \in Flights /\ FlightOK(f) /\ (f.outcome # "none" => f.waiting = {})
  BY DEF FencedInv, TypeOK
<1>2. /\ g \in Flights /\ g.id = f.id /\ g.token = f.token /\ g.outcome = f.outcome
      /\ g.phase = (IF f.outcome = "none" THEN "running" ELSE "done")
      /\ g.overtaken = f.overtaken /\ g.reply = f.reply /\ g.waiting = f.waiting
      /\ g.resource = f.resource /\ g.sup = f.sup
  BY <1>1 DEF Flights
<1>3. Becomes(f, g) /\ UNCHANGED <<open, latestByResource, nextFencingToken, started>>
  BY DEF CallSource
<1> HIDE DEF g
<1>4. FlightOK(g)
  BY <1>1, <1>2 DEF FlightOK, IsLatest
<1> QED
  BY <1>1, <1>2, <1>3, <1>4, BecomesStep

LEMMA TimeoutOrAbortStep ==
  ASSUME FencedInv, NEW f \in flights, NEW o \in {"TIMEOUT", "ABORTED"},
         Becomes(f, Settled(f, o)),
         UNCHANGED <<open, latestByResource, nextFencingToken, started>>
  PROVE  FencedInv'
<1> DEFINE g == Settled(f, o)
<1>1. f \in Flights /\ FlightOK(f)
  BY DEF FencedInv, TypeOK
<1>2. /\ g \in Flights /\ g.id = f.id /\ g.token = f.token /\ g.outcome = o /\ g.waiting = {}
  BY <1>1 DEF Flights, Settled
<1> HIDE DEF g
<1>3. FlightOK(g)
  BY <1>1, <1>2 DEF FlightOK
<1>4. Becomes(f, g)
  BY DEF g
<1> QED
  BY <1>2, <1>3, <1>4, BecomesStep

LEMMA SourceSettlesStep ==
  ASSUME FencedInv, NEW f \in flights, NEW reply \in {"echo", "wrong", "abort", "error"},
         SourceSettles(f, reply)
  PROVE  FencedInv'
<1> DEFINE settled == [f EXCEPT !.phase = "done", !.reply = reply]
           o == OutcomeOf(f, reply)
           g == IF f.outcome # "none" THEN settled ELSE Settled(settled, o)
<1>1. f \in Flights /\ FlightOK(f) /\ (f.outcome # "none" => f.waiting = {})
  BY DEF FencedInv, TypeOK
<1>2. /\ o \in {"ANSWER", "FENCED", "ABORTED", "ERROR"}
      /\ reply = "echo" => o = (IF IsLatest(f) THEN "ANSWER" ELSE "FENCED")
  BY DEF OutcomeOf, IsLatest
<1>3. f.phase = "running"
  BY DEF SourceSettles
<1> HIDE DEF o
<1>4. /\ g \in Flights /\ g.id = f.id /\ g.token = f.token /\ g.phase = "done"
      /\ g.overtaken = f.overtaken /\ g.reply = reply /\ g.waiting = {}
      /\ g.outcome = IF f.outcome # "none" THEN f.outcome ELSE o
  BY <1>1, <1>2 DEF Flights, Settled
<1>5. Becomes(f, g) /\ UNCHANGED <<open, latestByResource, nextFencingToken, started>>
  BY DEF SourceSettles, o
<1> HIDE DEF g
<1>6. FlightOK(g)
  <2>1. f.outcome = "none" => f.overtaken = ~IsLatest(f)
    BY <1>1 DEF FlightOK
  <2>2. f.outcome \notin {"ANSWER", "FENCED"}
    BY <1>1, <1>3 DEF FlightOK
  <2>3. g.reply = "echo" /\ g.outcome \in {"ANSWER", "FENCED"}
          => (g.outcome = "FENCED" <=> g.overtaken)
    BY <1>2, <1>4, <2>1, <2>2
  <2> QED
    BY <1>1, <1>2, <1>4, <2>3 DEF FlightOK
<1> QED
  BY <1>4, <1>5, <1>6, BecomesStep

LEMMA CleanupStep ==
  ASSUME FencedInv, NEW f \in flights, Cleanup(f)
  PROVE  FencedInv'
<1>1. /\ f.phase = "done" /\ flights' = flights \ {f} /\ open' = open \ {f.id}
      /\ UNCHANGED <<nextFencingToken, started>>
  BY DEF Cleanup
<1>2. f \in Flights /\ f.resource \in Resources
  BY DEF FencedInv, TypeOK, Flights
<1>3. \A h \in flights : h.id = f.id => h = f
  BY DEF FencedInv, TypeOK
<1>4. open' = {h.id : h \in flights'}
  BY <1>1, <1>3 DEF FencedInv
<1>5. NoGeneration \in Generations /\ NoGeneration.token = 0
  BY DEF Generations, NoGeneration
<1>6. /\ latestByResource' \in [Resources -> Generations]
      /\ \A r \in Resources : latestByResource'[r].token <= nextFencingToken'
  BY <1>1, <1>2, <1>5 DEF Cleanup, FencedInv, TypeOK
<1>7. TypeOK'
  BY <1>1, <1>4, <1>6 DEF FencedInv, TypeOK
<1>8. ASSUME NEW h \in flights' PROVE FlightOK(h)'
  <2>1. h \in flights /\ h.id # f.id /\ FlightOK(h) /\ h.resource \in Resources
    BY <1>1, <1>3 DEF FencedInv, TypeOK, Flights
  <2>2. h.id \in open \ {f.id}
    BY <2>1 DEF FencedInv
  <2>3. latestByResource'[h.resource] = latestByResource[h.resource]
    <3>1. CASE h.resource = f.resource
      BY <3>1, <2>1, <2>2 DEF Cleanup, LastOfResource
    <3>2. CASE h.resource # f.resource
      BY <3>2, <2>1, <1>2 DEF Cleanup, FencedInv, TypeOK
    <3> QED
      BY <3>1, <3>2
  <2> QED
    BY <1>1, <2>1, <2>3 DEF FlightOK, IsLatest
<1> QED
  BY <1>1, <1>4, <1>6, <1>7, <1>8 DEF FencedInv

LEMMA OvertakenFlight ==
  ASSUME NEW f \in Flights, NEW g, g = [f EXCEPT !.overtaken = TRUE]
  PROVE  /\ g \in Flights /\ g.id = f.id /\ g.token = f.token
         /\ g.resource = f.resource /\ g.sup = f.sup
         /\ g.phase = f.phase /\ g.outcome = f.outcome
         /\ g.waiting = f.waiting /\ g.reply = f.reply
BY DEF Flights

LEMMA LeadStep ==
  ASSUME FencedInv, NEW c \in Callers, NEW key, NEW resource \in Resources, NEW sup,
         NEW option \in Options, Lead(c, key, resource, sup, option),
         started < MaxFlights => key \in Keys /\ sup \in Supersessions
  PROVE  FencedInv'
<1>t. PICK token : token = TokenFor(resource, sup)
  OBVIOUS
<1>l. PICK latest : latest = latestByResource[resource]
  OBVIOUS
<1>n. PICK n : n = started + 1
  OBVIOUS
<1> DEFINE aborted == option.signal = "aborted"
           new == [id |-> n, key |-> key, resource |-> resource, sup |-> sup,
                 token |-> token, timer |-> option.timer,
                 signal |-> option.signal = "live",
                 waiting |-> IF aborted THEN {} ELSE {c}, phase |-> "queued",
                 outcome |-> IF aborted THEN "ABORTED" ELSE "none",
                 reply |-> "none", overtaken |-> FALSE]
           overtakes(f) == f.resource = resource /\ f.sup # sup /\ f.outcome = "none"
           mark(f) == IF overtakes(f) THEN [f EXCEPT !.overtaken = TRUE] ELSE f
<1>p. PICK flight : flight = new
  OBVIOUS
<1>q. PICK marked : marked = [f \in flights |-> mark(f)]
  OBVIOUS
<1>1. /\ started < MaxFlights /\ started' = n
      /\ nextFencingToken' = (IF token > nextFencingToken THEN token ELSE nextFencingToken)
      /\ latestByResource' = [latestByResource EXCEPT ![resource] =
                                [sup |-> sup, token |-> token]]
      /\ open' = open \cup {n}
  BY <1>n, <1>t DEF Lead
<1>f. flights' = {flight} \cup {marked[f] : f \in flights}
  <2>1. flights' = {new} \cup {mark(f) : f \in flights}
    BY <1>n, <1>t DEF Lead
  <2> HIDE DEF new, mark
  <2> QED
    BY <2>1, <1>p, <1>q
<1>2. key \in Keys /\ sup \in Supersessions
  BY <1>1
<1>3. /\ MaxFlights \in Nat /\ started \in Nat /\ nextFencingToken \in Nat
      /\ nextFencingToken <= started
  BY ScopeAssumption DEF FencedInv, TypeOK
<1>4. latest \in Generations /\ latest.token <= nextFencingToken
  BY <1>l DEF FencedInv, TypeOK
<1>5. /\ token \in Ids
      /\ \/ latest.sup = sup /\ token = latest.token /\ token <= nextFencingToken
         \/ latest.sup # sup /\ token = nextFencingToken + 1
  <2>1. CASE latest.sup = sup
    <3>1. sup # 0
      BY <1>2, ScopeAssumption DEF Supersessions, Ids
    <3>2. latest # NoGeneration
      BY <2>1, <3>1 DEF NoGeneration
    <3>3. latest.token \in Ids
      BY <3>2, <1>4 DEF Generations
    <3> QED
      BY <2>1, <3>3, <1>4, <1>l, <1>t DEF TokenFor
  <2>2. CASE latest.sup # sup
    <3>1. token = nextFencingToken + 1
      BY <2>2, <1>l, <1>t DEF TokenFor
    <3> QED
      BY <2>2, <3>1, <1>1, <1>3 DEF Ids
  <2> QED
    BY <2>1, <2>2
<1>6. /\ nextFencingToken' \in Nat /\ nextFencingToken' <= n
      /\ token <= nextFencingToken' /\ nextFencingToken <= nextFencingToken'
  BY <1>1, <1>3, <1>5, <1>n DEF Ids
<1>7. /\ flight \in Flights /\ flight.id = n /\ flight.token = token
      /\ flight.resource = resource /\ flight.sup = sup /\ flight.phase = "queued"
      /\ flight.outcome \in {"none", "ABORTED"}
      /\ flight.outcome # "none" => flight.waiting = {}
  <2>1. option.timer \in BOOLEAN
    BY ScopeAssumption
  <2>2. n \in Ids
    BY <1>1, <1>3, <1>n DEF Ids
  <2> QED
    BY <2>1, <2>2, <1>2, <1>5, <1>p DEF Flights
<1>u. flight.overtaken = FALSE
  BY <1>p
<1>8. ASSUME NEW f \in flights
      PROVE  /\ f \in Flights /\ f.id \in Nat /\ f.id <= started
             /\ f.token \in Nat /\ f.token <= nextFencingToken /\ f.resource \in Resources
             /\ f.outcome # "none" => f.waiting = {}
  <2>1. f \in Flights /\ FlightOK(f) /\ (f.outcome # "none" => f.waiting = {})
    BY DEF FencedInv, TypeOK
  <2>2. f.id \in Nat /\ f.token \in Nat /\ f.resource \in Resources
    BY <2>1 DEF Flights, Ids
  <2> QED
    BY <2>1, <2>2 DEF FlightOK
<1>m. ASSUME NEW f \in flights
      PROVE  /\ marked[f] \in Flights /\ marked[f].id = f.id /\ marked[f].token = f.token
             /\ marked[f].resource = f.resource /\ marked[f].sup = f.sup
             /\ marked[f].phase = f.phase /\ marked[f].outcome = f.outcome
             /\ marked[f].waiting = f.waiting /\ marked[f].reply = f.reply
  <2>1. CASE overtakes(f)
    <3>1. marked[f] = [f EXCEPT !.overtaken = TRUE]
      BY <2>1, <1>q
    <3>2. f \in Flights
      BY <1>8
    <3> QED
      BY <3>1, <3>2, OvertakenFlight
  <2>2. CASE ~overtakes(f)
    <3>1. marked[f] = f
      BY <2>2, <1>q
    <3> QED
      BY <3>1, <1>8
  <2> QED
    BY <2>1, <2>2
<1>o. ASSUME NEW f \in flights
      PROVE  /\ overtakes(f) => marked[f].overtaken = TRUE
             /\ ~overtakes(f) => marked[f].overtaken = f.overtaken
  <2>1. CASE overtakes(f)
    <3>1. marked[f] = [f EXCEPT !.overtaken = TRUE]
      BY <2>1, <1>q
    <3>2. marked[f].overtaken = TRUE
      BY <3>1, <1>8 DEF Flights
    <3> QED
      BY <2>1, <3>2
  <2>2. CASE ~overtakes(f)
    BY <2>2, <1>q
  <2> QED
    BY <2>1, <2>2
<1> HIDE DEF new, mark
<1>9. ASSUME NEW g \in flights'
      PROVE  g = flight \/ \E f \in flights : g = marked[f]
  BY <1>f
<1>10. open' = {g.id : g \in flights'}
  <2>1. \A g \in flights' : g.id \in open'
    BY <1>1, <1>7, <1>m, <1>9 DEF FencedInv
  <2>2. ASSUME NEW i \in open' PROVE \E g \in flights' : i = g.id
    <3>1. CASE i = n
      BY <3>1, <1>f, <1>7
    <3>2. CASE i \in open
      <4>1. PICK f \in flights : i = f.id
        BY <3>2 DEF FencedInv
      <4> QED
        BY <4>1, <1>f, <1>m
    <3> QED
      BY <3>1, <3>2, <1>1
  <2> QED
    BY <2>1, <2>2
<1>11. TypeOK'
  <2>1. flights' \subseteq Flights
    BY <1>7, <1>m, <1>9
  <2>2. latestByResource' \in [Resources -> Generations]
    BY <1>1, <1>2, <1>5 DEF FencedInv, TypeOK, Generations
  <2>3. started' \in 0 .. MaxFlights /\ nextFencingToken' \in 0 .. MaxFlights
    BY <1>1, <1>3, <1>6, <1>n
  <2>4. \A g \in flights' : g.outcome # "none" => g.waiting = {}
    BY <1>7, <1>8, <1>m, <1>9
  <2>5. ASSUME NEW g \in flights', NEW h \in flights', g.id = h.id PROVE g = h
    <3>1. CASE g = flight /\ h = flight
      BY <3>1
    <3>2. CASE \E f \in flights : g = marked[f] /\ h = flight
      BY <3>2, <2>5, <1>3, <1>7, <1>8, <1>m, <1>n
    <3>3. CASE \E f \in flights : h = marked[f] /\ g = flight
      BY <3>3, <2>5, <1>3, <1>7, <1>8, <1>m, <1>n
    <3>4. ASSUME NEW f \in flights, NEW k \in flights, g = marked[f], h = marked[k]
          PROVE  g = h
      <4>1. f.id = k.id
        BY <3>4, <2>5, <1>m
      <4>2. f = k
        BY <4>1 DEF FencedInv, TypeOK
      <4> QED
        BY <3>4, <4>2
    <3> QED
      BY <3>1, <3>2, <3>3, <3>4, <1>9
  <2> QED
    BY <1>10, <2>1, <2>2, <2>3, <2>4, <2>5 DEF TypeOK
<1>12. \A r \in Resources : latestByResource'[r].token <= nextFencingToken'
  <2> SUFFICES ASSUME NEW r \in Resources
               PROVE  latestByResource'[r].token <= nextFencingToken'
    OBVIOUS
  <2>1. CASE r = resource
    BY <2>1, <1>1, <1>6 DEF FencedInv, TypeOK
  <2>2. CASE r # resource
    <3>1. latestByResource'[r] = latestByResource[r]
      BY <2>2, <1>1 DEF FencedInv, TypeOK
    <3>2. latestByResource[r] \in Generations /\ latestByResource[r].token <= nextFencingToken
      BY DEF FencedInv, TypeOK
    <3>3. latestByResource[r].token \in Nat
      BY <3>2 DEF Generations, NoGeneration, Ids
    <3> QED
      BY <3>1, <3>2, <3>3, <1>3, <1>6
  <2> QED
    BY <2>1, <2>2
<1>13. latestByResource'[resource] = [sup |-> sup, token |-> token]
  BY <1>1 DEF FencedInv, TypeOK
<1>14. FlightOK(flight)'
  <2>1. flight.id <= started' /\ flight.token <= nextFencingToken'
    BY <1>1, <1>3, <1>6, <1>7, <1>n
  <2>2. flight.overtaken = ~(latestByResource'[flight.resource]
                               = [sup |-> flight.sup, token |-> flight.token])
    BY <1>7, <1>u, <1>13
  <2> QED
    BY <1>7, <2>1, <2>2 DEF FlightOK, IsLatest
<1>15. ASSUME NEW f \in flights PROVE FlightOK(marked[f])'
  <2> PICK g : g = marked[f]
    OBVIOUS
  <2>1. f.token \in Nat /\ f.token <= nextFencingToken /\ f.resource \in Resources /\ FlightOK(f)
    BY <1>8 DEF FencedInv
  <2>2. g.id <= started' /\ g.token <= nextFencingToken'
    BY <2>1, <1>1, <1>3, <1>6, <1>8, <1>m, <1>n
  <2>3. ASSUME f.outcome = "none"
        PROVE  g.overtaken = ~(latestByResource'[f.resource] = [sup |-> f.sup, token |-> f.token])
    <3>1. f.overtaken = ~(latestByResource[f.resource] = [sup |-> f.sup, token |-> f.token])
      BY <2>1, <2>3 DEF FlightOK, IsLatest
    <3>2. CASE f.resource # resource
      <4>1. latestByResource'[f.resource] = latestByResource[f.resource]
        BY <3>2, <2>1, <1>1 DEF FencedInv, TypeOK
      <4> QED
        BY <3>1, <3>2, <4>1, <1>o
    <3>3. CASE f.resource = resource /\ f.sup # sup
      <4>1. [sup |-> sup, token |-> token] # [sup |-> f.sup, token |-> f.token]
        BY <3>3
      <4> QED
        BY <3>3, <4>1, <2>3, <1>o, <1>13
    <3>4. CASE f.resource = resource /\ f.sup = sup
      <4>1. g.overtaken = f.overtaken
        BY <3>4, <1>o
      <4>2. CASE latest.sup = sup
        <5>1. latest \in [sup : Supersessions, token : Ids]
          <6>1. sup # 0
            BY <1>2, ScopeAssumption DEF Supersessions, Ids
          <6> QED
            BY <4>2, <6>1, <1>4 DEF Generations, NoGeneration
        <5>2. latest = [sup |-> sup, token |-> token]
          BY <4>2, <5>1, <1>5
        <5> QED
          BY <3>1, <3>4, <4>1, <5>2, <1>13, <1>l
      <4>3. CASE latest.sup # sup
        <5>1. f.overtaken = TRUE
          <6>1. latest # [sup |-> f.sup, token |-> f.token]
            BY <3>4, <4>3
          <6> QED
            BY <3>1, <3>4, <6>1, <1>l
        <5>2. token # f.token
          BY <4>3, <2>1, <1>3, <1>5
        <5>3. [sup |-> sup, token |-> token] # [sup |-> f.sup, token |-> f.token]
          BY <5>2
        <5> QED
          BY <3>4, <4>1, <5>1, <5>3, <1>13
      <4> QED
        BY <4>2, <4>3
    <3> QED
      BY <3>2, <3>3, <3>4
  <2>4. f.outcome # "none" => g.overtaken = f.overtaken
    BY <1>o
  <2>5. FlightOK(f) /\ g.outcome = f.outcome /\ g.phase = f.phase /\ g.reply = f.reply
        /\ g.resource = f.resource /\ g.sup = f.sup /\ g.token = f.token
    BY <2>1, <1>m
  <2>6. FlightOK(g)'
    BY <2>2, <2>3, <2>4, <2>5 DEF FlightOK, IsLatest
  <2> QED
    BY <2>6
<1>16. \A g \in flights' : FlightOK(g)'
  BY <1>9, <1>14, <1>15
<1> QED
  BY <1>1, <1>6, <1>10, <1>11, <1>12, <1>16 DEF FencedInv

LEMMA FencedStep ==
  ASSUME FencedInv, [Next]_vars
  PROVE  FencedInv'
<1>1. ASSUME NEW c \in Callers, NEW option \in Options, NEW s \in Scopes,
             ValidateScope(c, s, option)
      PROVE  FencedInv'
  <2>1. CASE \E f \in InMap(s) :
          /\ f.outcome = "none"
          /\ flights' = (flights \ {f}) \cup {[f EXCEPT !.waiting = @ \cup {c}]}
          /\ UNCHANGED <<open, latestByResource, nextFencingToken, started>>
    BY <2>1, JoinStep DEF InMap
  <2>2. CASE Lead(c, s, ResourceOf[s], VersionOf[s], option)
    <3>1. s \in Keys /\ ResourceOf[s] \in Resources /\ VersionOf[s] \in Supersessions
      BY ScopeAssumption DEF Keys, Supersessions
    <3> QED
      BY <2>2, <3>1, LeadStep
  <2> QED
    BY <1>1, <2>1, <2>2 DEF ValidateScope
<1>2. ASSUME NEW c \in Callers, NEW option \in Options, NEW r \in Resources,
             ValidateLegacy(c, r, option)
      PROVE  FencedInv'
  <2>1. Lead(c, started + 1, r, started + 1, option)
    BY <1>2 DEF ValidateLegacy
  <2>2. started < MaxFlights => started + 1 \in Keys /\ started + 1 \in Supersessions
    BY ScopeAssumption DEF FencedInv, TypeOK, Keys, Supersessions, Ids
  <2> QED
    BY <2>1, <2>2, LeadStep
<1>3. ASSUME NEW f \in flights, TimerFires(f) \/ SignalAborts(f)
      PROVE  FencedInv'
  BY <1>3, TimeoutOrAbortStep DEF TimerFires, SignalAborts
<1>4. CASE UNCHANGED vars
  BY <1>4 DEF vars, FencedInv, TypeOK, FlightOK, IsLatest
<1> QED
  BY <1>1, <1>2, <1>3, <1>4, CallSourceStep, SourceSettlesStep, CleanupStep DEF Next

(* The coordinator's state keeps its types, and every flight's open        *)
(* promise goes with a source call and an entry of the map, under every    *)
(* order of calls, answers, time-outs, aborts and clean-ups (validate).    *)
THEOREM FencedInvariance == Spec => []FencedInv
BY FencedInit, FencedStep, PTL DEF Spec

(* A source's answer is withheld exactly when a flight for another version *)
(* of the resource started before it arrived, for every number of callers, *)
(* scopes, versions and flights (validate, execute, cleanup).              *)
THEOREM FencedExactlyWhenOvertakenTheorem == Spec => []FencedExactlyWhenOvertaken
<1>1. FencedInv => FencedExactlyWhenOvertaken
  BY DEF FencedInv, FlightOK, FencedExactlyWhenOvertaken
<1> QED
  BY <1>1, FencedInvariance, PTL

(* A flight with callers that were not answered has its source call still  *)
(* to come back and is in the map (validate, execute, cleanup).            *)
THEOREM NobodyWaitsInVainTheorem == Spec => []NobodyWaitsInVain
<1>1. FencedInv => NobodyWaitsInVain
  BY DEF FencedInv, TypeOK, FlightOK, NobodyWaitsInVain
<1> QED
  BY <1>1, FencedInvariance, PTL
=============================================================================
