-------------------------- MODULE RequestPathProofs --------------------------
(***************************************************************************)
(* The edge of the service, for every set of calls, requests, premises,    *)
(* deliveries and keys and for every bound: what a client is told of its   *)
(* requests, and what the parts of MCRequestPath promise beside them.      *)
(***************************************************************************)
EXTENDS MCRequestPath, Sequences, FiniteSetTheorems, TLAPS

(***************************************************************************)
(* The path of a request.  Told requests are durable because every way to  *)
(* an answer passes a row that was completed, or the handler that waited;  *)
(* both are durable before, and durable requests stay.  The mirror keeps   *)
(* requests of different keys and memories only, and a refusal names a     *)
(* request of somebody else.                                               *)
(***************************************************************************)
CallPhases == {"idle", "backoff", "waiting", "done"}
HandlerPhases == {"none", "arrived", "claimed", "verified", "acted", "durable", "releasing",
                  "answered", "gone"}
Replies == {"none", "stored", "conflict", "exists", "invalid", "failed", "in-progress",
            "unavailable", "error", "silence"}
RowType == [op : {x.op : x \in Requests}, key : {x.key : x \in Requests}, by : Requests,
            state : {"IN_PROGRESS", "COMPLETED"}, owner : Handlers, aged : BOOLEAN]

Asked(x) == \E c \in Calls : x = request[c]

ChosenInv == mode \in {"postgres", "memory"} /\ request \in [Calls -> Requests]

(* An attempt that is awaited has a handler, and one can still be made     *)
(* while the client backs off.                                             *)
CallsInv ==
  /\ calls \in [Calls -> [phase : CallPhases, attempt : 0 .. MaxAttempts, result : Replies]]
  /\ \A c \in Calls : /\ calls[c].phase \in {"idle", "backoff"} => calls[c].attempt < MaxAttempts
                      /\ calls[c].phase = "waiting" => calls[c].attempt > 0
  /\ OwnAttemptsNeverConflict

HandlersInv ==
  /\ handlers \in [Handlers -> [phase : HandlerPhases, reply : Replies]]
  /\ \A h \in Handlers :
       /\ handlers[h].phase = "durable" => Asks(h) \in durable
       /\ handlers[h].reply \in {"conflict", "exists"} => Interferes(h[1])

RowsInv ==
  /\ rows \subseteq RowType
  /\ \A w \in rows : /\ Asked(w.by) /\ w.op = w.by.op /\ w.key = w.by.key
                     /\ w.state = "COMPLETED" => w.by \in durable

StoreInv ==
  /\ told \subseteq durable /\ durable \subseteq stored
  /\ \A x \in stored : Asked(x)
  /\ \A x, y \in stored : x = y \/ (x.key # y.key /\ x.memory # y.memory)

RequestInv == ChosenInv /\ CallsInv /\ HandlersInv /\ RowsInv /\ StoreInv

LEMMA InitRequestInv == Init => RequestInv
<1> SUFFICES ASSUME Init PROVE RequestInv
  OBVIOUS
<1>1. ChosenInv
  BY RequestAssumption DEF Init, ChosenInv
<1>2. CallsInv
  BY RequestAssumption DEF Init, CallsInv, CallPhases, Replies, OwnAttemptsNeverConflict
<1>3. HandlersInv
  BY DEF Init, HandlersInv, HandlerPhases, Replies
<1>4. RowsInv /\ StoreInv
  BY DEF Init, RowsInv, StoreInv
<1>5. QED
  BY <1>1, <1>2, <1>3, <1>4 DEF RequestInv

(* The ways a step ends for the client. *)
LEMMA HeardStep ==
  ASSUME RequestInv, NEW c \in Calls, NEW reply \in Replies, Heard(c, reply),
         calls[c].phase = "waiting", UNCHANGED request,
         reply \in {"conflict", "exists"} => Interferes(c)
  PROVE  CallsInv'
<1> DEFINE r == calls'[c]
<1>1. /\ r.attempt = calls[c].attempt /\ r.attempt \in 0 .. MaxAttempts
      /\ r.phase \in {"backoff", "done"} /\ (r.phase = "backoff" => r.attempt < MaxAttempts)
      /\ r.result \in {"failed", reply}
      /\ r \in [phase : CallPhases, attempt : 0 .. MaxAttempts, result : Replies]
  BY DEF Heard, RequestInv, CallsInv, CallPhases, Replies
<1>2. calls' = [calls EXCEPT ![c] = r]
  BY DEF Heard, RequestInv, CallsInv
<1>3. \A d \in Calls : Interferes(d)' = Interferes(d)
  BY DEF Interferes
<1> HIDE DEF r
<1>4. calls' \in [Calls -> [phase : CallPhases, attempt : 0 .. MaxAttempts, result : Replies]]
  BY <1>1, <1>2 DEF RequestInv, CallsInv
<1>5. \A d \in Calls : d # c => calls'[d] = calls[d]
  BY <1>2 DEF RequestInv, CallsInv
<1>6. calls'[c] = r
  BY DEF r
<1>7. QED
  BY <1>1, <1>3, <1>4, <1>5, <1>6 DEF RequestInv, CallsInv, OwnAttemptsNeverConflict

(* The ways it ends for a handler. *)
LEMMA HandlerStep ==
  ASSUME RequestInv, NEW h \in Handlers, NEW p \in HandlerPhases, NEW r \in Replies,
         handlers' = [handlers EXCEPT ![h] = [phase |-> p, reply |-> r]],
         UNCHANGED <<request, durable>>,
         p = "durable" => Asks(h) \in durable,
         r \in {"conflict", "exists"} => Interferes(h[1])
  PROVE  HandlersInv'
<1>1. \A c \in Calls : Interferes(c)' = Interferes(c)
  BY DEF Interferes
<1>2. \A i \in Handlers : i[1] \in Calls /\ Asks(i)' = Asks(i)
  BY DEF Handlers, Asks
<1>3. QED
  BY <1>1, <1>2 DEF RequestInv, HandlersInv

LEMMA GoesToStep ==
  ASSUME RequestInv, NEW h \in Handlers, NEW p \in HandlerPhases, GoesTo(h, p),
         UNCHANGED <<request, durable>>,
         p = "durable" => Asks(h) \in durable
  PROVE  HandlersInv'
<1>1. handlers' = [handlers EXCEPT ![h] = [phase |-> p, reply |-> handlers[h].reply]]
  <2>1. handlers[h] \in [phase : HandlerPhases, reply : Replies]
    BY DEF RequestInv, HandlersInv
  <2>2. [handlers[h] EXCEPT !.phase = p] = [phase |-> p, reply |-> handlers[h].reply]
    BY <2>1
  <2>3. handlers' = [handlers EXCEPT ![h] = [handlers[h] EXCEPT !.phase = p]]
    BY DEF GoesTo
  <2>4. QED
    BY <2>2, <2>3
<1>2. handlers[h].reply \in Replies
  BY DEF RequestInv, HandlersInv
<1>3. handlers[h].reply \in {"conflict", "exists"} => Interferes(h[1])
  BY DEF RequestInv, HandlersInv
<1>4. QED
  BY <1>1, <1>2, <1>3, HandlerStep

LEMMA ReplyStep ==
  ASSUME RequestInv, NEW h \in Handlers, NEW r \in Replies, Answers(h, r) \/ Fails(h, r),
         UNCHANGED <<request, durable>>,
         r \in {"conflict", "exists"} => Interferes(h[1])
  PROVE  HandlersInv'
<1>1. PICK p \in {"answered", "releasing"} :
        handlers' = [handlers EXCEPT ![h] = [phase |-> p, reply |-> r]]
  BY DEF Answers, Fails
<1>2. p \in HandlerPhases /\ p # "durable"
  BY DEF HandlerPhases
<1>3. QED
  BY <1>1, <1>2, HandlerStep

(* What a step leaves alone stays right. *)
LEMMA Untouched ==
  ASSUME RequestInv
  PROVE  /\ UNCHANGED <<mode, request>> => ChosenInv'
         /\ UNCHANGED <<request, calls>> => CallsInv'
         /\ UNCHANGED <<request, handlers, durable>> => HandlersInv'
         /\ UNCHANGED <<request, rows, durable>> => RowsInv'
         /\ UNCHANGED <<request, stored, durable, told>> => StoreInv'
<1>1. UNCHANGED <<mode, request>> => ChosenInv'
  BY DEF RequestInv, ChosenInv
<1>2. UNCHANGED <<request, calls>> => CallsInv'
  BY DEF RequestInv, CallsInv, OwnAttemptsNeverConflict, Interferes
<1>3. UNCHANGED <<request, handlers, durable>> => HandlersInv'
  BY DEF RequestInv, HandlersInv, Interferes, Asks
<1>4. UNCHANGED <<request, rows, durable>> => RowsInv'
  BY DEF RequestInv, RowsInv, Asked
<1>5. UNCHANGED <<request, stored, durable, told>> => StoreInv'
  BY DEF RequestInv, StoreInv, Asked
<1>6. QED
  BY <1>1, <1>2, <1>3, <1>4, <1>5
-----------------------------------------------------------------------------
LEMMA ClientStep ==
  ASSUME RequestInv, NEW c \in Calls,
         Send(c) \/ Receive(c) \/ TimeOut(c) \/ ConnectionLost(c)
  PROVE  RequestInv'
<1> UNCHANGED <<mode, request, rows, stored, durable, told>>
  BY DEF Send, Receive, TimeOut, ConnectionLost
<1>1. ChosenInv' /\ RowsInv' /\ StoreInv'
  BY Untouched
<1>2. CASE Send(c)
  <2> DEFINE n == calls[c].attempt + 1
             h == <<c, n>>
  <2>1. n \in 1 .. MaxAttempts /\ h \in Handlers
    BY <1>2, RequestAssumption DEF Send, RequestInv, CallsInv, Handlers
  <2>2. HandlersInv'
    BY <1>2, <2>1, GoesToStep DEF Send, GoesTo, HandlerPhases
  <2>3. calls' \in [Calls -> [phase : CallPhases, attempt : 0 .. MaxAttempts, result : Replies]]
    BY <1>2, <2>1 DEF Send, RequestInv, CallsInv, CallPhases
  <2>4. /\ calls'[c].phase = "waiting" /\ calls'[c].attempt = n
        /\ \A d \in Calls : d # c => calls'[d] = calls[d]
        /\ \A d \in Calls : calls'[d].result = calls[d].result
    BY <1>2, <2>1 DEF Send, RequestInv, CallsInv
  <2>5. CallsInv'
    BY <2>1, <2>3, <2>4 DEF RequestInv, CallsInv, OwnAttemptsNeverConflict, Interferes
  <2>6. QED
    BY <1>1, <2>2, <2>5 DEF RequestInv
<1>3. CASE Receive(c)
  <2> DEFINE h == <<c, calls[c].attempt>>
  <2>1. h \in Handlers /\ h[1] = c
    BY <1>3 DEF Receive, RequestInv, CallsInv, Handlers
  <2>2. CallsInv'
    BY <1>3, <2>1, HeardStep DEF Receive, RequestInv, HandlersInv
  <2>3. HandlersInv'
    BY <1>3, <2>1, GoesToStep DEF Receive, GoesTo, HandlerPhases
  <2>4. QED
    BY <1>1, <2>2, <2>3 DEF RequestInv
<1>4. CASE TimeOut(c) \/ ConnectionLost(c)
  <2>1. CallsInv'
    BY <1>4, HeardStep DEF TimeOut, ConnectionLost, Replies
  <2>2. HandlersInv'
    BY <1>4, Untouched DEF TimeOut, ConnectionLost
  <2>3. QED
    BY <1>1, <2>1, <2>2 DEF RequestInv
<1>5. QED
  BY <1>2, <1>3, <1>4

(* A row that a handler writes for the request it was sent. *)
LEMMA WriteRow ==
  ASSUME RequestInv, NEW h \in Handlers, NEW state \in {"IN_PROGRESS", "COMPLETED"},
         state = "COMPLETED" => Asks(h) \in durable,
         rows' = Replaced(Asks(h), {Row(Asks(h), state, h)}), UNCHANGED <<request, durable>>
  PROVE  RowsInv'
<1> DEFINE x == Asks(h)
           w == Row(x, state, h)
<1>1. Asked(x) /\ x \in Requests
  BY DEF Asked, Asks, Handlers, RequestInv, ChosenInv
<1>2. w \in RowType
  BY <1>1 DEF Row, RowType
<1>3. w.by = x /\ w.op = x.op /\ w.key = x.key /\ w.state = state
  BY DEF Row
<1>4. rows' \subseteq rows \cup {w}
  BY DEF Replaced
<1>5. \A y : Asked(y)' = Asked(y)
  BY DEF Asked
<1> HIDE DEF x, w
<1>6. QED
  BY <1>1, <1>2, <1>3, <1>4, <1>5 DEF RequestInv, RowsInv, x

LEMMA FewerRows ==
  ASSUME RequestInv, rows' \subseteq rows, UNCHANGED <<request, durable>>
  PROVE  RowsInv'
  BY DEF RequestInv, RowsInv, Asked

LEMMA ClaimStep ==
  ASSUME RequestInv, NEW h \in Handlers, Claim(h)
  PROVE  RequestInv'
<1> DEFINE x == Asks(h)
<1> UNCHANGED <<mode, request, calls, stored, durable>>
  BY DEF Claim
<1>1. ChosenInv' /\ CallsInv'
  BY Untouched
<1>2. CASE Claimable(x) /\ rows' = Replaced(x, {Row(x, "IN_PROGRESS", h)})
           /\ GoesTo(h, "claimed") /\ UNCHANGED <<told, faults>>
  <2>1. HandlersInv'
    BY <1>2, GoesToStep DEF HandlerPhases
  <2>2. RowsInv'
    BY <1>2, WriteRow
  <2>3. StoreInv'
    BY <1>2, Untouched
  <2>4. QED
    BY <1>1, <2>1, <2>2, <2>3 DEF RequestInv
<1>3. CASE \E w \in RowOf(x) :
             /\ ~SameRequest(w, x) /\ Answers(h, "conflict") /\ UNCHANGED <<rows, told, faults>>
  <2>1. PICK w \in RowOf(x) : ~SameRequest(w, x)
    BY <1>3
  <2>2. w \in rows /\ w.key = x.key /\ w.by # x
    BY <2>1 DEF RowOf, SameRequest
  <2>3. PICK d \in Calls : w.by = request[d]
    BY <2>2 DEF RequestInv, RowsInv, Asked
  <2>4. request[d].key = x.key /\ request[d] # x
    BY <2>2, <2>3 DEF RequestInv, RowsInv
  <2>5. Interferes(h[1])
    BY <2>4 DEF Interferes, Asks
  <2>6. HandlersInv'
    BY <1>3, <2>5, ReplyStep DEF Replies
  <2>7. RowsInv' /\ StoreInv'
    BY <1>3, Untouched
  <2>8. QED
    BY <1>1, <2>6, <2>7 DEF RequestInv
<1>4. CASE \E w \in RowOf(x) :
             /\ SameRequest(w, x) /\ w.state = "COMPLETED" /\ Answers(h, "stored")
             /\ told' = told \cup {x} /\ UNCHANGED <<rows, faults>>
  <2>1. x \in durable
    BY <1>4 DEF RowOf, SameRequest, RequestInv, RowsInv
  <2>2. StoreInv'
    BY <1>4, <2>1 DEF RequestInv, StoreInv, Asked
  <2>3. HandlersInv'
    BY <1>4, ReplyStep DEF Replies
  <2>4. RowsInv'
    BY <1>4, Untouched
  <2>5. QED
    BY <1>1, <2>2, <2>3, <2>4 DEF RequestInv
<1>5. CASE \E w \in RowOf(x) :
             /\ SameRequest(w, x) /\ w.state = "IN_PROGRESS" /\ ~w.aged
             /\ Answers(h, "in-progress") /\ UNCHANGED <<rows, told, faults>>
  <2>1. HandlersInv'
    BY <1>5, ReplyStep DEF Replies
  <2>2. RowsInv' /\ StoreInv'
    BY <1>5, Untouched
  <2>3. QED
    BY <1>1, <2>1, <2>2 DEF RequestInv
<1>6. CASE /\ mode = "postgres" /\ Fault /\ Answers(h, "error")
           /\ \/ UNCHANGED rows
              \/ Claimable(x) /\ rows' = Replaced(x, {Row(x, "IN_PROGRESS", h)})
           /\ UNCHANGED told
  <2>1. HandlersInv'
    BY <1>6, ReplyStep DEF Replies
  <2>2. RowsInv'
    BY <1>6, Untouched, WriteRow
  <2>3. StoreInv'
    BY <1>6, Untouched
  <2>4. QED
    BY <1>1, <2>1, <2>2, <2>3 DEF RequestInv
<1>7. QED
  BY <1>2, <1>3, <1>4, <1>5, <1>6 DEF Claim

LEMMA VerifyStep ==
  ASSUME RequestInv, NEW h \in Handlers, Verify(h)
  PROVE  RequestInv'
<1> UNCHANGED <<mode, request, calls, rows, stored, durable, told>>
  BY DEF Verify
<1>1. ChosenInv' /\ CallsInv' /\ RowsInv' /\ StoreInv'
  BY Untouched
<1>2. GoesTo(h, "verified") \/ Fails(h, "invalid") \/ Fails(h, "unavailable")
  BY DEF Verify
<1>3. HandlersInv'
  BY <1>2, GoesToStep, ReplyStep DEF HandlerPhases, Replies
<1>4. QED
  BY <1>1, <1>3 DEF RequestInv

LEMMA ActStep ==
  ASSUME RequestInv, NEW h \in Handlers, Act(h)
  PROVE  RequestInv'
<1> DEFINE x == Asks(h)
<1> UNCHANGED <<mode, request, calls, rows, durable, told>>
  BY DEF Act
<1>1. ChosenInv' /\ CallsInv' /\ RowsInv'
  BY Untouched
<1>2. CASE stored' = stored
  <2>1. StoreInv'
    BY <1>2, Untouched
  <2>2. CASE \/ GoesTo(h, "acted") \/ Fails(h, "error") \/ Fails(h, "unavailable")
    <3>1. HandlersInv'
      BY <2>2, GoesToStep, ReplyStep DEF HandlerPhases, Replies
    <3>2. QED
      BY <1>1, <2>1, <3>1 DEF RequestInv
  <2>3. CASE \/ Repeats(x) /\ x \notin stored /\ Fails(h, "conflict")
             \/ ~Repeats(x) /\ (\E y \in stored : y.memory = x.memory) /\ Fails(h, "exists")
    <3>1. PICK y \in stored : (y.key = x.key \/ y.memory = x.memory) /\ y # x
      BY <2>3 DEF Repeats
    <3>2. PICK d \in Calls : y = request[d]
      BY <3>1 DEF RequestInv, StoreInv, Asked
    <3>3. Interferes(h[1])
      BY <3>1, <3>2 DEF Interferes, Asks
    <3>4. HandlersInv'
      BY <2>3, <3>3, ReplyStep DEF Replies
    <3>5. QED
      BY <1>1, <2>1, <3>4 DEF RequestInv
  <2>4. QED
    BY <2>2, <2>3 DEF Act
<1>3. CASE stored' # stored
  <2>1. /\ ~Repeats(x) /\ (\A y \in stored : y.memory # x.memory)
        /\ stored' = stored \cup {x} /\ GoesTo(h, "acted")
    BY <1>3 DEF Act
  <2>2. Asked(x)
    BY DEF Asked, Asks, Handlers
  <2>3. \A y \in stored : y.key # x.key
    BY <2>1 DEF Repeats
  <2>4. \A y : Asked(y)' = Asked(y)
    BY DEF Asked
  <2> HIDE DEF x
  <2>5. StoreInv'
    BY <2>1, <2>2, <2>3, <2>4 DEF RequestInv, StoreInv
  <2>6. HandlersInv'
    BY <2>1, GoesToStep DEF HandlerPhases
  <2>7. QED
    BY <1>1, <2>5, <2>6 DEF RequestInv
<1>4. QED
  BY <1>2, <1>3

LEMMA PersistStep ==
  ASSUME RequestInv, Persist
  PROVE  RequestInv'
<1> UNCHANGED <<mode, request, calls, handlers, rows, stored, told>>
  BY DEF Persist
<1>1. ChosenInv' /\ CallsInv'
  BY Untouched
<1>2. durable' \subseteq stored /\ durable \subseteq durable'
  BY DEF Persist, RequestInv, StoreInv
<1>3. HandlersInv'
  BY <1>2 DEF RequestInv, HandlersInv, Asks, Interferes
<1>4. RowsInv'
  BY <1>2 DEF RequestInv, RowsInv, Asked
<1>5. StoreInv'
  BY <1>2 DEF RequestInv, StoreInv, Asked
<1>6. QED
  BY <1>1, <1>3, <1>4, <1>5 DEF RequestInv

LEMMA AwaitDurabilityStep ==
  ASSUME RequestInv, NEW h \in Handlers, AwaitDurability(h)
  PROVE  RequestInv'
<1> UNCHANGED <<mode, request, calls, rows, stored, durable, told>>
  BY DEF AwaitDurability
<1>1. ChosenInv' /\ CallsInv' /\ RowsInv' /\ StoreInv'
  BY Untouched
<1>2. CASE IsDurable(h) /\ GoesTo(h, "durable")
  BY <1>1, <1>2, GoesToStep DEF HandlerPhases, IsDurable, RequestInv
<1>3. CASE Fails(h, "error") \/ Fails(h, "invalid")
  BY <1>1, <1>3, ReplyStep DEF Replies, RequestInv
<1>4. QED
  BY <1>2, <1>3 DEF AwaitDurability

LEMMA CompleteStep ==
  ASSUME RequestInv, NEW h \in Handlers, Complete(h)
  PROVE  RequestInv'
<1> UNCHANGED <<mode, request, calls, stored, durable>>
  BY DEF Complete
<1>1. ChosenInv' /\ CallsInv'
  BY Untouched
<1>2. Asks(h) \in durable
  BY DEF Complete, At, RequestInv, HandlersInv
<1>3. HandlersInv'
  <2>1. Answers(h, "stored") \/ Fails(h, "error")
    BY DEF Complete
  <2>2. QED
    BY <2>1, ReplyStep DEF Replies
<1>4. RowsInv'
  <2>1. UNCHANGED rows \/ rows' = Replaced(Asks(h), {Row(Asks(h), "COMPLETED", h)})
    BY DEF Complete
  <2>2. QED
    BY <1>2, <2>1, Untouched, WriteRow
<1>5. StoreInv'
  <2>1. told' \subseteq told \cup {Asks(h)}
    BY DEF Complete
  <2>2. QED
    BY <1>2, <2>1 DEF RequestInv, StoreInv, Asked
<1>6. QED
  BY <1>1, <1>3, <1>4, <1>5 DEF RequestInv

LEMMA ReleaseStep ==
  ASSUME RequestInv, NEW h \in Handlers, Release(h)
  PROVE  RequestInv'
<1> UNCHANGED <<mode, request, calls, stored, durable, told>>
  BY DEF Release
<1>1. ChosenInv' /\ CallsInv' /\ StoreInv'
  BY Untouched
<1>2. RowsInv'
  BY FewerRows DEF Release
<1>3. HandlersInv'
  BY GoesToStep DEF Release, HandlerPhases
<1>4. QED
  BY <1>1, <1>2, <1>3 DEF RequestInv

LEMMA AgeStep ==
  ASSUME RequestInv, NEW w \in rows, Lapse(w) \/ Prune(w)
  PROVE  RequestInv'
<1> UNCHANGED <<mode, request, calls, handlers, stored, durable, told>>
  BY DEF Lapse, Prune
<1>1. ChosenInv' /\ CallsInv' /\ HandlersInv' /\ StoreInv'
  BY Untouched
<1>2. CASE Lapse(w)
  <2> DEFINE v == [w EXCEPT !.aged = TRUE]
  <2>1. w \in RowType
    BY DEF RequestInv, RowsInv
  <2>2. /\ v \in RowType /\ v.op = w.op /\ v.key = w.key /\ v.by = w.by /\ v.state = w.state
    BY <2>1 DEF RowType
  <2>3. rows' = (rows \ {w}) \cup {v}
    BY <1>2 DEF Lapse
  <2>4. \A y : Asked(y)' = Asked(y)
    BY DEF Asked
  <2> HIDE DEF v
  <2>5. RowsInv'
    BY <2>2, <2>3, <2>4 DEF RequestInv, RowsInv
  <2>6. QED
    BY <1>1, <2>5 DEF RequestInv
<1>3. CASE Prune(w)
  <2>1. RowsInv'
    BY <1>3, FewerRows DEF Prune
  <2>2. QED
    BY <1>1, <2>1 DEF RequestInv
<1>4. QED
  BY <1>2, <1>3

LEMMA RestartStep ==
  ASSUME RequestInv, Restart
  PROVE  RequestInv'
<1> UNCHANGED <<mode, request, calls, rows, durable, told>>
  BY DEF Restart
<1>1. ChosenInv' /\ CallsInv' /\ RowsInv'
  BY Untouched
<1>2. StoreInv'
  BY DEF Restart, RequestInv, StoreInv, Asked
<1>3. HandlersInv'
  <2>1. \A h \in Handlers :
          /\ handlers'[h] \in [phase : HandlerPhases, reply : Replies]
          /\ handlers'[h].phase \in {"none", "gone"}
          /\ handlers'[h].reply = handlers[h].reply
    BY DEF Restart, RequestInv, HandlersInv, HandlerPhases
  <2>2. handlers' \in [Handlers -> [phase : HandlerPhases, reply : Replies]]
    BY <2>1 DEF Restart
  <2>3. QED
    BY <2>1, <2>2 DEF RequestInv, HandlersInv, Interferes
<1>4. QED
  BY <1>1, <1>2, <1>3 DEF RequestInv

LEMMA NextRequestInv == RequestInv /\ [Next]_vars => RequestInv'
<1> SUFFICES ASSUME RequestInv, [Next]_vars PROVE RequestInv'
  OBVIOUS
<1>1. CASE UNCHANGED vars
  BY <1>1, Untouched DEF vars, RequestInv
<1>2. ASSUME NEW c \in Calls, Send(c) \/ Receive(c) \/ TimeOut(c) \/ ConnectionLost(c)
      PROVE  RequestInv'
  BY <1>2, ClientStep
<1>3. ASSUME NEW h \in Handlers, \/ Claim(h) \/ Verify(h) \/ Act(h) \/ AwaitDurability(h)
                                 \/ Complete(h) \/ Release(h)
      PROVE  RequestInv'
  BY <1>3, ClaimStep, VerifyStep, ActStep, AwaitDurabilityStep, CompleteStep, ReleaseStep
<1>4. CASE Persist
  BY <1>4, PersistStep
<1>5. ASSUME NEW w \in rows, Lapse(w) \/ Prune(w) PROVE RequestInv'
  BY <1>5, AgeStep
<1>6. CASE Restart
  BY <1>6, RestartStep
<1>7. QED
  BY <1>1, <1>2, <1>3, <1>4, <1>5, <1>6 DEF Next

(* The invariant of the request path holds in every reachable state. *)
THEOREM RequestInvariance == Spec => []RequestInv
<1>1. QED
  BY InitRequestInv, NextRequestInv, PTL DEF Spec

(* A request that was answered with success is in the database: for every  *)
(* number of calls, attempts and faults, the answer replayed from a        *)
(* completed row included (server/index.v2.ts, store-postgres).            *)
THEOREM AnsweredIsStoredTheorem == Spec => []AnsweredIsStored
<1>1. RequestInv => AnsweredIsStored
  BY DEF RequestInv, StoreInv, AnsweredIsStored
<1>2. QED
  BY <1>1, RequestInvariance, PTL

(* Two requests that were both answered with success share neither their   *)
(* key nor their memory.                                                   *)
THEOREM OneRequestSucceedsTheorem == Spec => []OneRequestSucceeds
<1>1. RequestInv => OneRequestSucceeds
  BY DEF RequestInv, StoreInv, OneRequestSucceeds
<1>2. QED
  BY <1>1, RequestInvariance, PTL

(* A client that is told of a conflict shares its key or its memory with   *)
(* another request; its own earlier attempts are never the reason.         *)
THEOREM OwnAttemptsNeverConflictTheorem == Spec => []OwnAttemptsNeverConflict
<1>1. RequestInv => OwnAttemptsNeverConflict
  BY DEF RequestInv, CallsInv
<1>2. QED
  BY <1>1, RequestInvariance, PTL

(***************************************************************************)
(* The signing keys.  Material is as new as the invalidations that a       *)
(* caller had seen because a cached entry, and a flight that can still be  *)
(* joined or cached, belong to the current invalidation of their key.      *)
(***************************************************************************)
FlightType == [id : Nat, key : Keys, epoch : Nat, global : Nat, since : Nat]
RingType == [phase : {"idle", "waiting", "ready", "failed"}, asked : [Keys -> Nat],
             got : [Keys -> Nat], flight : [Keys -> Nat]]
MaterialType == [since : Nat, expiresAt : Nat]

KeysTypeOK ==
  /\ cache \in [Keys -> MaterialType] /\ inFlight \in [Keys -> Nat]
  /\ flights \subseteq FlightType
  /\ epochs \in [Keys -> Nat] /\ globalEpoch \in Nat /\ invalidations \in [Keys -> Nat]
  /\ rings \in [Callers -> RingType] /\ clock \in Nat /\ fetches \in Nat

(* What may be used or joined belongs to the invalidation sinceOf tells,   *)
(* and epochs tell which flights are overtaken.                            *)
Current(cached, joinable, epochOf, sinceOf) ==
  /\ \A k \in Keys : /\ joinable[k] <= fetches
                     /\ cached[k].expiresAt > 0 => cached[k].since = sinceOf[k]
  /\ \A f \in flights :
       /\ f.id > 0 /\ f.id <= fetches /\ f.global <= globalEpoch
       /\ f.global = globalEpoch =>
            /\ f.epoch <= epochOf[f.key]
            /\ f.epoch = epochOf[f.key] => f.since = sinceOf[f.key]
       /\ joinable[f.key] = f.id => f.since = sinceOf[f.key]

RingsInv ==
  \A c \in Callers :
    /\ \A k \in Keys : rings[c].flight[k] <= fetches
    /\ \A f \in flights : rings[c].phase = "waiting" /\ rings[c].flight[f.key] = f.id
                            => f.since >= rings[c].asked[f.key]

KeysInv ==
  KeysTypeOK /\ Current(cache, inFlight, epochs, invalidations) /\ RingsInv /\ K!NoRevivedMaterial

LEMMA InitKeysInv == K!Init => KeysInv
<1> SUFFICES ASSUME K!Init PROVE KeysInv
  OBVIOUS
<1>1. K!NoRing \in RingType /\ K!NoMaterial \in MaterialType
  BY KeysAssumption DEF K!NoRing, K!NoMaterial, K!None, RingType, MaterialType
<1>2. KeysTypeOK
  BY <1>1 DEF K!Init, KeysTypeOK
<1>3. Current(cache, inFlight, epochs, invalidations)
  BY DEF K!Init, Current, K!NoMaterial
<1>4. RingsInv /\ K!NoRevivedMaterial
  BY <1>1 DEF K!Init, RingsInv, K!NoRevivedMaterial, K!NoRing
<1>5. QED
  BY <1>2, <1>3, <1>4 DEF KeysInv

LEMMA InvalidateStep ==
  ASSUME KeysInv, NEW k \in Keys, K!Invalidate(k)
  PROVE  KeysInv'
<1> UNCHANGED <<flights, globalEpoch, rings, clock, fetches>>
  BY DEF K!Invalidate
<1>1. /\ cache' \in [Keys -> MaterialType] /\ inFlight' \in [Keys -> Nat]
      /\ epochs' \in [Keys -> Nat] /\ invalidations' \in [Keys -> Nat]
  BY DEF K!Invalidate, K!Invalidated, KeysInv, KeysTypeOK, MaterialType, K!NoMaterial
<1>2. /\ cache'[k].expiresAt = 0 /\ inFlight'[k] = 0 /\ epochs'[k] = epochs[k] + 1
      /\ \A j \in Keys : j # k => /\ cache'[j] = cache[j] /\ inFlight'[j] = inFlight[j]
                                  /\ epochs'[j] = epochs[j] /\ invalidations'[j] = invalidations[j]
  BY DEF K!Invalidate, K!Invalidated, KeysInv, KeysTypeOK, K!NoMaterial
<1>3. KeysTypeOK'
  BY <1>1 DEF KeysInv, KeysTypeOK
<1>4. \A j \in Keys : /\ inFlight'[j] <= fetches
                      /\ cache'[j].expiresAt > 0 => cache'[j].since = invalidations'[j]
  BY <1>1, <1>2 DEF KeysInv, KeysTypeOK, Current
<1>5. ASSUME NEW f \in flights
      PROVE  /\ f.id > 0 /\ f.id <= fetches /\ f.global <= globalEpoch
             /\ f.global = globalEpoch =>
                  /\ f.epoch <= epochs'[f.key]
                  /\ f.epoch = epochs'[f.key] => f.since = invalidations'[f.key]
             /\ inFlight'[f.key] = f.id => f.since = invalidations'[f.key]
  <2>1. f \in FlightType /\ f.epoch \in Nat /\ epochs[k] \in Nat
    BY DEF KeysInv, KeysTypeOK, FlightType
  <2>2. CASE f.key = k
    BY <1>2, <2>1, <2>2 DEF KeysInv, Current, FlightType
  <2>3. CASE f.key # k
    BY <1>2, <2>1, <2>3 DEF KeysInv, Current, FlightType
  <2>4. QED
    BY <2>2, <2>3
<1>6. Current(cache, inFlight, epochs, invalidations)'
  BY <1>4, <1>5 DEF Current
<1>7. RingsInv' /\ K!NoRevivedMaterial'
  BY DEF KeysInv, RingsInv, K!NoRevivedMaterial
<1>8. QED
  BY <1>3, <1>6, <1>7 DEF KeysInv

LEMMA ClearStep ==
  ASSUME KeysInv, K!Clear
  PROVE  KeysInv'
<1> UNCHANGED <<flights, rings, clock, fetches>>
  BY DEF K!Clear
<1>1. KeysTypeOK'
  BY DEF K!Clear, K!Invalidated, KeysInv, KeysTypeOK, MaterialType, K!NoMaterial
<1>2. \A k \in Keys : cache'[k].expiresAt = 0 /\ inFlight'[k] = 0
  BY DEF K!Clear, K!Invalidated, K!NoMaterial
<1>3. globalEpoch' = globalEpoch + 1 /\ globalEpoch \in Nat /\ fetches \in Nat
  BY DEF K!Clear, KeysInv, KeysTypeOK
<1>4. \A f \in flights : f.key \in Keys /\ f.global \in Nat /\ f.global <= globalEpoch
                           /\ f.id > 0 /\ f.id <= fetches
  BY DEF KeysInv, KeysTypeOK, FlightType, Current
<1>5. Current(cache, inFlight, epochs, invalidations)'
  BY <1>2, <1>3, <1>4 DEF Current
<1>6. RingsInv' /\ K!NoRevivedMaterial'
  BY DEF KeysInv, RingsInv, K!NoRevivedMaterial
<1>7. QED
  BY <1>1, <1>5, <1>6 DEF KeysInv

(* The cardinality the instance speaks of is the one of this module. *)
LEMMA KeysCardinality == \A S : K!Cardinality(S) = Cardinality(S)
  BY DEF K!Cardinality, Cardinality

(* resolve, for whatever may be used and joined when it begins: what it    *)
(* hands out, joins and fetches belongs to the invalidation it has seen.   *)
LEMMA ResolvesStep ==
  ASSUME KeysInv, NEW c \in Callers,
         NEW cached \in [Keys -> MaterialType], NEW joinable \in [Keys -> Nat],
         NEW epochOf \in [Keys -> Nat], NEW sinceOf \in [Keys -> Nat],
         Current(cached, joinable, epochOf, sinceOf),
         K!Resolves(c, cached, joinable, epochOf, sinceOf),
         epochs' = epochOf, invalidations' = sinceOf, UNCHANGED <<globalEpoch, clock>>
  PROVE  KeysInv'
<1> DEFINE hit    == {k \in Keys : cached[k].expiresAt > clock}
           joined == {k \in Keys \ hit : joinable[k] # 0}
           asks   == Keys \ (hit \cup joined)
           n      == Cardinality(asks)
           Flight(k, number) == [id |-> number[k], key |-> k, epoch |-> epochOf[k],
                                 global |-> globalEpoch, since |-> sinceOf[k]]
           Ring(number) ==
             [phase  |-> "waiting", asked |-> sinceOf,
              got    |-> [k \in Keys |-> IF k \in hit THEN cached[k].since ELSE K!None],
              flight |-> [k \in Keys |-> IF k \in hit THEN 0
                                         ELSE IF k \in joined THEN joinable[k] ELSE number[k]]]
<1>1. n \in Nat /\ fetches \in Nat /\ clock \in Nat /\ globalEpoch \in Nat
  BY KeysAssumption, FS_Subset, FS_CardinalityType DEF KeysInv, KeysTypeOK
<1> HIDE DEF n
<1>2. PICK number \in [asks -> fetches + 1 .. fetches + n] :
        /\ flights' = flights \cup {Flight(k, number) : k \in asks}
        /\ inFlight' = [k \in Keys |-> IF k \in asks THEN number[k] ELSE joinable[k]]
        /\ rings' = [rings EXCEPT ![c] = Ring(number)]
  BY KeysCardinality DEF K!Resolves, n
<1>3. /\ cache' = [k \in Keys |-> IF k \in hit THEN cached[k] ELSE K!NoMaterial]
      /\ fetches' = fetches + n
  BY KeysCardinality DEF K!Resolves, n
<1>4. \A k \in asks : number[k] \in Nat /\ number[k] > fetches /\ number[k] <= fetches'
  BY <1>1, <1>2, <1>3
<1> DEFINE ring == Ring(number)
<1>5. /\ ring \in RingType /\ ring.asked = sinceOf /\ ring.phase = "waiting"
      /\ \A k \in Keys : /\ k \in hit => ring.got[k] = cached[k].since /\ ring.flight[k] = 0
                         /\ k \notin hit => ring.got[k] = K!None
                         /\ k \in joined => ring.flight[k] = joinable[k]
                         /\ k \in asks => ring.flight[k] = number[k]
  <2>1. ring.got \in [Keys -> Nat]
    BY KeysAssumption DEF K!None, MaterialType
  <2>2. ring.flight \in [Keys -> Nat]
    BY <1>4
  <2>3. QED
    BY <2>1, <2>2 DEF RingType
<1> HIDE DEF ring
<1>6. rings' = [rings EXCEPT ![c] = ring] /\ rings' \in [Callers -> RingType]
  BY <1>2, <1>5 DEF KeysInv, KeysTypeOK, ring
<1>7. ASSUME NEW f \in flights'
      PROVE  \/ f \in flights
             \/ /\ f.key \in asks /\ f.id = number[f.key] /\ f.epoch = epochOf[f.key]
                /\ f.global = globalEpoch /\ f.since = sinceOf[f.key] /\ f \in FlightType
  BY <1>1, <1>2, <1>4 DEF FlightType
<1>8. KeysTypeOK'
  <2>1. cache' \in [Keys -> MaterialType]
    BY <1>3 DEF MaterialType, K!NoMaterial
  <2>2. inFlight' \in [Keys -> Nat]
    BY <1>2, <1>4
  <2>3. flights' \subseteq FlightType
    BY <1>7 DEF KeysInv, KeysTypeOK
  <2>4. QED
    BY <1>1, <1>3, <1>6, <2>1, <2>2, <2>3 DEF KeysTypeOK
<1>9. Current(cache, inFlight, epochs, invalidations)'
  <2>1. \A k \in Keys : /\ inFlight'[k] <= fetches'
                        /\ cache'[k].expiresAt > 0 => cache'[k].since = invalidations'[k]
    <3> SUFFICES ASSUME NEW k \in Keys
                 PROVE  /\ inFlight'[k] <= fetches'
                        /\ cache'[k].expiresAt > 0 => cache'[k].since = invalidations'[k]
      OBVIOUS
    <3>1. inFlight'[k] <= fetches'
      BY <1>1, <1>2, <1>3, <1>4 DEF Current
    <3>2. cache'[k] = IF k \in hit THEN cached[k] ELSE K!NoMaterial
      BY <1>3
    <3>3. QED
      BY <3>1, <3>2 DEF Current, K!NoMaterial
  <2>2. ASSUME NEW f \in flights'
        PROVE  /\ f.id > 0 /\ f.id <= fetches' /\ f.global <= globalEpoch
               /\ f.global = globalEpoch =>
                    /\ f.epoch <= epochOf[f.key]
                    /\ f.epoch = epochOf[f.key] => f.since = sinceOf[f.key]
               /\ inFlight'[f.key] = f.id => f.since = sinceOf[f.key]
    <3>1. CASE f \in flights
      <4>1. f \in FlightType
        BY <3>1 DEF KeysInv, KeysTypeOK
      <4>2. inFlight'[f.key] = f.id => joinable[f.key] = f.id
        BY <1>1, <1>2, <1>4, <3>1, <4>1 DEF FlightType, Current
      <4>3. QED
        BY <1>1, <1>3, <3>1, <4>1, <4>2 DEF FlightType, Current
    <3>2. CASE f \notin flights
      BY <1>1, <1>4, <1>7, <3>2
    <3>3. QED
      BY <3>1, <3>2
  <2>3. QED
    BY <2>1, <2>2 DEF Current
<1>10. RingsInv'
  <2> SUFFICES ASSUME NEW d \in Callers
               PROVE  /\ \A k \in Keys : rings'[d].flight[k] <= fetches'
                      /\ \A f \in flights' :
                           rings'[d].phase = "waiting" /\ rings'[d].flight[f.key] = f.id
                             => f.since >= rings'[d].asked[f.key]
    BY DEF RingsInv
  <2>1. CASE d # c
    <3>1. rings'[d] = rings[d] /\ rings[d] \in RingType
      BY <1>6, <2>1 DEF KeysInv, KeysTypeOK
    <3>2. \A k \in Keys : rings[d].flight[k] \in Nat /\ rings[d].flight[k] <= fetches
      BY <3>1 DEF KeysInv, RingsInv, RingType
    <3>3. \A f \in flights' : f \in flights \/ (f.key \in Keys /\ f.id > fetches /\ f.id \in Nat)
      BY <1>4, <1>7
    <3>4. QED
      BY <1>1, <1>3, <3>1, <3>2, <3>3 DEF KeysInv, RingsInv
  <2>2. CASE d = c
    <3>1. rings'[d] = ring
      BY <1>6, <2>2 DEF KeysInv, KeysTypeOK
    <3>2. \A k \in Keys : joinable[k] <= fetches /\ joinable[k] \in Nat
      BY DEF Current
    <3>3. \A k \in Keys : ring.flight[k] <= fetches'
      BY <1>1, <1>3, <1>4, <1>5, <3>2
    <3>4. ASSUME NEW f \in flights', ring.flight[f.key] = f.id
          PROVE  f.since = sinceOf[f.key] /\ f \in FlightType
      <4>1. CASE f \in flights
        <5>1. f \in FlightType /\ f.id > 0 /\ f.id <= fetches
          BY <4>1 DEF KeysInv, KeysTypeOK, Current
        <5>2. f.key \in joined
          BY <1>1, <1>4, <1>5, <3>4, <5>1 DEF FlightType
        <5>3. QED
          BY <1>5, <3>4, <4>1, <5>1, <5>2 DEF Current
      <4>2. QED
        BY <1>7, <4>1
    <3>5. \A f \in flights' : ring.flight[f.key] = f.id => f.since >= ring.asked[f.key]
      BY <1>5, <3>4 DEF FlightType
    <3>6. QED
      BY <3>1, <3>3, <3>5
  <2>3. QED
    BY <2>1, <2>2
<1>11. K!NoRevivedMaterial'
  <2>1. \A k \in Keys : ring.got[k] # K!None => ring.got[k] >= ring.asked[k]
    BY <1>1, <1>5 DEF Current, MaterialType
  <2>2. \A d \in Callers : rings'[d] = IF d = c THEN ring ELSE rings[d]
    BY <1>6 DEF KeysInv, KeysTypeOK
  <2>3. QED
    BY <2>1, <2>2 DEF KeysInv, K!NoRevivedMaterial
<1>12. QED
  BY <1>8, <1>9, <1>10, <1>11 DEF KeysInv

LEMMA RingStep ==
  ASSUME KeysInv, NEW c \in Callers, K!CreateKeyRing(c) \/ K!RotateKeyRing(c)
  PROVE  KeysInv'
<1>1. CASE K!CreateKeyRing(c)
  BY <1>1, ResolvesStep DEF K!CreateKeyRing, KeysInv, KeysTypeOK
<1>2. CASE K!RotateKeyRing(c)
  <2> DEFINE cached == [k \in Keys |-> K!NoMaterial]
             joinable == [k \in Keys |-> 0]
             epochOf == [k \in Keys |-> epochs[k] + 1]
             sinceOf == [k \in Keys |-> invalidations[k] + 1]
  <2>1. cached \in [Keys -> MaterialType] /\ joinable \in [Keys -> Nat]
    BY DEF MaterialType, K!NoMaterial
  <2>2. epochOf \in [Keys -> Nat] /\ sinceOf \in [Keys -> Nat]
    BY DEF KeysInv, KeysTypeOK
  <2>3. /\ epochs' = epochOf /\ invalidations' = sinceOf /\ UNCHANGED <<globalEpoch, clock>>
        /\ K!Resolves(c, cached, joinable, epochOf, sinceOf)
    <3>1. epochs' = epochOf /\ invalidations' = sinceOf /\ UNCHANGED <<globalEpoch, clock>>
      BY <1>2 DEF K!RotateKeyRing
    <3>2. K!Resolves(c, cached, joinable, epochs', invalidations')
      BY <1>2 DEF K!RotateKeyRing
    <3> HIDE DEF epochOf, sinceOf
    <3>3. QED
      BY <3>1, <3>2
  <2>4. Current(cached, joinable, epochOf, sinceOf)
    <3>1. \A f \in flights : f \in FlightType /\ epochs[f.key] \in Nat
      BY DEF KeysInv, KeysTypeOK, FlightType
    <3>2. fetches \in Nat
      BY DEF KeysInv, KeysTypeOK
    <3>3. \A f \in flights : /\ f.id > 0 /\ f.id <= fetches /\ f.global <= globalEpoch
                             /\ f.global = globalEpoch => f.epoch <= epochs[f.key]
      BY DEF KeysInv, Current
    <3>4. QED
      BY <3>1, <3>2, <3>3 DEF Current, FlightType, K!NoMaterial
  <2> HIDE DEF cached, joinable, epochOf, sinceOf
  <2>5. QED
    BY <2>1, <2>2, <2>3, <2>4, ResolvesStep
<1>3. QED
  BY <1>1, <1>2

(* A flight lands: those who wait for it are as old as it, or older. *)
LEMMA LandStep ==
  ASSUME KeysInv, NEW f \in flights, NEW ok \in BOOLEAN, K!Land(f, ok),
         \/ UNCHANGED cache
         \/ K!StillCurrent(f) /\ Ttl # 0
            /\ cache' = [cache EXCEPT ![f.key] = [since |-> f.since, expiresAt |-> clock + Ttl]]
  PROVE  KeysInv'
<1> UNCHANGED <<epochs, globalEpoch, invalidations, clock, fetches>>
  BY DEF K!Land
<1>1. f \in FlightType /\ f.id > 0 /\ f.key \in Keys
  BY DEF KeysInv, KeysTypeOK, Current, FlightType
<1>2. flights' \subseteq flights
  BY DEF K!Land
<1>3. /\ inFlight' \in [Keys -> Nat]
      /\ \A k \in Keys : inFlight'[k] = inFlight[k] \/ inFlight'[k] = 0
  BY <1>1 DEF K!Land, KeysInv, KeysTypeOK
<1>4. K!NoRing \in RingType /\ K!NoRing.phase # "waiting"
      /\ \A k \in Keys : K!NoRing.got[k] = K!None /\ K!NoRing.flight[k] = 0
  BY KeysAssumption DEF K!NoRing, K!None, RingType
<1> DEFINE failed == [K!NoRing EXCEPT !.phase = "failed"]
           done(c) == [rings[c] EXCEPT !.got[f.key] = f.since, !.flight[f.key] = 0]
<1>5. failed \in RingType /\ failed.phase # "waiting"
      /\ \A k \in Keys : failed.got[k] = K!None /\ failed.flight[k] = 0
  BY <1>4 DEF RingType
<1>6. ASSUME NEW c \in Callers
      PROVE  /\ done(c) \in RingType /\ done(c).phase = rings[c].phase
             /\ done(c).asked = rings[c].asked
             /\ done(c).got[f.key] = f.since /\ done(c).flight[f.key] = 0
             /\ \A k \in Keys : k # f.key => /\ done(c).got[k] = rings[c].got[k]
                                             /\ done(c).flight[k] = rings[c].flight[k]
  <2>1. rings[c] \in RingType
    BY DEF KeysInv, KeysTypeOK
  <2>2. QED
    BY <1>1, <2>1 DEF RingType, FlightType
<1>7. ASSUME NEW c \in Callers
      PROVE  \/ rings'[c] = rings[c]
             \/ rings'[c] = failed
             \/ /\ rings'[c] = done(c)
                /\ rings[c].phase = "waiting" /\ rings[c].flight[f.key] = f.id
  BY DEF K!Land, K!Delivered
<1>8. rings' \in [Callers -> RingType]
  <2>1. \A c \in Callers : rings'[c] \in RingType
    BY <1>5, <1>6, <1>7 DEF KeysInv, KeysTypeOK
  <2>2. QED
    BY <2>1 DEF K!Land, K!Delivered
<1> HIDE DEF failed, done
<1>9. /\ cache' \in [Keys -> MaterialType]
      /\ \A k \in Keys : cache'[k].expiresAt > 0 => cache'[k].since = invalidations[k]
  <2>1. CASE UNCHANGED cache
    BY <2>1 DEF KeysInv, KeysTypeOK, Current
  <2>2. CASE /\ K!StillCurrent(f)
             /\ cache' = [cache EXCEPT ![f.key] = [since |-> f.since, expiresAt |-> clock + Ttl]]
    <3>1. f.since = invalidations[f.key]
      BY <2>2 DEF K!StillCurrent, KeysInv, Current
    <3>2. [since |-> f.since, expiresAt |-> clock + Ttl] \in MaterialType
      BY <1>1, KeysAssumption DEF MaterialType, FlightType, KeysInv, KeysTypeOK
    <3>3. cache' \in [Keys -> MaterialType]
      BY <1>1, <2>2, <3>2 DEF KeysInv, KeysTypeOK
    <3>4. QED
      BY <1>1, <2>2, <3>1, <3>3 DEF KeysInv, KeysTypeOK, Current
  <2>3. QED
    BY <2>1, <2>2
<1>10. KeysTypeOK'
  BY <1>2, <1>3, <1>8, <1>9 DEF KeysInv, KeysTypeOK
<1>11. Current(cache, inFlight, epochs, invalidations)'
  <2>1. \A k \in Keys : inFlight'[k] <= fetches
    BY <1>3 DEF KeysInv, KeysTypeOK, Current
  <2>2. \A g \in flights' : g \in flights /\ g.key \in Keys /\ g.id > 0 /\ g.id \in Nat
    BY <1>2 DEF KeysInv, KeysTypeOK, Current, FlightType
  <2>3. \A g \in flights' : inFlight'[g.key] = g.id => g.since = invalidations[g.key]
    BY <1>3, <2>2 DEF KeysInv, Current
  <2>4. QED
    BY <1>9, <2>1, <2>2, <2>3 DEF KeysInv, Current
<1>12. RingsInv' /\ K!NoRevivedMaterial'
  <2> SUFFICES ASSUME NEW c \in Callers
               PROVE  /\ \A k \in Keys : rings'[c].flight[k] <= fetches
                      /\ \A g \in flights' :
                           rings'[c].phase = "waiting" /\ rings'[c].flight[g.key] = g.id
                             => g.since >= rings'[c].asked[g.key]
                      /\ \A k \in Keys : rings'[c].got[k] # K!None
                                           => rings'[c].got[k] >= rings'[c].asked[k]
    BY DEF RingsInv, K!NoRevivedMaterial
  <2>1. fetches \in Nat /\ \A g \in flights' : /\ g \in flights /\ g.key \in Keys
                                               /\ g.id > 0 /\ g.id \in Nat
    BY <1>2 DEF KeysInv, KeysTypeOK, Current, FlightType
  <2>2. CASE rings'[c] = rings[c]
    BY <2>1, <2>2 DEF KeysInv, RingsInv, K!NoRevivedMaterial
  <2>3. CASE rings'[c] = failed
    BY <1>5, <2>1, <2>3
  <2>4. CASE /\ rings'[c] = done(c)
             /\ rings[c].phase = "waiting" /\ rings[c].flight[f.key] = f.id
    <3>1. f.since >= rings[c].asked[f.key]
      BY <2>4 DEF KeysInv, RingsInv
    <3>2. QED
      BY <1>1, <1>6, <2>1, <2>4, <3>1 DEF KeysInv, RingsInv, K!NoRevivedMaterial
  <2>5. QED
    BY <1>7, <2>2, <2>3, <2>4
<1>13. QED
  BY <1>10, <1>11, <1>12 DEF KeysInv

LEMMA CallerStep ==
  ASSUME KeysInv, NEW c \in Callers, K!RingReady(c) \/ K!RingDone(c)
  PROVE  KeysInv'
<1> UNCHANGED <<cache, inFlight, flights, epochs, globalEpoch, invalidations, clock, fetches>>
  BY DEF K!RingReady, K!RingDone
<1>1. /\ K!NoRing \in RingType /\ K!NoRing.phase = "idle"
      /\ \A k \in Keys : K!NoRing.got[k] = K!None /\ K!NoRing.flight[k] = 0
  BY KeysAssumption DEF K!NoRing, K!None, RingType
<1>2. ASSUME NEW d \in Callers
      PROVE  /\ rings'[d] \in RingType
             /\ \/ rings'[d] = K!NoRing
                \/ /\ rings'[d].phase = "waiting" => rings[d].phase = "waiting"
                   /\ rings'[d].asked = rings[d].asked /\ rings'[d].got = rings[d].got
                   /\ rings'[d].flight = rings[d].flight
  <2>1. rings \in [Callers -> RingType] /\ rings[d] \in RingType /\ rings[c] \in RingType
    BY DEF KeysInv, KeysTypeOK
  <2>2. CASE K!RingReady(c)
    <3> DEFINE ready == [rings[c] EXCEPT !.phase = "ready"]
    <3>1. /\ ready \in RingType /\ ready.phase = "ready" /\ ready.asked = rings[c].asked
          /\ ready.got = rings[c].got /\ ready.flight = rings[c].flight
      BY <2>1 DEF RingType
    <3>2. rings' = [rings EXCEPT ![c] = ready]
      BY <2>2 DEF K!RingReady
    <3> HIDE DEF ready
    <3>3. QED
      BY <2>1, <3>1, <3>2
  <2>3. CASE K!RingDone(c)
    BY <1>1, <2>1, <2>3 DEF K!RingDone
  <2>4. QED
    BY <2>2, <2>3
<1>3. KeysTypeOK'
  <2>1. rings' \in [Callers -> RingType]
    BY <1>2 DEF K!RingReady, K!RingDone, KeysInv, KeysTypeOK
  <2>2. QED
    BY <2>1 DEF KeysInv, KeysTypeOK
<1>4. Current(cache, inFlight, epochs, invalidations)'
  BY DEF KeysInv, Current
<1>5. RingsInv'
  <2>1. fetches \in Nat
    BY DEF KeysInv, KeysTypeOK
  <2>2. QED
    BY <1>1, <1>2, <2>1 DEF KeysInv, RingsInv
<1>6. K!NoRevivedMaterial'
  BY <1>1, <1>2 DEF KeysInv, K!NoRevivedMaterial
<1>7. QED
  BY <1>3, <1>4, <1>5, <1>6 DEF KeysInv

LEMMA NextKeysInv == KeysInv /\ [K!Next]_K!vars => KeysInv'
<1> SUFFICES ASSUME KeysInv, [K!Next]_K!vars PROVE KeysInv'
  OBVIOUS
<1>1. CASE UNCHANGED K!vars
  BY <1>1 DEF K!vars, KeysInv, KeysTypeOK, Current, RingsInv, K!NoRevivedMaterial
<1>2. CASE K!Clear
  BY <1>2, ClearStep
<1>3. CASE K!Tick
  BY <1>3 DEF K!Tick, KeysInv, KeysTypeOK, Current, RingsInv, K!NoRevivedMaterial
<1>4. ASSUME NEW k \in Keys, K!Invalidate(k) PROVE KeysInv'
  BY <1>4, InvalidateStep
<1>5. ASSUME NEW c \in Callers,
             K!CreateKeyRing(c) \/ K!RotateKeyRing(c) \/ K!RingReady(c) \/ K!RingDone(c)
      PROVE  KeysInv'
  BY <1>5, RingStep, CallerStep
<1>6. ASSUME NEW f \in flights, K!ProviderAnswers(f) \/ K!ProviderFails(f)
      PROVE  KeysInv'
  BY <1>6, LandStep DEF K!ProviderAnswers, K!ProviderFails
<1>7. QED
  BY <1>1, <1>2, <1>3, <1>4, <1>5, <1>6 DEF K!Next

(* Nobody gets key material from before an invalidation that it had seen:  *)
(* for every set of keys and callers, every ttl and every interleaving of  *)
(* fetches with invalidate, clear and rotateKeyRing                        *)
(* (external-key-provider.ts).                                             *)
THEOREM NoRevivedMaterialTheorem == K!Spec => []NoRevivedMaterial
<1>1. KeysInv => NoRevivedMaterial
  BY DEF KeysInv, NoRevivedMaterial
<1>2. QED
  BY <1>1, InitKeysInv, NextKeysInv, PTL DEF K!Spec

(***************************************************************************)
(* The guard.  Receipts carry the gate the caller validated while an       *)
(* action is under way, and a version names one gate: a commit that finds  *)
(* the versions of its receipts finds their gates.                         *)
(***************************************************************************)
PremiseType == [version : Nat, gate : G!Gates, revoked : BOOLEAN]
ReceiptType == [version : Nat, gate : G!Gates \cup {"none"}, revoked : BOOLEAN,
                state : G!States]

UnderWay == phase \in {"planning", "guarding", "committing"}

GuardInv ==
  /\ world \in [Premises -> PremiseType] /\ receipts \in [Premises -> ReceiptType]
  /\ \A p \in Premises :
       /\ receipts[p].version <= world[p].version
       /\ receipts[p].version = world[p].version => receipts[p].gate = world[p].gate
       /\ UnderWay => receipts[p].gate = validated[p]
  /\ G!EffectsUnderValidatedGates

LEMMA InitGuardInv == G!Init => GuardInv
  BY DEF G!Init, GuardInv, PremiseType, ReceiptType, G!Gates, G!States, G!NoReceipt, UnderWay,
         G!EffectsUnderValidatedGates

(* The receipt of the present state of a premise. *)
LEMMA ReceiptFacts ==
  ASSUME GuardInv, NEW p \in Premises
  PROVE  /\ G!Receipt(p) \in ReceiptType
         /\ G!Receipt(p).version = world[p].version /\ G!Receipt(p).gate = world[p].gate
  BY DEF GuardInv, G!Receipt, PremiseType, ReceiptType, G!Gates, G!States

LEMMA ChangesStep ==
  ASSUME GuardInv, NEW p \in Premises, NEW gate \in G!Gates, NEW revoked \in BOOLEAN,
         G!Changes(p, gate, revoked)
  PROVE  GuardInv'
<1> UNCHANGED <<receipts, validated, phase, effects>>
  BY DEF G!Changes
<1>1. world[p].version \in Nat
  BY DEF GuardInv, PremiseType
<1> DEFINE new == [version |-> world[p].version + 1, gate |-> gate, revoked |-> revoked]
<1>2. new \in PremiseType /\ new.version = world[p].version + 1
  BY <1>1 DEF PremiseType
<1>3. world' = [world EXCEPT ![p] = new]
  BY DEF G!Changes
<1> HIDE DEF new
<1>4. world' \in [Premises -> PremiseType] /\ world'[p].version = world[p].version + 1
      /\ \A q \in Premises : q # p => world'[q] = world[q]
  BY <1>2, <1>3 DEF GuardInv
<1>5. \A q \in Premises : receipts[q].version \in Nat /\ receipts[q].version <= world[q].version
  BY DEF GuardInv, ReceiptType
<1>6. QED
  BY <1>1, <1>4, <1>5 DEF GuardInv, UnderWay, G!EffectsUnderValidatedGates

(* A step that neither acts nor reads the premises, and keeps gates and    *)
(* versions.                                                               *)
LEMMA QuietStep ==
  ASSUME GuardInv, UNCHANGED <<world, validated, effects>>, UnderWay' => UnderWay,
         receipts' \in [Premises -> ReceiptType],
         \A p \in Premises : /\ receipts'[p].gate = receipts[p].gate
                             /\ receipts'[p].version = receipts[p].version
  PROVE  GuardInv'
  BY DEF GuardInv, G!EffectsUnderValidatedGates

LEMMA ValidateStep ==
  ASSUME GuardInv, G!Validate
  PROVE  GuardInv'
<1> UNCHANGED <<world, effects>>
  BY DEF G!Validate
<1>1. \A p \in Premises : receipts'[p] = G!Receipt(p) /\ validated'[p] = world[p].gate
  BY DEF G!Validate
<1>2. receipts' \in [Premises -> ReceiptType]
  BY <1>1, ReceiptFacts DEF G!Validate
<1>3. \A p \in Premises : world[p].version \in Nat
  BY DEF GuardInv, PremiseType
<1>4. QED
  BY <1>1, <1>2, <1>3, ReceiptFacts DEF GuardInv, G!EffectsUnderValidatedGates

LEMMA CommitStep ==
  ASSUME GuardInv, G!Commit
  PROVE  GuardInv'
<1> UNCHANGED <<world, validated>>
  BY DEF G!Commit
<1>1. UnderWay
  BY DEF G!Commit, UnderWay
<1>2. CASE /\ \A p \in Premises : world[p].version = receipts[p].version
           /\ effects' = effects \cup
                {[p \in Premises |-> [at |-> world[p].gate, validated |-> validated[p]]]}
           /\ phase' = "done" /\ UNCHANGED <<receipts, observed>>
  <2>1. \A p \in Premises : world[p].gate = validated[p]
    BY <1>1, <1>2 DEF GuardInv
  <2>2. G!EffectsUnderValidatedGates'
    BY <1>2, <2>1 DEF GuardInv, G!EffectsUnderValidatedGates
  <2>3. ~UnderWay'
    BY <1>2 DEF UnderWay
  <2>4. QED
    BY <1>2, <2>2, <2>3 DEF GuardInv
<1>3. CASE /\ \A p \in Premises : G!Acceptable(p, G!Receipt(p))
           /\ receipts' = [p \in Premises |-> G!Receipt(p)]
           /\ UNCHANGED effects
  <2>1. \A p \in Premises : receipts'[p] = G!Receipt(p) /\ world[p].version \in Nat
    BY <1>3 DEF GuardInv, PremiseType
  <2>2. receipts' \in [Premises -> ReceiptType]
    BY <1>3, ReceiptFacts
  <2>3. \A p \in Premises : receipts'[p].gate = validated[p]
    BY <1>1, <1>3, <2>1 DEF G!Acceptable, GuardInv
  <2>4. QED
    BY <1>3, <2>1, <2>2, <2>3, ReceiptFacts DEF GuardInv, G!EffectsUnderValidatedGates
<1>4. CASE UNCHANGED <<receipts, effects>> /\ phase' \in {"idle", "done"}
  <2>1. ~UnderWay'
    BY <1>4 DEF UnderWay
  <2>2. QED
    BY <1>4, <2>1, QuietStep DEF GuardInv
<1>5. QED
  BY <1>2, <1>3, <1>4 DEF G!Commit

LEMMA NextGuardInv == GuardInv /\ [G!Next]_G!vars => GuardInv'
<1> SUFFICES ASSUME GuardInv, [G!Next]_G!vars PROVE GuardInv'
  OBVIOUS
<1>1. CASE UNCHANGED G!vars
  BY <1>1, QuietStep DEF G!vars, GuardInv, UnderWay
<1>2. ASSUME NEW p \in Premises, NEW gate \in G!Gates, NEW revoked \in BOOLEAN,
             G!Changes(p, gate, revoked)
      PROVE  GuardInv'
  BY <1>2, ChangesStep
<1>3. CASE G!Validate
  BY <1>3, ValidateStep
<1>4. ASSUME NEW p \in Premises, NEW state \in G!States, G!Notified(p, state)
      PROVE  GuardInv'
  <2>1. UNCHANGED <<world, validated, effects, phase>>
    BY <1>4 DEF G!Notified
  <2>2. receipts[p] \in ReceiptType
    BY DEF GuardInv
  <2> DEFINE new == [receipts[p] EXCEPT !.state = state]
  <2>3. new \in ReceiptType /\ new.gate = receipts[p].gate /\ new.version = receipts[p].version
    BY <2>2 DEF ReceiptType
  <2>4. receipts' = [receipts EXCEPT ![p] = new]
    BY <1>4 DEF G!Notified
  <2> HIDE DEF new
  <2>5. QED
    BY <2>1, <2>3, <2>4, QuietStep DEF GuardInv, UnderWay
<1>5. CASE G!Decide \/ G!Guard \/ G!LeaseExpires
  <2>1. UNCHANGED <<world, receipts, validated, effects>> /\ UnderWay
    BY <1>5 DEF G!Decide, G!Guard, G!LeaseExpires, UnderWay
  <2>2. QED
    BY <2>1, QuietStep DEF GuardInv
<1>6. CASE G!Commit
  BY <1>6, CommitStep
<1>7. QED
  BY <1>1, <1>2, <1>3, <1>4, <1>5, <1>6 DEF G!Next

(* The source acts only under the gates that the caller validated, however *)
(* the premises change and however often a failed commit hands receipts    *)
(* back: for every set of premises and every bound (premise-guard.ts).     *)
THEOREM EffectsUnderValidatedGatesTheorem == G!Spec => []EffectsUnderValidatedGates
<1>1. GuardInv => EffectsUnderValidatedGates
  BY DEF GuardInv, EffectsUnderValidatedGates
<1>2. QED
  BY <1>1, InitGuardInv, NextGuardInv, PTL DEF G!Spec

(* The planner, for any input whatever: a higher risk is never let through *)
(* with less.                                                              *)
LEMMA PlanTightens ==
  ASSUME NEW i, NEW low, NEW high, <<low, high>> \in G!Lower
  PROVE  G!Strictness(G!Plan(i, low)) <= G!Strictness(G!Plan(i, high))
<1>1. /\ G!HighRisk(low) => G!HighRisk(high)
      /\ low # "CRITICAL" /\ high # "LOW"
  BY DEF G!Lower, G!HighRisk
<1>2. G!PlanWrite(i, low) = G!PlanWrite(i, high) \/ G!PlanWrite(i, high) = "UNSUPPORTED"
  BY <1>1 DEF G!PlanWrite, G!LacksForWrite
<1>3. \/ G!PlanRead(i, low) = "USE" \/ G!PlanRead(i, low) = G!PlanRead(i, high)
      \/ G!PlanRead(i, low) = "REVALIDATE" /\ G!PlanRead(i, high) # "USE"
      \/ G!PlanRead(i, high) \in {"UNSUPPORTED", "REJECT"}
  BY <1>1 DEF G!PlanRead
<1>4. \/ G!Plan(i, low) = "USE" \/ G!Plan(i, low) = G!Plan(i, high)
      \/ G!Plan(i, low) = "REVALIDATE" /\ G!Plan(i, high) # "USE"
      \/ G!Plan(i, high) \in {"UNSUPPORTED", "REJECT"}
  BY <1>1, <1>2, <1>3 DEF G!Plan
<1>5. QED
  BY <1>4 DEF G!Strictness

(* For every input the planner may be given, not only the ones that are    *)
(* enumerated for TLC (premise-policy.ts).                                 *)
THEOREM RiskOnlyTightensTheorem == G!Spec => []RiskOnlyTightens
<1>1. RiskOnlyTightens
  <2> SUFFICES ASSUME NEW r \in G!Lower
               PROVE  G!Strictness(G!Plan(input, r[1])) <= G!Strictness(G!Plan(input, r[2]))
    BY DEF RiskOnlyTightens, G!RiskOnlyTightens
  <2>1. r = <<r[1], r[2]>>
    BY DEF G!Lower
  <2>2. QED
    BY <2>1, PlanTightens
<1>2. QED
  BY <1>1, PTL
-----------------------------------------------------------------------------
(***************************************************************************)
(* The audit trail.  A write that stopped poisons the sink, so only the    *)
(* last line can be torn; the lines before it are a chain, and what was    *)
(* acknowledged lies within the synced ones, which no crash takes away.    *)
(***************************************************************************)
Whole(f, n) == \A i \in 1 .. n : f[i] # A!Torn

SoundFile(f) ==
  /\ f \in Seq(Seq(Events) \cup {A!Torn})
  /\ \A i \in 1 .. Len(f) : f[i] = A!Torn => i = Len(f)
  /\ \A n \in 0 .. Len(f) : Whole(f, n) => A!Chain(SubSeq(f, 1, n))

Kept(f, n, x) == \E i \in 1 .. n : x = f[i]

SinkType == [open : BOOLEAN, entries : Seq(Seq(Events) \cup {A!Torn}), size : Nat,
             poisoned : BOOLEAN]

TrailInv ==
  /\ SoundFile(file) /\ log \in Seq(Events) /\ synced \in 0 .. Len(file)
  /\ sink \in SinkType
  /\ \A x \in acknowledged : x # A!Torn /\ Kept(file, synced, x)
  /\ sink.open /\ ~sink.poisoned => sink.entries = file /\ Whole(file, Len(file))

(* A log that is written is no torn line. *)
LEMMA LogIsWhole ==
  ASSUME log \in Seq(Events)
  PROVE  log # A!Torn
<1> SUFFICES ASSUME log = A!Torn PROVE FALSE
  OBVIOUS
<1>1. Len(log) = 1 /\ log[1] = "torn"
  BY DEF A!Torn
<1>2. log[1] \in Events
  BY <1>1
<1> QED
  BY <1>1, <1>2, TrailAssumption

(* The beginning of a chain is a chain. *)
LEMMA ChainPrefix ==
  ASSUME NEW T, NEW s \in Seq(T), NEW n \in 0 .. Len(s), A!Chain(s)
  PROVE  A!Chain(SubSeq(s, 1, n))
<1>1. PICK p : p = SubSeq(s, 1, n)
  OBVIOUS
<1>2. Len(p) = n /\ \A i \in 1 .. n : p[i] = s[i]
  BY <1>1
<1>3. ASSUME NEW i \in 1 .. Len(p)
      PROVE  /\ Len(p[i]) = i /\ A!IsInjective(p[i])
             /\ i > 1 => A!Front(p[i]) = p[i - 1]
  <2>1. p[i] = s[i] /\ i \in 1 .. Len(s)
    BY <1>2, <1>3
  <2>2. i > 1 => p[i - 1] = s[i - 1]
    BY <1>2, <1>3
  <2>3. Len(s[i]) = i /\ A!IsInjective(s[i]) /\ (i > 1 => A!Front(s[i]) = s[i - 1])
    BY <2>1 DEF A!Chain
  <2> QED
    BY <2>1, <2>2, <2>3
<1>4. A!Chain(p)
  BY <1>3 DEF A!Chain
<1> QED
  BY <1>1, <1>4

LEMMA CutFile ==
  ASSUME NEW f, SoundFile(f), NEW n \in 0 .. Len(f), NEW g, g = SubSeq(f, 1, n)
  PROVE  /\ SoundFile(g) /\ Len(g) = n /\ \A i \in 1 .. n : g[i] = f[i]
         /\ n < Len(f) => Whole(g, n)
<1> DEFINE T == Seq(Events) \cup {A!Torn}
<1>1. f \in Seq(T) /\ Len(f) \in Nat
  BY DEF SoundFile
<1> HIDE DEF T
<1>2. g \in Seq(T) /\ Len(g) = n /\ \A i \in 1 .. n : g[i] = f[i]
  BY <1>1
<1>3. \A i \in 1 .. Len(f) : f[i] = A!Torn => i = Len(f)
  BY DEF SoundFile
<1>4. \A i \in 1 .. n : g[i] = A!Torn => i = n
  BY <1>1, <1>2, <1>3
<1>5. n < Len(f) => Whole(g, n)
  BY <1>1, <1>2, <1>3 DEF Whole
<1>6. ASSUME NEW m \in 0 .. n, Whole(g, m)
      PROVE  A!Chain(SubSeq(g, 1, m))
  <2>1. m \in 0 .. Len(f) /\ Whole(f, m)
    BY <1>1, <1>2, <1>6 DEF Whole
  <2>2. SubSeq(g, 1, m) = SubSeq(f, 1, m)
    BY <1>1, <1>2
  <2> QED
    BY <2>1, <2>2 DEF SoundFile
<1> QED
  BY <1>2, <1>4, <1>5, <1>6 DEF SoundFile, T

Lines == Seq(Events) \cup {A!Torn}

Extends(g, f, x) == g = Append(f, x)

LEMMA GrownFile ==
  ASSUME NEW f, SoundFile(f), NEW k \in Nat, k = Len(f), Whole(f, k), NEW x \in Lines,
         NEW g, Extends(g, f, x), x = A!Torn \/ A!Chain(g)
  PROVE  /\ SoundFile(g) /\ Len(g) = k + 1 /\ g[k + 1] = x
         /\ \A i \in 1 .. k : g[i] = f[i]
         /\ x # A!Torn => Whole(g, k + 1)
<1> DEFINE T == Seq(Events) \cup {A!Torn}
<1>1. f \in Seq(T) /\ Len(f) \in Nat /\ x \in T
  BY DEF SoundFile, Lines
<1> HIDE DEF T
<1>2. /\ g \in Seq(T) /\ Len(g) = Len(f) + 1 /\ g[Len(f) + 1] = x
      /\ \A i \in 1 .. Len(f) : g[i] = f[i]
  BY <1>1 DEF Extends
<1>3. \A i \in 1 .. Len(g) : g[i] = A!Torn => i = Len(g)
  BY <1>1, <1>2 DEF Whole
<1>4. x # A!Torn => Whole(g, Len(g))
  BY <1>1, <1>2 DEF Whole
<1>5. ASSUME NEW m \in 0 .. Len(g), Whole(g, m)
      PROVE  A!Chain(SubSeq(g, 1, m))
  <2>1. CASE m = Len(g)
    <3>1. x # A!Torn
      BY <1>1, <1>2, <1>5, <2>1 DEF Whole
    <3>2. SubSeq(g, 1, m) = g
      BY <1>1, <1>2, <2>1
    <3> QED
      BY <3>1, <3>2
  <2>2. CASE m # Len(g)
    <3>1. m \in 0 .. Len(f)
      BY <1>1, <1>2, <2>2
    <3>2. Whole(f, m)
      BY <1>1, <3>1 DEF Whole
    <3>3. SubSeq(g, 1, m) = SubSeq(f, 1, m)
      BY <1>1, <1>2, <3>1
    <3> QED
      BY <3>1, <3>2, <3>3 DEF SoundFile
  <2> QED
    BY <2>1, <2>2
<1> QED
  BY <1>2, <1>3, <1>4, <1>5 DEF SoundFile, T

(* What is kept stays kept when the file keeps its synced lines. *)
LEMMA StaysKept ==
  ASSUME TrailInv, NEW g, NEW n \in Nat, synced <= n,
         \A i \in 1 .. synced : g[i] = file[i]
  PROVE  \A x \in acknowledged : x # A!Torn /\ Kept(g, n, x)
<1>1. ASSUME NEW x \in acknowledged PROVE Kept(g, n, x)
  <2>1. PICK i \in 1 .. synced : x = file[i]
    BY DEF TrailInv, Kept
  <2>2. synced \in Nat
    BY DEF TrailInv
  <2> QED
    BY <2>1, <2>2 DEF Kept
<1> QED
  BY <1>1 DEF TrailInv

LEMMA LengthIsNat ==
  ASSUME NEW f, SoundFile(f)
  PROVE  Len(f) \in Nat
BY DEF SoundFile

(* A step that leaves the file alone. *)
LEMMA SameFile ==
  ASSUME TrailInv, file' = file, acknowledged' = acknowledged, log' \in Seq(Events),
         synced' = synced \/ synced' = Len(file),
         sink' \in SinkType,
         sink'.open /\ ~sink'.poisoned => sink'.entries = file /\ Whole(file, Len(file))
  PROVE  TrailInv'
<1>1. Len(file) \in Nat /\ SoundFile(file)
  BY LengthIsNat DEF TrailInv
<1>2. synced' \in 0 .. Len(file) /\ synced <= synced'
  BY <1>1 DEF TrailInv
<1>3. PICK n : n = synced'
  OBVIOUS
<1>4. \A x \in acknowledged : x # A!Torn /\ Kept(file, n, x)
  BY <1>2, <1>3, StaysKept
<1> QED
  BY <1>1, <1>2, <1>3, <1>4 DEF TrailInv

LEMMA InitTrail == A!Init => TrailInv
<1> SUFFICES ASSUME A!Init PROVE TrailInv
  OBVIOUS
<1>1. A!Chain(SubSeq(file, 1, 0))
  BY DEF A!Init, A!Chain
<1>2. SoundFile(file)
  BY <1>1 DEF A!Init, SoundFile
<1> QED
  BY <1>2 DEF A!Init, TrailInv, A!Closed, SinkType

(* The lines a write leaves behind. *)
LEMMA WriteTrail ==
  ASSUME TrailInv, A!SinkAppend
  PROVE  TrailInv'
<1>1. /\ sink.entries = file /\ Whole(file, Len(file)) /\ SoundFile(file)
      /\ Len(file) \in Nat /\ synced \in 0 .. Len(file)
  BY LengthIsNat DEF A!SinkAppend, A!Ready, TrailInv
<1>2. /\ log \in Seq(Events) /\ log' = log /\ log # A!Torn
      /\ log \in Lines /\ A!Torn \in Lines /\ sink \in SinkType
  BY LogIsWhole DEF A!SinkAppend, TrailInv, Lines
<1>3. A!Chain(Append(file, log))
  BY <1>1 DEF A!SinkAppend
<1>4. PICK longer : longer = Append(file, log) /\ (log = A!Torn \/ A!Chain(longer))
  BY <1>3
<1>5. /\ SoundFile(longer) /\ Len(longer) = Len(file) + 1 /\ longer[Len(file) + 1] = log
      /\ \A i \in 1 .. Len(file) : longer[i] = file[i]
      /\ Whole(longer, Len(longer))
  <2>1. PICK k \in Nat : k = Len(file) /\ Whole(file, k)
    BY <1>1
  <2>2. /\ SoundFile(longer) /\ Len(longer) = k + 1 /\ longer[k + 1] = log
        /\ \A i \in 1 .. k : longer[i] = file[i]
        /\ log # A!Torn => Whole(longer, k + 1)
    <3>1. Extends(longer, file, log)
      BY <1>4 DEF Extends
    <3> QED
      BY <1>1, <1>2, <1>4, <2>1, <3>1, GrownFile
  <2> QED
    BY <1>2, <2>1, <2>2
<1>6. CASE /\ file' = Append(file, log) /\ synced' = Len(file')
           /\ sink' = [sink EXCEPT !.entries = Append(@, log), !.size = @ + 1]
           /\ acknowledged' = acknowledged \cup {log}
  <2>1. file' = longer /\ synced' = Len(file) + 1 /\ synced' \in 0 .. Len(longer)
    BY <1>1, <1>4, <1>5, <1>6
  <2>2. \A i \in 1 .. synced : longer[i] = file[i]
    BY <1>1, <1>5
  <2>3. PICK n \in Nat : n = Len(file) + 1
    BY <1>1
  <2>4. \A x \in acknowledged : x # A!Torn /\ Kept(longer, n, x)
    BY <1>1, <2>2, <2>3, StaysKept
  <2>5. Kept(longer, n, log)
    BY <1>1, <1>5, <2>3 DEF Kept
  <2>6. sink'.open /\ ~sink'.poisoned => sink'.entries = longer
    <3>1. sink'.entries = Append(sink.entries, log)
      BY <1>2, <1>6 DEF SinkType
    <3> QED
      BY <1>1, <1>4, <3>1
  <2>7. sink' \in SinkType
    <3>1. Append(sink.entries, log) \in Seq(Seq(Events) \cup {A!Torn})
      BY <1>2 DEF SinkType
    <3>2. PICK e : e = Append(sink.entries, log)
      OBVIOUS
    <3>3. sink' = [sink EXCEPT !.entries = e, !.size = sink.size + 1]
      BY <1>2, <1>6, <3>2 DEF SinkType
    <3>4. e \in Seq(Seq(Events) \cup {A!Torn}) /\ sink.size + 1 \in Nat
      BY <1>2, <3>1, <3>2 DEF SinkType
    <3> QED
      BY <1>2, <3>3, <3>4 DEF SinkType
  <2> QED
    BY <1>2, <1>5, <1>6, <2>1, <2>3, <2>4, <2>5, <2>6, <2>7 DEF TrailInv
<1>7. CASE /\ file' \in {file, Append(file, A!Torn), Append(file, log)}
           /\ sink' = [sink EXCEPT !.poisoned = TRUE] /\ UNCHANGED <<synced, acknowledged>>
  <2>1. PICK torn : torn = Append(file, A!Torn)
    OBVIOUS
  <2>2. /\ SoundFile(torn) /\ Len(torn) = Len(file) + 1
        /\ \A i \in 1 .. Len(file) : torn[i] = file[i]
    <3>1. PICK k \in Nat : k = Len(file) /\ Whole(file, k)
      BY <1>1
    <3>2. SoundFile(torn) /\ Len(torn) = k + 1 /\ \A i \in 1 .. k : torn[i] = file[i]
      <4>1. Extends(torn, file, A!Torn)
        BY <2>1 DEF Extends
      <4> QED
        BY <1>1, <1>2, <3>1, <4>1, GrownFile
    <3> QED
      BY <3>1, <3>2
  <2>3. PICK g : g = file'
    OBVIOUS
  <2>4. /\ SoundFile(g) /\ Len(g) \in Nat /\ Len(g) >= Len(file)
        /\ \A i \in 1 .. Len(file) : g[i] = file[i]
    <3>1. g = file \/ g = torn \/ g = longer
      BY <1>4, <1>7, <2>1, <2>3
    <3>2. Len(longer) \in Nat /\ Len(longer) >= Len(file)
      BY <1>1, <1>5
    <3>3. Len(torn) \in Nat /\ Len(torn) >= Len(file)
      BY <1>1, <2>2
    <3> QED
      BY <1>1, <1>5, <2>2, <3>1, <3>2, <3>3
  <2>5. \A i \in 1 .. synced : g[i] = file[i]
    BY <1>1, <2>4
  <2>6. \A x \in acknowledged : x # A!Torn /\ Kept(g, synced, x)
    BY <1>1, <2>5, StaysKept
  <2>7. synced \in 0 .. Len(g)
    BY <1>1, <2>4
  <2>8. sink' \in SinkType /\ sink'.poisoned
    BY <1>2, <1>7 DEF SinkType
  <2> QED
    BY <1>2, <1>7, <2>3, <2>4, <2>6, <2>7, <2>8 DEF TrailInv
<1> QED
  BY <1>6, <1>7 DEF A!SinkAppend

(* A crash keeps the synced lines. *)
LEMMA CrashTrail ==
  ASSUME TrailInv, A!Crash
  PROVE  TrailInv'
<1>1. SoundFile(file) /\ Len(file) \in Nat /\ synced \in 0 .. Len(file)
  BY LengthIsNat DEF TrailInv
<1>2. PICK n \in synced .. Len(file) :
        file' \in {SubSeq(file, 1, n)}
                   \cup (IF n < Len(file) THEN {Append(SubSeq(file, 1, n), A!Torn)} ELSE {})
  BY DEF A!Crash
<1>3. n \in 0 .. Len(file) /\ synced <= n /\ n \in Nat
  BY <1>1
<1>4. PICK cut : cut = SubSeq(file, 1, n)
  OBVIOUS
<1>5. /\ SoundFile(cut) /\ Len(cut) = n /\ \A i \in 1 .. n : cut[i] = file[i]
      /\ n < Len(file) => Whole(cut, n)
  BY <1>1, <1>3, <1>4, CutFile
<1>6. PICK g : g = file'
  OBVIOUS
<1>7. SoundFile(g) /\ Len(g) \in Nat /\ Len(g) >= n /\ \A i \in 1 .. n : g[i] = file[i]
  <2>1. CASE g = cut
    BY <1>3, <1>5, <2>1
  <2>2. CASE n < Len(file) /\ g = Append(cut, A!Torn)
    <3>1. Whole(cut, Len(cut))
      BY <1>5, <2>2
    <3>2. SoundFile(g) /\ Len(g) = n + 1 /\ \A i \in 1 .. n : g[i] = cut[i]
      <4>1. A!Torn \in Lines
        BY DEF Lines
      <4>2. Extends(g, cut, A!Torn)
        BY <2>2 DEF Extends
      <4> QED
        BY <1>3, <1>5, <3>1, <4>1, <4>2, GrownFile
    <3> QED
      BY <1>3, <1>5, <3>2
  <2> QED
    BY <1>2, <1>4, <1>6, <2>1, <2>2
<1>8. PICK m \in Nat : m = Len(g)
  BY <1>7
<1>9. \A i \in 1 .. synced : g[i] = file[i]
  BY <1>1, <1>3, <1>7
<1>10. \A x \in acknowledged : x # A!Torn /\ Kept(g, m, x)
  BY <1>3, <1>7, <1>8, <1>9, <1>1, StaysKept
<1>11. /\ synced' = m /\ acknowledged' = acknowledged /\ log' = <<>>
       /\ sink'.open = FALSE /\ sink' \in SinkType
  BY <1>6, <1>8 DEF A!Crash, A!Closed, SinkType
<1> QED
  BY <1>6, <1>7, <1>8, <1>10, <1>11 DEF TrailInv

LEMMA TrailStep == TrailInv /\ [A!Next]_auditVars => TrailInv'
<1> SUFFICES ASSUME TrailInv, [A!Next]_auditVars PROVE TrailInv'
  OBVIOUS
<1>1. log \in Seq(Events) /\ SoundFile(file) /\ sink \in SinkType
  BY DEF TrailInv
<1>2. CASE A!Open
  <2>1. Whole(file, Len(file))
    BY <1>2 DEF A!Open, A!Decodes, A!ToSet, Whole
  <2>2. ASSUME NEW i \in {Len(file)} \ {0} PROVE file[i] \in Seq(Events)
    BY <1>1, <2>1 DEF SoundFile, Whole
  <2>3. log' \in Seq(Events)
    <3>1. log' = <<>> \/ \E i \in {Len(file)} \ {0} : log' = file[i]
      BY <1>2 DEF A!Open
    <3>2. <<>> \in Seq(Events)
      OBVIOUS
    <3> QED
      BY <2>2, <3>1, <3>2
  <2>4. /\ file \in Seq(Seq(Events) \cup {A!Torn}) /\ Len(file) \in Nat
    BY <1>1 DEF SoundFile
  <2>5. /\ sink' = [open |-> TRUE, entries |-> file, size |-> Len(file), poisoned |-> FALSE]
        /\ file' = file /\ acknowledged' = acknowledged /\ synced' = synced
    BY <1>2 DEF A!Open
  <2>6. sink' \in SinkType /\ sink'.entries = file
    BY <2>4, <2>5 DEF SinkType
  <2> QED
    BY <2>1, <2>3, <2>5, <2>6, SameFile
<1>3. ASSUME NEW e \in Events, A!LogAppend(e) PROVE TrailInv'
  <2>1. log' \in Seq(Events)
    BY <1>1, <1>3 DEF A!LogAppend
  <2> QED
    BY <1>3, <2>1, SameFile DEF A!LogAppend, TrailInv
<1>4. CASE A!SinkAppend
  BY <1>4, WriteTrail
<1>5. CASE A!Flush
  <2>1. sink' = sink \/ sink' = [sink EXCEPT !.poisoned = TRUE]
    BY <1>5 DEF A!Flush
  <2>2. CASE sink' = sink
    BY <1>1, <1>5, <2>2, SameFile DEF A!Flush, TrailInv
  <2>3. CASE sink' = [sink EXCEPT !.poisoned = TRUE]
    <3>1. sink' \in SinkType /\ sink'.poisoned
      BY <1>1, <2>3 DEF SinkType
    <3> QED
      BY <1>1, <1>5, <3>1, SameFile DEF A!Flush
  <2> QED
    BY <2>1, <2>2, <2>3
<1>6. CASE A!Close
  <2>1. sink' \in SinkType /\ ~sink'.open /\ log' \in Seq(Events)
    BY <1>6 DEF A!Close, A!Closed, SinkType
  <2> QED
    BY <1>6, <2>1, SameFile DEF A!Close
<1>7. CASE A!Crash
  BY <1>7, CrashTrail
<1>8. CASE UNCHANGED auditVars
  BY <1>1, <1>8, SameFile DEF auditVars, TrailInv
<1> QED
  BY <1>2, <1>3, <1>4, <1>5, <1>6, <1>7, <1>8 DEF A!Next

LEMMA TrailVerifies == TrailInv => AcknowledgedStaysVerifiable
<1> SUFFICES ASSUME TrailInv PROVE AcknowledgedStaysVerifiable
  OBVIOUS
<1>1. SoundFile(file) /\ Len(file) \in Nat /\ synced \in 0 .. Len(file)
  BY LengthIsNat DEF TrailInv
<1>2. A!ToSet(file) = {file[i] : i \in 1 .. Len(file)}
  BY <1>1 DEF A!ToSet, SoundFile
<1>3. CASE A!Torn \notin A!ToSet(file)
  <2>1. Whole(file, Len(file)) /\ SubSeq(file, 1, Len(file)) = file
    BY <1>1, <1>2, <1>3 DEF Whole, SoundFile
  <2>2. A!Chain(file)
    <3>1. Len(file) \in 0 .. Len(file)
      BY <1>1
    <3>2. A!Chain(SubSeq(file, 1, Len(file)))
      BY <1>1, <2>1, <3>1 DEF SoundFile
    <3> QED
      BY <2>1, <3>2
  <2>3. acknowledged \subseteq A!ToSet(file)
    BY <1>1, <1>2 DEF TrailInv, Kept
  <2> QED
    BY <1>3, <2>2, <2>3 DEF AcknowledgedStaysVerifiable, A!AcknowledgedStaysVerifiable
<1>4. CASE A!Torn \in A!ToSet(file)
  <2>1. PICK i \in 1 .. Len(file) : file[i] = A!Torn
    BY <1>2, <1>4
  <2>2. i = Len(file)
    BY <2>1 DEF TrailInv, SoundFile
  <2>3. PICK k \in 0 .. Len(file) - 1 : k = Len(file) - 1
    BY <1>1, <2>1
  <2>4. file[k + 1] = A!Torn /\ \A j \in 1 .. k : file[j] # A!Torn
    BY <1>1, <2>1, <2>2, <2>3 DEF SoundFile
  <2>5. \A n \in 0 .. Len(file) - 1 :
          file[n + 1] = A!Torn /\ (\A j \in 1 .. n : file[j] # A!Torn) => n = k
    BY <1>1, <2>3 DEF SoundFile
  <2>6. (CHOOSE n \in 0 .. Len(file) - 1 :
           file[n + 1] = A!Torn /\ \A j \in 1 .. n : file[j] # A!Torn) = k
    BY <2>4, <2>5
  <2>7. PICK sound : sound = SubSeq(file, 1, k)
    OBVIOUS
  <2>8. A!Chain(sound)
    BY <1>1, <2>3, <2>4, <2>7 DEF SoundFile, Whole
  <2>9. ASSUME NEW x \in acknowledged PROVE x \in A!ToSet(sound)
    <3>1. x # A!Torn /\ Kept(file, synced, x)
      BY DEF TrailInv
    <3>2. PICK j \in 1 .. synced : x = file[j]
      BY <3>1 DEF Kept
    <3>3. j \in 1 .. k
      BY <1>1, <2>1, <2>2, <2>3, <3>1, <3>2
    <3>4. sound \in Seq(Seq(Events) \cup {A!Torn}) /\ Len(sound) = k /\ sound[j] = file[j]
      BY <1>1, <2>3, <2>7, <3>3 DEF SoundFile
    <3>5. j \in DOMAIN sound
      BY <3>3, <3>4, <2>3
    <3> QED
      BY <3>2, <3>4, <3>5 DEF A!ToSet
  <2> QED
    BY <1>4, <2>6, <2>7, <2>8, <2>9 DEF AcknowledgedStaysVerifiable,
                                       A!AcknowledgedStaysVerifiable
<1> QED
  BY <1>3, <1>4

(* What FileAuditSink.append acknowledged is in the file after every       *)
(* failed write, crash and reopening, in a chain that verifies, for any    *)
(* events, any limit of entries and any number of mishaps (audit-sink.ts). *)
THEOREM AcknowledgedStaysVerifiableTheorem == A!Spec => []AcknowledgedStaysVerifiable
<1>1. A!Spec => []TrailInv
  BY InitTrail, TrailStep, PTL DEF A!Spec, A!vars, auditVars
<1> QED
  BY <1>1, TrailVerifies, PTL
-----------------------------------------------------------------------------
(***************************************************************************)
(* Webhooks.  Unless its key was evicted or lost, a delivery is in one of  *)
(* three places: free, with nothing done; held, with one handler running;  *)
(* held, with one run that succeeded.  An attempt that was not sent yet    *)
(* does not run, so a retry never starts over a handler under way.         *)
(***************************************************************************)
Stages == {"unsent", "travelling", "running", "done", "duplicate", "thrown", "replay", "lost"}
SenderType == [state : {"idle", "waiting", "sleeping", "answered", "failed", "aborted"},
               attempt : Nat, timestamp : Nat]

RunsIn(r) == {n \in W!Attempts : r[n] = "running"}
Held(e) == {e[i] : i \in 1 .. Len(e)}
Distinct(e) == \A i, j \in 1 .. Len(e) : e[i] = e[j] => i = j

Accounted(held, count, runs) ==
  \/ ~held /\ count = 0 /\ runs = {}
  \/ held /\ count = 0 /\ \E n \in W!Attempts : runs = {n}
  \/ held /\ count = 1 /\ runs = {}

SendsInv ==
  /\ deliveryClock \in Nat /\ sender \in [Deliveries -> SenderType]
  /\ post \in [Deliveries -> [W!Attempts -> Stages]]
  /\ \A d \in Deliveries :
       /\ sender[d].state = "idle" => sender[d].attempt = 0
       /\ \A n \in W!Attempts : n > sender[d].attempt => post[d][n] = "unsent"

HandledInv ==
  /\ entries \in Seq(Deliveries) /\ Distinct(entries)
  /\ handled \in [Deliveries -> Nat]
  /\ \A d \in Deliveries \ forgotten :
       Accounted(d \in Held(entries), handled[d], RunsIn(post[d]))

HookInv == SendsInv /\ HandledInv

LEMMA AttemptsAreNat == W!Attempts \subseteq Nat /\ 1 \in W!Attempts
  BY HookAssumption DEF W!Attempts

LEMMA HeldIsToSet ==
  ASSUME NEW e \in Seq(Deliveries)
  PROVE  W!ToSet(e) = Held(e)
BY DEF W!ToSet, Held

(* A new key goes last; it is never the one that a full store drops. *)
LEMMA ClaimedHolds ==
  ASSUME entries \in Seq(Deliveries), Distinct(entries), NEW k \in Deliveries,
         k \notin Held(entries), NEW e, e = W!Claimed(k)
  PROVE  /\ e \in Seq(Deliveries) /\ Distinct(e) /\ k \in Held(e)
         /\ Held(e) \subseteq Held(entries) \cup {k}
<1>1. PICK n \in Nat : n = Len(entries)
  OBVIOUS
<1>2. PICK longer : longer = Append(entries, k)
  OBVIOUS
<1>3. /\ longer \in Seq(Deliveries) /\ Len(longer) = n + 1 /\ longer[n + 1] = k
      /\ \A i \in 1 .. n : longer[i] = entries[i]
  BY <1>1, <1>2
<1>4. \A i \in 1 .. n : longer[i] \in Held(entries) /\ longer[i] # k
  BY <1>1, <1>3 DEF Held
<1>5. \A i, j \in 1 .. (n + 1) : longer[i] = longer[j] => i = j
  <2>1. \A i, j \in 1 .. n : longer[i] = longer[j] => i = j
    BY <1>1, <1>3 DEF Distinct
  <2>2. \A i \in 1 .. (n + 1) : i \in 1 .. n \/ i = n + 1
    BY <1>1
  <2> QED
    BY <1>3, <1>4, <2>1, <2>2
<1>6. CASE e = longer
  <2>1. Distinct(e)
    BY <1>3, <1>5, <1>6 DEF Distinct
  <2>2. k \in Held(e)
    BY <1>1, <1>3, <1>6 DEF Held
  <2>3. Held(e) \subseteq Held(entries) \cup {k}
    <3>1. \A i \in 1 .. (n + 1) : longer[i] \in Held(entries) \cup {k}
      BY <1>1, <1>3, <1>4
    <3> QED
      BY <1>3, <1>6, <3>1 DEF Held
  <2> QED
    BY <1>3, <1>6, <2>1, <2>2, <2>3
<1>7. CASE Len(longer) > DedupEntries /\ e = Tail(longer)
  <2>1. n >= 1
    BY <1>1, <1>3, <1>7, HookAssumption
  <2>2. /\ e \in Seq(Deliveries) /\ Len(e) = n /\ \A i \in 1 .. n : e[i] = longer[i + 1]
    BY <1>1, <1>3, <1>7, <2>1
  <2>3. ASSUME NEW i \in 1 .. n, NEW j \in 1 .. n, e[i] = e[j] PROVE i = j
    <3>1. i + 1 \in 1 .. (n + 1) /\ j + 1 \in 1 .. (n + 1)
      BY <1>1
    <3>2. i + 1 = j + 1
      BY <1>5, <2>2, <2>3, <3>1
    <3> QED
      BY <3>2
  <2>4. e[n] = k /\ n \in 1 .. n
    BY <1>1, <1>3, <2>1, <2>2
  <2>5. \A i \in 1 .. n : e[i] \in Held(entries) \cup {k}
    <3>1. \A i \in 1 .. n : i + 1 \in 1 .. (n + 1)
      BY <1>1
    <3>2. \A i \in 1 .. (n + 1) : longer[i] \in Held(entries) \cup {k}
      BY <1>1, <1>3, <1>4
    <3> QED
      BY <2>2, <3>1, <3>2
  <2> QED
    BY <2>2, <2>3, <2>4, <2>5 DEF Distinct, Held
<1> QED
  BY <1>2, <1>6, <1>7 DEF W!Claimed

(* Release removes the key and nothing else. *)
LEMMA ReleasedHolds ==
  ASSUME entries \in Seq(Deliveries), Distinct(entries), NEW k \in Deliveries,
         NEW e, e = W!Released(k)
  PROVE  e \in Seq(Deliveries) /\ Distinct(e) /\ Held(e) = Held(entries) \ {k}
<1>1. PICK n \in Nat : n = Len(entries)
  OBVIOUS
<1>2. W!ToSet(entries) = Held(entries)
  BY HeldIsToSet
<1>3. CASE k \notin Held(entries)
  BY <1>2, <1>3 DEF W!Released
<1>4. CASE k \in Held(entries)
  <2>1. PICK i \in 1 .. n : entries[i] = k /\ e = W!RemoveAt(entries, i)
    <3>1. \E i \in DOMAIN entries : entries[i] = k
      BY <1>4 DEF Held
    <3>2. DOMAIN entries = 1 .. n
      BY <1>1
    <3> QED
      BY <1>2, <1>4, <3>1, <3>2 DEF W!Released
  <2>2. PICK a, b : a = SubSeq(entries, 1, i - 1) /\ b = SubSeq(entries, i + 1, n)
    OBVIOUS
  <2>3. /\ a \in Seq(Deliveries) /\ Len(a) = i - 1
        /\ \A j \in 1 .. (i - 1) : a[j] = entries[j]
    BY <1>1, <2>2
  <2>4. /\ b \in Seq(Deliveries) /\ Len(b) = n - i
        /\ \A j \in 1 .. (n - i) : b[j] = entries[i + j]
    <3>1. \A j \in (i + 1) .. n : entries[j] \in Deliveries
      BY <1>1
    <3>2. CASE i = n
      BY <1>1, <2>2, <3>2
    <3>3. CASE i < n
      BY <1>1, <2>2, <3>1, <3>3
    <3> QED
      BY <1>1, <3>2, <3>3
  <2>5. e = a \o b
    BY <1>1, <2>1, <2>2 DEF W!RemoveAt
  <2>6. /\ e \in Seq(Deliveries) /\ Len(e) = n - 1
        /\ \A j \in 1 .. (n - 1) : e[j] = entries[IF j < i THEN j ELSE j + 1]
    <3>1. e \in Seq(Deliveries) /\ Len(e) = n - 1
      <4>1. a \in Seq(Deliveries) /\ b \in Seq(Deliveries)
        BY <2>3, <2>4
      <4>2. e \in Seq(Deliveries) /\ Len(e) = Len(a) + Len(b)
        BY <2>5, <4>1
      <4>3. Len(a) + Len(b) = n - 1
        BY <1>1, <2>3, <2>4
      <4> QED
        BY <4>2, <4>3
    <3>2. ASSUME NEW j \in 1 .. (n - 1), j < i PROVE e[j] = entries[j]
      BY <1>1, <2>3, <2>4, <2>5, <3>2
    <3>3. ASSUME NEW j \in 1 .. (n - 1), ~(j < i) PROVE e[j] = entries[j + 1]
      <4>1. e[j] = b[j - (i - 1)]
        BY <1>1, <2>3, <2>4, <2>5, <3>3
      <4>2. j - (i - 1) \in 1 .. (n - i) /\ i + (j - (i - 1)) = j + 1
        BY <1>1, <3>3
      <4> QED
        BY <2>4, <4>1, <4>2
    <3> QED
      BY <3>1, <3>2, <3>3
  <2>7. PICK f : f = [j \in 1 .. (n - 1) |-> IF j < i THEN j ELSE j + 1]
    OBVIOUS
  <2>8. /\ \A j \in 1 .. (n - 1) : f[j] \in 1 .. n /\ f[j] # i /\ e[j] = entries[f[j]]
        /\ \A j, l \in 1 .. (n - 1) : f[j] = f[l] => j = l
        /\ \A m \in 1 .. n : m # i => \E j \in 1 .. (n - 1) : f[j] = m
    <3>1. \A j \in 1 .. (n - 1) : f[j] \in 1 .. n /\ f[j] # i
      BY <1>1, <2>7
    <3>2. \A j \in 1 .. (n - 1) : e[j] = entries[f[j]]
      BY <2>6, <2>7
    <3>3. \A j, l \in 1 .. (n - 1) : f[j] = f[l] => j = l
      BY <1>1, <2>7
    <3>4. ASSUME NEW m \in 1 .. n, m # i PROVE \E j \in 1 .. (n - 1) : f[j] = m
      <4>1. CASE m < i
        <5>1. m \in 1 .. (n - 1) /\ f[m] = m
          BY <1>1, <2>7, <4>1
        <5> QED
          BY <5>1
      <4>2. CASE m > i
        <5>1. m - 1 \in 1 .. (n - 1) /\ f[m - 1] = m
          BY <1>1, <2>7, <4>2
        <5> QED
          BY <5>1
      <4> QED
        BY <1>1, <3>4, <4>1, <4>2
    <3> QED
      BY <3>1, <3>2, <3>3, <3>4
  <2>9. \A x, y \in 1 .. n : entries[x] = entries[y] => x = y
    BY <1>1 DEF Distinct
  <2>10. \A j, l \in 1 .. (n - 1) : e[j] = e[l] => j = l
    BY <2>8, <2>9
  <2>11. \A j \in 1 .. (n - 1) : e[j] \in Held(entries) \ {k}
    <3>1. ASSUME NEW j \in 1 .. (n - 1) PROVE e[j] \in Held(entries) /\ e[j] # k
      <4>1. f[j] \in 1 .. n /\ f[j] # i /\ e[j] = entries[f[j]]
        BY <2>8
      <4>2. entries[f[j]] # entries[i]
        BY <2>1, <2>9, <4>1
      <4> QED
        BY <1>1, <2>1, <4>1, <4>2 DEF Held
    <3> QED
      BY <3>1
  <2>12. ASSUME NEW x \in Held(entries) \ {k} PROVE \E j \in 1 .. (n - 1) : e[j] = x
    <3>1. PICK m \in 1 .. n : x = entries[m]
      BY <1>1, <2>12 DEF Held
    <3>2. PICK j \in 1 .. (n - 1) : f[j] = m
      BY <2>1, <2>8, <2>12, <3>1
    <3> QED
      BY <2>8, <3>1, <3>2
  <2>13. Distinct(e)
    BY <2>6, <2>10 DEF Distinct
  <2>14. Held(e) = Held(entries) \ {k}
    <3>1. \A x : x \in Held(e) <=> \E j \in 1 .. (n - 1) : e[j] = x
      BY <2>6 DEF Held
    <3>2. ASSUME NEW x PROVE x \in Held(e) <=> x \in Held(entries) \ {k}
      BY <2>11, <2>12, <3>1
    <3> QED
      BY <3>2
  <2> QED
    BY <2>6, <2>13, <2>14
<1> QED
  BY <1>3, <1>4

(* Where the attempts are after one of them moved. *)
LEMMA MovedRow ==
  ASSUME SendsInv, NEW d \in Deliveries, NEW n, NEW stage \in Stages,
         NEW q, q = post', W!Moved(d, n, stage)
  PROVE  /\ q \in [Deliveries -> [W!Attempts -> Stages]]
         /\ \A c \in Deliveries : c # d => q[c] = post[c]
         /\ \A m \in W!Attempts : q[d][m] = IF m = n THEN stage ELSE post[d][m]
<1>1. post \in [Deliveries -> [W!Attempts -> Stages]]
  BY DEF SendsInv
<1>2. PICK r : r = [post[d] EXCEPT ![n] = stage]
  OBVIOUS
<1>3. r \in [W!Attempts -> Stages] /\ \A m \in W!Attempts : r[m] = IF m = n THEN stage ELSE post[d][m]
  BY <1>1, <1>2
<1>4. q = [post EXCEPT ![d] = r]
  BY <1>2 DEF W!Moved
<1> QED
  BY <1>1, <1>3, <1>4

LEMMA InitHook == W!Init => HookInv
<1> SUFFICES ASSUME W!Init PROVE HookInv
  OBVIOUS
<1>1. W!Idle \in SenderType /\ W!Idle.attempt = 0
  BY DEF W!Idle, SenderType
<1>2. SendsInv
  BY <1>1 DEF W!Init, SendsInv, Stages
<1>3. Held(entries) = {} /\ entries \in Seq(Deliveries) /\ Distinct(entries)
  BY DEF W!Init, Held, Distinct
<1>4. \A d \in Deliveries : RunsIn(post[d]) = {} /\ handled[d] = 0
  BY DEF W!Init, RunsIn
<1>5. HandledInv
  BY <1>3, <1>4 DEF W!Init, HandledInv, Accounted
<1> QED
  BY <1>2, <1>5 DEF HookInv

(* What the sender does starts and ends no handler. *)
LEMMA SameHandling ==
  ASSUME HandledInv, UNCHANGED <<entries, handled, forgotten>>,
         \A d \in Deliveries : RunsIn(post[d])' = RunsIn(post[d])
  PROVE  HandledInv'
<1>1. \A d \in Deliveries \ forgotten :
        Accounted(d \in Held(entries), handled[d], RunsIn(post[d])')
  BY DEF HandledInv
<1>2. Distinct(entries)' = Distinct(entries) /\ Held(entries)' = Held(entries)
  BY DEF Distinct, Held
<1> QED
  BY <1>1, <1>2 DEF HandledInv, Accounted

LEMMA NewHandling ==
  ASSUME NEW e \in Seq(Deliveries), e = entries', Distinct(e),
         NEW h \in [Deliveries -> Nat], h = handled', NEW q, q = post',
         \A d \in Deliveries \ forgotten' : Accounted(d \in Held(e), h[d], RunsIn(q[d]))
  PROVE  HandledInv'
<1>1. Distinct(e) <=> Distinct(entries)'
  BY DEF Distinct
<1>2. Held(e) = Held(entries)'
  BY DEF Held
<1>3. \A d : RunsIn(q[d]) = RunsIn(post[d])'
  BY DEF RunsIn
<1>4. ASSUME NEW d \in Deliveries \ forgotten'
      PROVE  Accounted(d \in Held(entries), handled[d], RunsIn(post[d]))'
  <2>1. Accounted(d \in Held(e), h[d], RunsIn(q[d]))
    BY <1>4
  <2>2. h[d] = handled'[d] /\ RunsIn(q[d]) = RunsIn(post[d])'
    BY <1>3
  <2> QED
    BY <1>2, <2>1, <2>2 DEF Accounted
<1>5. HandledInv' <=> /\ entries' \in Seq(Deliveries) /\ Distinct(entries)'
                      /\ handled' \in [Deliveries -> Nat]
                      /\ \A d \in Deliveries \ forgotten' :
                           Accounted(d \in Held(entries), handled[d], RunsIn(post[d]))'
  BY DEF HandledInv
<1> QED
  BY <1>1, <1>4, <1>5

(* An attempt is sent for the first time. *)
LEMMA SendStep ==
  ASSUME HookInv, NEW d \in Deliveries, NEW n \in Nat, n = sender[d].attempt + 1,
         NEW t \in Nat, W!Sender(d, "waiting", n, t), W!Moved(d, n, "travelling"),
         UNCHANGED <<entries, deliveryClock, handled, forgotten>>
  PROVE  HookInv'
<1>1. SendsInv /\ HandledInv
  BY DEF HookInv
<1>2. PICK q : q = post'
  OBVIOUS
<1>3. "travelling" \in Stages /\ "unsent" \in Stages
  BY DEF Stages
<1>4. /\ q \in [Deliveries -> [W!Attempts -> Stages]]
      /\ \A c \in Deliveries : c # d => q[c] = post[c]
      /\ \A m \in W!Attempts : q[d][m] = IF m = n THEN "travelling" ELSE post[d][m]
  BY <1>1, <1>2, <1>3, MovedRow
<1>5. PICK s : s = [state |-> "waiting", attempt |-> n, timestamp |-> t]
  OBVIOUS
<1>6. s \in SenderType /\ s.state = "waiting" /\ s.attempt = n
  BY <1>5 DEF SenderType
<1>7. sender' = [sender EXCEPT ![d] = s] /\ sender \in [Deliveries -> SenderType]
  BY <1>1, <1>5 DEF W!Sender, SendsInv
<1>8. /\ sender' \in [Deliveries -> SenderType] /\ sender'[d] = s
      /\ \A c \in Deliveries : c # d => sender'[c] = sender[c]
  BY <1>6, <1>7
<1>9. sender[d].attempt \in Nat
  BY <1>7 DEF SenderType
<1>10. \A m \in W!Attempts : m > sender[d].attempt => post[d][m] = "unsent"
  BY <1>1 DEF SendsInv
<1>11. ASSUME NEW m \in W!Attempts, m > n PROVE q[d][m] = "unsent"
  <2>1. m > sender[d].attempt /\ m # n
    BY <1>9, <1>11, AttemptsAreNat
  <2> QED
    BY <1>4, <1>10, <2>1
<1>12. ASSUME NEW c \in Deliveries
       PROVE  /\ sender'[c].state = "idle" => sender'[c].attempt = 0
              /\ \A m \in W!Attempts : m > sender'[c].attempt => q[c][m] = "unsent"
  <2>1. CASE c = d
    BY <1>6, <1>8, <1>11, <2>1
  <2>2. CASE c # d
    BY <1>1, <1>4, <1>8, <2>2 DEF SendsInv
  <2> QED
    BY <2>1, <2>2
<1>13. SendsInv'
  BY <1>1, <1>2, <1>4, <1>8, <1>12 DEF SendsInv
<1>14. n \in W!Attempts => post[d][n] = "unsent"
  BY <1>9, <1>10
<1>15. \A c \in Deliveries : RunsIn(q[c]) = RunsIn(post[c])
  <2>1. RunsIn(q[d]) = RunsIn(post[d])
    BY <1>4, <1>14 DEF RunsIn
  <2> QED
    BY <1>4, <2>1
<1>16. HandledInv'
  BY <1>1, <1>2, <1>15, SameHandling
<1> QED
  BY <1>13, <1>16 DEF HookInv

(* The sender hears of an attempt or gives it up. *)
LEMMA HearStep ==
  ASSUME HookInv, NEW d \in Deliveries, NEW state \in {"sleeping", "answered", "failed", "aborted"},
         W!Becomes(d, state), UNCHANGED <<post, entries, deliveryClock, handled, forgotten>>
  PROVE  HookInv'
<1>1. SendsInv /\ HandledInv
  BY DEF HookInv
<1>2. sender \in [Deliveries -> SenderType]
  BY <1>1 DEF SendsInv
<1>3. PICK s : s = [state |-> state, attempt |-> sender[d].attempt,
                    timestamp |-> sender[d].timestamp]
  OBVIOUS
<1>4. s \in SenderType /\ s.state # "idle" /\ s.attempt = sender[d].attempt
  BY <1>2, <1>3 DEF SenderType
<1>5. sender' = [sender EXCEPT ![d] = s]
  BY <1>3 DEF W!Becomes, W!Sender
<1>6. /\ sender' \in [Deliveries -> SenderType] /\ sender'[d] = s
      /\ \A c \in Deliveries : c # d => sender'[c] = sender[c]
  BY <1>2, <1>4, <1>5
<1>7. ASSUME NEW c \in Deliveries
      PROVE  /\ sender'[c].state = "idle" => sender'[c].attempt = 0
             /\ sender'[c].attempt = sender[c].attempt
  BY <1>1, <1>4, <1>6 DEF SendsInv
<1>8. SendsInv'
  BY <1>1, <1>6, <1>7 DEF SendsInv
<1>9. HandledInv'
  BY <1>1, SameHandling
<1> QED
  BY <1>8, <1>9 DEF HookInv

(* The receiver moves an attempt that was sent. *)
LEMMA ReceiverSends ==
  ASSUME SendsInv, NEW d \in Deliveries, NEW n \in W!Attempts, NEW stage \in Stages,
         post[d][n] # "unsent", W!Moved(d, n, stage), UNCHANGED <<sender, deliveryClock>>
  PROVE  /\ SendsInv'
         /\ \A c \in Deliveries : c # d => RunsIn(post'[c]) = RunsIn(post[c])
         /\ stage # "running" => RunsIn(post'[d]) = RunsIn(post[d]) \ {n}
         /\ stage = "running" => RunsIn(post'[d]) = RunsIn(post[d]) \cup {n}
<1>1. PICK q : q = post'
  OBVIOUS
<1>2. /\ q \in [Deliveries -> [W!Attempts -> Stages]]
      /\ \A c \in Deliveries : c # d => q[c] = post[c]
      /\ \A m \in W!Attempts : q[d][m] = IF m = n THEN stage ELSE post[d][m]
  BY <1>1, MovedRow
<1>3. ASSUME NEW c \in Deliveries, NEW m \in W!Attempts, m > sender[c].attempt
      PROVE  q[c][m] = "unsent"
  <2>1. post[c][m] = "unsent"
    BY <1>3 DEF SendsInv
  <2>2. CASE c = d
    BY <1>2, <2>1, <2>2
  <2>3. CASE c # d
    BY <1>2, <2>1, <2>3
  <2> QED
    BY <2>2, <2>3
<1>4. SendsInv'
  BY <1>1, <1>2, <1>3 DEF SendsInv
<1>5. \A c \in Deliveries : c # d => RunsIn(q[c]) = RunsIn(post[c])
  BY <1>2
<1>6. stage # "running" => RunsIn(q[d]) = RunsIn(post[d]) \ {n}
  BY <1>2 DEF RunsIn
<1>7. stage = "running" => RunsIn(q[d]) = RunsIn(post[d]) \cup {n}
  BY <1>2 DEF RunsIn
<1> QED
  BY <1>1, <1>4, <1>5, <1>6, <1>7

LEMMA HookReceives ==
  ASSUME HookInv, NEW d \in Deliveries, NEW n \in W!Attempts, W!Receive(d, n)
  PROVE  HookInv'
<1>1. SendsInv /\ HandledInv
  BY DEF HookInv
<1>2. /\ post[d][n] = "travelling" /\ UNCHANGED <<sender, deliveryClock, handled>>
      /\ W!Key(d, n) = d /\ W!ToSet(entries) = Held(entries)
  BY <1>1, HeldIsToSet DEF W!Receive, W!Key, HandledInv
<1>3. /\ {"running", "duplicate", "replay"} \subseteq Stages /\ post[d][n] # "unsent"
      /\ n \notin RunsIn(post[d])
  BY <1>2 DEF Stages, RunsIn
<1>4. CASE \E stage \in {"replay", "duplicate"} :
             W!Moved(d, n, stage) /\ UNCHANGED <<entries, forgotten>>
  <2>1. PICK stage \in {"replay", "duplicate"} :
          W!Moved(d, n, stage) /\ UNCHANGED <<entries, forgotten>>
    BY <1>4
  <2>2. stage \in Stages /\ stage # "running"
    BY DEF Stages
  <2>3. /\ SendsInv'
        /\ \A c \in Deliveries : c # d => RunsIn(post'[c]) = RunsIn(post[c])
        /\ RunsIn(post'[d]) = RunsIn(post[d]) \ {n}
    BY <1>1, <1>2, <1>3, <2>1, <2>2, ReceiverSends
  <2>4. \A c \in Deliveries : RunsIn(post[c])' = RunsIn(post[c])
    BY <1>3, <2>3 DEF RunsIn
  <2>5. HandledInv'
    BY <1>1, <1>2, <2>1, <2>4, SameHandling
  <2> QED
    BY <2>3, <2>5 DEF HookInv
<1>5. CASE /\ d \notin Held(entries) /\ W!Moved(d, n, "running") /\ entries' = W!Claimed(d)
           /\ forgotten' = forgotten \cup (W!ToSet(entries) \ W!ToSet(entries'))
  <2>1. /\ SendsInv'
        /\ \A c \in Deliveries : c # d => RunsIn(post'[c]) = RunsIn(post[c])
        /\ RunsIn(post'[d]) = RunsIn(post[d]) \cup {n}
    BY <1>1, <1>2, <1>3, <1>5, ReceiverSends
  <2>2. PICK e : e = entries'
    OBVIOUS
  <2>3. entries \in Seq(Deliveries) /\ Distinct(entries) /\ e = W!Claimed(d)
    BY <1>1, <1>5, <2>2 DEF HandledInv
  <2>4. /\ e \in Seq(Deliveries) /\ Distinct(e) /\ d \in Held(e)
        /\ Held(e) \subseteq Held(entries) \cup {d}
    BY <1>5, <2>3, ClaimedHolds
  <2>5. forgotten' = forgotten \cup (Held(entries) \ Held(e))
    BY <1>2, <1>5, <2>2, <2>4, HeldIsToSet
  <2>6. ASSUME NEW c \in Deliveries \ forgotten'
        PROVE  Accounted(c \in Held(e), handled[c], RunsIn(post'[c]))
    <3>1. Accounted(c \in Held(entries), handled[c], RunsIn(post[c]))
      BY <1>1, <2>5, <2>6 DEF HandledInv
    <3>2. CASE c = d
      <4>1. handled[c] = 0 /\ RunsIn(post[c]) = {}
        BY <1>5, <3>1, <3>2 DEF Accounted
      <4>2. RunsIn(post'[c]) = {n}
        BY <2>1, <3>2, <4>1
      <4> QED
        BY <2>4, <3>2, <4>1, <4>2 DEF Accounted
    <3>3. CASE c # d
      <4>1. (c \in Held(e)) <=> (c \in Held(entries))
        BY <2>4, <2>5, <2>6, <3>3
      <4>2. RunsIn(post'[c]) = RunsIn(post[c])
        BY <2>1, <3>3
      <4> QED
        BY <3>1, <4>1, <4>2 DEF Accounted
    <3> QED
      BY <3>2, <3>3
  <2>7. HandledInv'
    <3>1. handled' \in [Deliveries -> Nat] /\ handled' = handled
      BY <1>1, <1>2 DEF HandledInv
    <3> QED
      BY <2>2, <2>4, <2>6, <3>1, NewHandling
  <2> QED
    BY <2>1, <2>7 DEF HookInv
<1> QED
  BY <1>2, <1>4, <1>5 DEF W!Receive

LEMMA HookLoses ==
  ASSUME HookInv, NEW d \in Deliveries, NEW n \in W!Attempts, W!Lost(d, n)
  PROVE  HookInv'
<1>1. SendsInv /\ HandledInv
  BY DEF HookInv
<1>2. /\ post[d][n] # "unsent" /\ W!Moved(d, n, "lost") /\ "lost" \in Stages
      /\ UNCHANGED <<sender, entries, deliveryClock, handled, forgotten>>
      /\ n \notin RunsIn(post[d])
  BY DEF W!Lost, Stages, RunsIn
<1>3. /\ SendsInv'
      /\ \A c \in Deliveries : c # d => RunsIn(post'[c]) = RunsIn(post[c])
      /\ RunsIn(post'[d]) = RunsIn(post[d]) \ {n}
  BY <1>1, <1>2, ReceiverSends
<1>4. \A c \in Deliveries : RunsIn(post[c])' = RunsIn(post[c])
  BY <1>2, <1>3 DEF RunsIn
<1>5. HandledInv'
  BY <1>1, <1>2, <1>4, SameHandling
<1> QED
  BY <1>3, <1>5 DEF HookInv

(* A handler ends: it is the only one of its delivery.                     *)
LEMMA HookEnds ==
  ASSUME HookInv, NEW d \in Deliveries, NEW n \in W!Attempts,
         W!HandlerReturns(d, n) \/ W!HandlerThrows(d, n)
  PROVE  HookInv'
<1>1. SendsInv /\ HandledInv
  BY DEF HookInv
<1>2. PICK stage \in {"done", "thrown"} : W!Moved(d, n, stage)
  BY DEF W!HandlerReturns, W!HandlerThrows
<1>3. /\ stage \in Stages /\ stage # "running" /\ post[d][n] # "unsent"
      /\ n \in RunsIn(post[d]) /\ UNCHANGED <<sender, deliveryClock, forgotten>>
  BY DEF W!HandlerReturns, W!HandlerThrows, Stages, RunsIn
<1>4. /\ SendsInv'
      /\ \A c \in Deliveries : c # d => RunsIn(post'[c]) = RunsIn(post[c])
      /\ RunsIn(post'[d]) = RunsIn(post[d]) \ {n}
  BY <1>1, <1>2, <1>3, ReceiverSends
<1>5. \A c \in Deliveries \ forgotten :
        Accounted(c \in Held(entries), handled[c], RunsIn(post[c]))
  BY <1>1 DEF HandledInv
<1>6. d \notin forgotten => handled[d] = 0 /\ d \in Held(entries) /\ RunsIn(post'[d]) = {}
  BY <1>3, <1>4, <1>5 DEF Accounted
<1>7. CASE W!HandlerReturns(d, n)
  <2>1. handled' = [handled EXCEPT ![d] = @ + 1] /\ UNCHANGED entries
    BY <1>7 DEF W!HandlerReturns
  <2>2. /\ handled' \in [Deliveries -> Nat] /\ handled'[d] = handled[d] + 1
        /\ \A c \in Deliveries : c # d => handled'[c] = handled[c]
    BY <1>1, <2>1 DEF HandledInv
  <2>3. ASSUME NEW c \in Deliveries \ forgotten
        PROVE  Accounted(c \in Held(entries), handled'[c], RunsIn(post'[c]))
    <3>1. CASE c = d
      BY <1>6, <2>2, <3>1 DEF Accounted
    <3>2. CASE c # d
      BY <1>4, <1>5, <2>2, <3>2
    <3> QED
      BY <3>1, <3>2
  <2>4. entries' = entries /\ entries \in Seq(Deliveries) /\ Distinct(entries)
    BY <1>1, <2>1 DEF HandledInv
  <2>5. HandledInv'
    BY <1>3, <2>2, <2>3, <2>4, NewHandling
  <2> QED
    BY <1>4, <2>5 DEF HookInv
<1>8. CASE W!HandlerThrows(d, n)
  <2>1. PICK e : e = entries'
    OBVIOUS
  <2>2. e = W!Released(d) /\ UNCHANGED handled
    BY <1>8, <2>1 DEF W!HandlerThrows, W!Key
  <2>3. entries \in Seq(Deliveries) /\ Distinct(entries)
    BY <1>1 DEF HandledInv
  <2>4. e \in Seq(Deliveries) /\ Distinct(e) /\ Held(e) = Held(entries) \ {d}
    BY <2>2, <2>3, ReleasedHolds
  <2>5. ASSUME NEW c \in Deliveries \ forgotten
        PROVE  Accounted(c \in Held(e), handled[c], RunsIn(post'[c]))
    <3>1. CASE c = d
      BY <1>6, <2>4, <3>1 DEF Accounted
    <3>2. CASE c # d
      <4>1. (c \in Held(e)) <=> (c \in Held(entries))
        BY <2>4, <3>2
      <4>2. RunsIn(post'[c]) = RunsIn(post[c])
        BY <1>4, <3>2
      <4> QED
        BY <1>5, <4>1, <4>2 DEF Accounted
    <3> QED
      BY <3>1, <3>2
  <2>6. HandledInv'
    <3>1. handled' \in [Deliveries -> Nat] /\ handled' = handled
      BY <1>1, <2>2 DEF HandledInv
    <3> QED
      BY <1>3, <2>1, <2>4, <2>5, <3>1, NewHandling
  <2> QED
    BY <1>4, <2>6 DEF HookInv
<1> QED
  BY <1>7, <1>8

(* A restart forgets every key it drops; what is not forgotten had no key, *)
(* so it had no handler either.                                            *)
LEMMA HookRestarts == HookInv /\ W!Restart => HookInv'
<1> SUFFICES ASSUME HookInv, W!Restart PROVE HookInv'
  OBVIOUS
<1>1. SendsInv /\ HandledInv
  BY DEF HookInv
<1>2. post \in [Deliveries -> [W!Attempts -> Stages]]
  BY <1>1 DEF SendsInv
<1>3. PICK q : q = post'
  OBVIOUS
<1>4. q = [d \in Deliveries |-> [n \in W!Attempts |->
             IF post[d][n] = "running" THEN "lost" ELSE post[d][n]]]
  BY <1>3 DEF W!Restart
<1>5. /\ q \in [Deliveries -> [W!Attempts -> Stages]]
      /\ \A d \in Deliveries, n \in W!Attempts :
           q[d][n] # "running" /\ (post[d][n] = "unsent" => q[d][n] = "unsent")
  BY <1>2, <1>4 DEF Stages
<1>6. UNCHANGED <<sender, deliveryClock, handled>> /\ entries' = <<>>
  BY DEF W!Restart
<1>7. SendsInv'
  BY <1>1, <1>3, <1>5, <1>6 DEF SendsInv
<1>8. forgotten' = forgotten \cup Held(entries)
  BY <1>1, HeldIsToSet DEF W!Restart, HandledInv
<1>9. \A d \in Deliveries : RunsIn(q[d]) = {}
  BY <1>5 DEF RunsIn
<1>10. ASSUME NEW d \in Deliveries \ forgotten'
       PROVE  Accounted(FALSE, handled[d], RunsIn(q[d]))
  <2>1. Accounted(d \in Held(entries), handled[d], RunsIn(post[d])) /\ d \notin Held(entries)
    BY <1>1, <1>8 DEF HandledInv
  <2> QED
    BY <1>9, <2>1 DEF Accounted
<1>11. Held(<<>>) = {} /\ <<>> \in Seq(Deliveries) /\ Distinct(<<>>)
  BY DEF Held, Distinct
<1>12. HandledInv'
  BY <1>1, <1>3, <1>6, <1>10, <1>11 DEF HandledInv, Distinct, Held, Accounted, RunsIn
<1> QED
  BY <1>7, <1>12 DEF HookInv

LEMMA HookStep == HookInv /\ [W!Next]_hookVars => HookInv'
<1> SUFFICES ASSUME HookInv, [W!Next]_hookVars PROVE HookInv'
  OBVIOUS
<1>1. SendsInv /\ HandledInv
  BY DEF HookInv
<1>2. ASSUME NEW d \in Deliveries, W!Deliver(d) PROVE HookInv'
  <2>1. deliveryClock \in Nat /\ sender[d].attempt = 0
    BY <1>1, <1>2 DEF W!Deliver, SendsInv
  <2>2. /\ 1 = sender[d].attempt + 1
        /\ W!Sender(d, "waiting", 1, deliveryClock) /\ W!Moved(d, 1, "travelling")
        /\ UNCHANGED <<entries, deliveryClock, handled, forgotten>>
    BY <1>2, <2>1 DEF W!Deliver
  <2> QED
    BY <2>1, <2>2, SendStep
<1>3. ASSUME NEW d \in Deliveries, W!Retry(d) PROVE HookInv'
  <2>1. sender[d].attempt \in Nat /\ sender[d].timestamp \in Nat
    BY <1>1 DEF SendsInv, SenderType
  <2>2. PICK n \in Nat : n = sender[d].attempt + 1
    BY <2>1
  <2>3. PICK t \in Nat : t = sender[d].timestamp
    BY <2>1
  <2>4. /\ W!Sender(d, "waiting", n, t) /\ W!Moved(d, n, "travelling")
        /\ UNCHANGED <<entries, deliveryClock, handled, forgotten>>
    BY <1>3, <2>2, <2>3 DEF W!Retry
  <2> QED
    BY <2>2, <2>4, SendStep
<1>4. ASSUME NEW d \in Deliveries, W!Answered(d) \/ W!FetchThrows(d) \/ W!Aborted(d)
      PROVE  HookInv'
  <2>1. PICK state \in {"sleeping", "answered", "failed", "aborted"} : W!Becomes(d, state)
    BY <1>4 DEF W!Answered, W!FetchThrows, W!Aborted
  <2>2. UNCHANGED <<post, entries, deliveryClock, handled, forgotten>>
    BY <1>4 DEF W!Answered, W!FetchThrows, W!Aborted
  <2> QED
    BY <2>1, <2>2, HearStep
<1>5. CASE W!Tick \/ UNCHANGED hookVars
  <2>1. /\ deliveryClock' \in Nat
        /\ UNCHANGED <<sender, post, entries, handled, forgotten>>
    BY <1>1, <1>5 DEF W!Tick, hookVars, SendsInv
  <2>2. SendsInv'
    BY <1>1, <2>1 DEF SendsInv
  <2>3. HandledInv'
    BY <1>1, <2>1, SameHandling
  <2> QED
    BY <2>2, <2>3 DEF HookInv
<1> QED
  BY <1>2, <1>3, <1>4, <1>5, HookReceives, HookLoses, HookEnds, HookRestarts DEF W!Next

(* The operator that the instance brings is the one of the theorems.        *)
LEMMA SameCardinality == \A S : W!Cardinality(S) = Cardinality(S)
  BY Zenon DEF W!Cardinality, Cardinality

LEMMA HookHandlesOnce ==
  ASSUME HookInv, NEW d \in Deliveries \ forgotten
  PROVE  /\ handled[d] + W!Cardinality(W!RunningAttempts(d)) <= 1
         /\ handled[d] + W!Cardinality(W!RunningAttempts(d)) = 0 => d \notin W!ToSet(entries)
<1>1. W!ToSet(entries) = Held(entries) /\ W!RunningAttempts(d) = RunsIn(post[d])
  BY HeldIsToSet DEF HookInv, HandledInv, W!RunningAttempts, RunsIn
<1>2. Accounted(d \in Held(entries), handled[d], RunsIn(post[d]))
  BY DEF HookInv, HandledInv
<1>3. RunsIn(post[d]) = {} => Cardinality(RunsIn(post[d])) = 0
  BY FS_EmptySet
<1>4. (\E n : RunsIn(post[d]) = {n}) => Cardinality(RunsIn(post[d])) = 1
  BY FS_Singleton
<1>5. \/ d \notin Held(entries) /\ handled[d] = 0 /\ Cardinality(RunsIn(post[d])) = 0
      \/ d \in Held(entries) /\ handled[d] = 0 /\ Cardinality(RunsIn(post[d])) = 1
      \/ d \in Held(entries) /\ handled[d] = 1 /\ Cardinality(RunsIn(post[d])) = 0
  BY <1>2, <1>3, <1>4 DEF Accounted
<1>6. W!Cardinality(RunsIn(post[d])) = Cardinality(RunsIn(post[d]))
  BY SameCardinality
<1>7. PICK many : many = W!Cardinality(W!RunningAttempts(d))
  OBVIOUS
<1>8. many = Cardinality(RunsIn(post[d]))
  BY <1>1, <1>6, <1>7
<1> QED
  BY <1>1, <1>5, <1>7, <1>8

(* However the attempts of a delivery overlap, time out, fail and arrive   *)
(* late, WebhookConnector.handle succeeds at most once for it and leaves   *)
(* it free to be tried again until then, unless its key was evicted or     *)
(* lost by a restart; for any deliveries, any number of retries, any size  *)
(* of the dedup store and any clock (connector-webhook/src/index.ts).      *)
THEOREM HandledOnceTheorem == W!Spec => []HandledOnce
<1>1. W!Spec => []HookInv
  BY InitHook, HookStep, PTL DEF W!Spec, W!vars, hookVars
<1>2. HookInv => HandledOnce
  BY HookHandlesOnce, Zenon DEF HandledOnce, W!HandledOnce
<1> QED
  BY <1>1, <1>2, PTL
=============================================================================
