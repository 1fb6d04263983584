----------------------------- MODULE RequestPath -----------------------------
(***************************************************************************)
(* A POST on its way from the SDK (packages/sdk) through the server        *)
(* (packages/premise-server, ops/server.mjs) to the runtime: the client    *)
(* repeats an attempt under one Idempotency-Key, the server claims the key *)
(* in an idempotency store, verifies signatures, runs the operation, waits *)
(* for its durability and completes the claim; any error after the claim   *)
(* releases it.                                                            *)
(*                                                                         *)
(* A handler is one attempt on the server and its steps end where the code *)
(* awaits.  A client that gave up on an attempt leaves its handler running *)
(* beside the next one.  Statements fail, also after they took effect; the *)
(* process crashes; a claim that is 60 s old is taken over.                *)
(***************************************************************************)
EXTENDS Naturals, FiniteSets

CONSTANTS Calls,
          Requests,      \* what is asked for: [op, key, memory, content]
          Modes,         \* PREMISE_STORE_MODE: subset of {"postgres", "memory"}
          Signed,        \* whether envelopes are verified: subset of BOOLEAN
          MaxAttempts,   \* bound: maxRetries + 1
          MaxFaults      \* bound on failures, lost answers, crashes and lapses

ASSUME RequestAssumption ==
  /\ MaxAttempts \in Nat \ {0} /\ MaxFaults \in Nat
  /\ Modes \subseteq {"postgres", "memory"} /\ Signed \subseteq BOOLEAN

Handlers == Calls \X (1 .. MaxAttempts)

VARIABLES mode, signed,
          request,      \* call -> what it asks for
          calls,        \* call -> [phase, attempt, result] of the client
          handlers,     \* handler -> [phase, reply] on the server
          rows,         \* idempotency rows: [op, key, by, state, owner, aged]
          consumed,     \* requests whose envelope's signatures were claimed
          stored,       \* requests whose event and record the mirror holds
          durable,      \* the ones PostgreSQL holds
          broken,       \* the mirror failed: it takes no write any more
          told,         \* history: requests answered with success
          faults

vars == <<mode, signed, request, calls, handlers, rows, consumed, stored, durable,
          broken, told, faults>>

Final == {"stored", "conflict", "exists", "invalid", "failed"}

Init ==
  /\ mode \in Modes /\ signed \in Signed
  /\ request \in [Calls -> Requests]
  /\ calls = [c \in Calls |-> [phase |-> "idle", attempt |-> 0, result |-> "none"]]
  /\ handlers = [h \in Handlers |-> [phase |-> "none", reply |-> "none"]]
  /\ rows = {} /\ consumed = {} /\ stored = {} /\ durable = {}
  /\ broken = FALSE /\ told = {} /\ faults = 0

Fault == faults < MaxFaults /\ faults' = faults + 1
-----------------------------------------------------------------------------
(* The client.  prepareRequest fixes the key once for all attempts.        *)

Send(c) ==
  /\ calls[c].phase \in {"idle", "backoff"}
  /\ calls' = [calls EXCEPT ![c].phase = "waiting", ![c].attempt = @ + 1]
  /\ handlers' = [handlers EXCEPT ![<<c, calls[c].attempt + 1>>].phase = "arrived"]
  /\ UNCHANGED <<mode, signed, request, rows, consumed, stored, durable, broken, told, faults>>

(* retryOn: 425 and 500, 503 are repeated, other refusals are final.       *)
Retryable(reply) == reply \in {"in-progress", "unavailable", "error", "silence"}

Heard(c, reply) ==
  calls' = [calls EXCEPT ![c] =
    [phase |-> IF Retryable(reply) /\ @.attempt < MaxAttempts THEN "backoff" ELSE "done",
     attempt |-> @.attempt,
     result |-> IF Retryable(reply) THEN "failed" ELSE reply]]

Receive(c) ==
  LET h == <<c, calls[c].attempt>>
  IN /\ calls[c].phase = "waiting" /\ handlers[h].phase = "answered"
     /\ Heard(c, handlers[h].reply)
     /\ handlers' = [handlers EXCEPT ![h].phase = "gone"]
     /\ UNCHANGED <<mode, signed, request, rows, consumed, stored, durable, broken, told, faults>>

(* timeoutMs or the network: the handler goes on, its answer is lost.      *)
TimeOut(c) ==
  /\ calls[c].phase = "waiting" /\ Fault /\ Heard(c, "silence")
  /\ UNCHANGED <<mode, signed, request, handlers, rows, consumed, stored, durable, broken, told>>
-----------------------------------------------------------------------------
(* The server.                                                             *)

Asks(h) == request[h[1]]

At(h, phase) == handlers[h].phase = phase
GoesTo(h, phase) == handlers' = [handlers EXCEPT ![h].phase = phase]
Answers(h, reply) == handlers' = [handlers EXCEPT ![h] = [phase |-> "answered", reply |-> reply]]

(* An error after the claim: the claim is released, then the error answered. *)
Fails(h, reply) == handlers' = [handlers EXCEPT ![h] = [phase |-> "releasing", reply |-> reply]]

RowOf(x) == {w \in rows : w.op = x.op /\ w.key = x.key}
Row(x, state, h) ==
  [op |-> x.op, key |-> x.key, by |-> x, state |-> state, owner |-> h, aged |-> FALSE]
Replaced(x, new) == (rows \ RowOf(x)) \cup new

IgnoresHash(w, x) == TRUE                \* mutant: the request hash is not compared
SameRequest(w, x) == w.by = x

Claimable(x) ==
  \A w \in RowOf(x) : SameRequest(w, x) /\ w.state = "IN_PROGRESS" /\ w.aged

(* claimHttpIdempotency: a new row or one whose owner is overdue is ours.  *)
Claim(h) ==
  /\ At(h, "arrived")
  /\ LET x == Asks(h)
     IN \/ /\ Claimable(x) /\ rows' = Replaced(x, {Row(x, "IN_PROGRESS", h)})
           /\ GoesTo(h, "claimed") /\ UNCHANGED <<told, faults>>
        \/ \E w \in RowOf(x) :
             /\ ~SameRequest(w, x) /\ Answers(h, "conflict") /\ UNCHANGED <<rows, told, faults>>
        \/ \E w \in RowOf(x) :
             /\ SameRequest(w, x) /\ w.state = "COMPLETED" /\ Answers(h, "stored")
             /\ told' = told \cup {x} /\ UNCHANGED <<rows, faults>>
        \/ \E w \in RowOf(x) :
             /\ SameRequest(w, x) /\ w.state = "IN_PROGRESS" /\ ~w.aged
             /\ Answers(h, "in-progress") /\ UNCHANGED <<rows, told, faults>>
        \/ /\ mode = "postgres" /\ Fault /\ Answers(h, "error")
           /\ \/ UNCHANGED rows
              \/ Claimable(x) /\ rows' = Replaced(x, {Row(x, "IN_PROGRESS", h)})
           /\ UNCHANGED told
  /\ UNCHANGED <<mode, signed, request, calls, consumed, stored, durable, broken>>

(* claimMany of PostgresSignatureReplayStore: all signatures of an envelope *)
(* or none, in one transaction.  Claims are kept as long as this model's   *)
(* requests last.                                                          *)
ClaimMany(x) == x.content \notin consumed /\ consumed' = consumed \cup {x.content}

(* verifyEnvelope claims the signatures of the envelope once all are       *)
(* valid; a store that fails may have claimed them.                        *)
Verify(h) ==
  /\ At(h, "claimed")
  /\ \/ ~signed /\ GoesTo(h, "verified") /\ UNCHANGED <<consumed, faults>>
     \/ signed /\ ClaimMany(Asks(h)) /\ GoesTo(h, "verified") /\ UNCHANGED faults
     \/ signed /\ Asks(h).content \in consumed /\ Fails(h, "invalid") /\ UNCHANGED <<consumed, faults>>
     \/ /\ signed /\ mode = "postgres" /\ Fault /\ Fails(h, "unavailable")
        /\ ClaimMany(Asks(h)) \/ UNCHANGED consumed
  /\ UNCHANGED <<mode, signed, request, calls, rows, stored, durable, broken, told>>

(* register and derive: the event key recognises a repetition, a record    *)
(* that is there belongs to somebody else.                                 *)
KeyForgotten(x) == FALSE                 \* mutant: the event key is not looked up
Repeats(x) == \E y \in stored : y.key = x.key

Act(h) ==
  /\ At(h, "verified")
  /\ LET x == Asks(h)
     IN \/ Repeats(x) /\ x \in stored /\ GoesTo(h, "acted") /\ UNCHANGED <<stored, faults>>
        \/ Repeats(x) /\ x \notin stored /\ Fails(h, "conflict") /\ UNCHANGED <<stored, faults>>
        \/ /\ ~Repeats(x) /\ (\E y \in stored : y.memory = x.memory)
           /\ Fails(h, "exists") /\ UNCHANGED <<stored, faults>>
        \/ /\ ~Repeats(x) /\ (\A y \in stored : y.memory # x.memory)
           /\ \/ ~broken /\ stored' = stored \cup {x} /\ GoesTo(h, "acted") /\ UNCHANGED faults
              \/ broken /\ Fails(h, "error") /\ UNCHANGED <<stored, faults>>
              \/ mode = "postgres" /\ Fault /\ Fails(h, "unavailable") /\ UNCHANGED stored
  /\ UNCHANGED <<mode, signed, request, calls, rows, consumed, durable, broken, told>>

(* The mirror's queue reaches PostgreSQL in its order, or fails for good.  *)
Persist ==
  /\ mode = "postgres" /\ durable # stored
  /\ \/ ~broken /\ durable' = stored /\ UNCHANGED <<broken, faults>>
     \/ ~broken /\ Fault /\ broken' = TRUE /\ UNCHANGED durable
  /\ UNCHANGED <<mode, signed, request, calls, handlers, rows, consumed, stored, told>>

(* awaitDurability is store.flush(), which the in-memory store lacks.      *)
DoesNotWait(h) == TRUE                   \* mutant: the answer is not held back
IsDurable(h) == Asks(h) \in durable

AwaitDurability(h) ==
  /\ At(h, "acted")
  /\ \/ mode = "postgres" /\ ~broken /\ IsDurable(h) /\ GoesTo(h, "durable")
     \/ mode = "postgres" /\ broken /\ Fails(h, "error")
     \/ mode = "memory" /\ Fails(h, "invalid")
  /\ UNCHANGED <<mode, signed, request, calls, rows, consumed, stored, durable, broken, told,
                 faults>>

(* completeHttpIdempotency by the owner, or after another one completed    *)
(* the same request; any other loser fails.  An answer of the database     *)
(* that is lost makes the handler fail after the row was completed.        *)
Owned(h) == {w \in RowOf(Asks(h)) : w.state = "IN_PROGRESS" /\ w.owner = h}
CompletedAnyway(h) ==
  \E w \in RowOf(Asks(h)) : w.state = "COMPLETED" /\ SameRequest(w, Asks(h))

Complete(h) ==
  /\ At(h, "durable")
  /\ \/ /\ Owned(h) # {}
        /\ rows' = Replaced(Asks(h), {Row(Asks(h), "COMPLETED", h)})
        /\ \/ Answers(h, "stored") /\ told' = told \cup {Asks(h)} /\ UNCHANGED faults
           \/ Fault /\ Fails(h, "error") /\ UNCHANGED told
     \/ /\ Owned(h) = {} /\ CompletedAnyway(h)
        /\ Answers(h, "stored") /\ told' = told \cup {Asks(h)} /\ UNCHANGED <<rows, faults>>
     \/ Owned(h) = {} /\ ~CompletedAnyway(h) /\ Fails(h, "error") /\ UNCHANGED <<rows, told, faults>>
     \/ Fault /\ Fails(h, "error") /\ UNCHANGED <<rows, told>>
  /\ UNCHANGED <<mode, signed, request, calls, consumed, stored, durable, broken>>

(* releaseHttpIdempotency; its own failure is only logged.                 *)
Release(h) ==
  /\ At(h, "releasing")
  /\ \/ rows' = rows \ Owned(h) /\ UNCHANGED faults
     \/ mode = "postgres" /\ Owned(h) # {} /\ Fault /\ UNCHANGED rows
  /\ GoesTo(h, "answered")
  /\ UNCHANGED <<mode, signed, request, calls, consumed, stored, durable, broken, told>>
-----------------------------------------------------------------------------
(* A row is 60 s old.  Overdue rows are taken over or pruned.              *)
Lapse(w) ==
  /\ mode = "postgres" /\ ~w.aged /\ Fault
  /\ rows' = (rows \ {w}) \cup {[w EXCEPT !.aged = TRUE]}
  /\ UNCHANGED <<mode, signed, request, calls, handlers, consumed, stored, durable, broken, told>>

Prune(w) ==
  /\ w.aged /\ rows' = rows \ {w}
  /\ UNCHANGED <<mode, signed, request, calls, handlers, consumed, stored, durable, broken,
                 told, faults>>

(* The process dies or is restarted: its handlers are gone, the clients    *)
(* time out, openDurableMirror reads what PostgreSQL has.                  *)
Restart ==
  /\ mode = "postgres" /\ Fault
  /\ handlers' = [h \in Handlers |-> IF handlers[h].phase = "none" THEN handlers[h]
                                     ELSE [handlers[h] EXCEPT !.phase = "gone"]]
  /\ stored' = durable /\ broken' = FALSE
  /\ UNCHANGED <<mode, signed, request, calls, rows, consumed, durable, told>>

(* The connection of an attempt whose process died is closed.              *)
ConnectionLost(c) ==
  /\ calls[c].phase = "waiting" /\ At(<<c, calls[c].attempt>>, "gone")
  /\ Heard(c, "silence")
  /\ UNCHANGED <<mode, signed, request, handlers, rows, consumed, stored, durable, broken, told,
                 faults>>

Next ==
  \/ \E c \in Calls : Send(c) \/ Receive(c) \/ TimeOut(c) \/ ConnectionLost(c)
  \/ \E h \in Handlers : \/ Claim(h) \/ Verify(h) \/ Act(h) \/ AwaitDurability(h)
                         \/ Complete(h) \/ Release(h)
  \/ Persist
  \/ \E w \in rows : Lapse(w) \/ Prune(w)
  \/ Restart

Spec == Init /\ [][Next]_vars
-----------------------------------------------------------------------------
(* A request that was answered with success, by its own handler or by the  *)
(* replay of another one's answer, is in the database, whatever crashed.   *)
AnsweredIsStored == mode = "postgres" => told \subseteq durable

(* Requests under one key, or for one memory, never both succeed unless    *)
(* they are the same request.                                              *)
OneRequestSucceeds ==
  \A x, y \in told : x = y \/ (x.key # y.key /\ x.memory # y.memory)

Interferes(c) ==
  \E d \in Calls : /\ request[d] # request[c]
                   /\ \/ request[d].key = request[c].key
                      \/ request[d].memory = request[c].memory

(* A client is told of a conflict only when somebody else uses its key or  *)
(* its memory: a repetition never conflicts with its own earlier attempt,  *)
(* after a take-over, a crash or the loss of its idempotency row either.   *)
OwnAttemptsNeverConflict ==
  \A c \in Calls : calls[c].result \in {"conflict", "exists"} => Interferes(c)

(* As docs/ga-integration.md has it, a repetition with the same payload    *)
(* returns the result of the operation: nothing but another request makes  *)
(* an attempt fail for good.                                               *)
RepetitionReturnsResult ==
  \A c \in Calls : calls[c].result \in {"conflict", "exists", "invalid"} => Interferes(c)
=============================================================================
