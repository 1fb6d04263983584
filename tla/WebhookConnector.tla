-------------------------- MODULE WebhookConnector --------------------------
(***************************************************************************)
(* Signed webhooks between two processes that use WebhookConnector: the    *)
(* sender's deliver repeats a POST with one delivery id and one timestamp  *)
(* until it is answered or its retries are spent; the receiver's handle    *)
(* claims the delivery id in MemoryWebhookDedupStore, runs the             *)
(* application's handler, and frees the id when the handler fails.         *)
(*                                                                         *)
(* A request that the sender has given up on may still travel or run, so   *)
(* several attempts of one delivery meet at the receiver.  Signatures are  *)
(* those of the right secret; a body that does not verify or parse changes *)
(* nothing and is left out.                                                *)
(***************************************************************************)
EXTENDS Naturals, Sequences, FiniteSets, SequencesExt

CONSTANTS
  Deliveries,   \* the payloads to deliver, each with its delivery id
  MaxRetries,   \* maxRetries of the sender
  MaxEntries,   \* maxEntries of the receiver's dedup store
  MaxAge,       \* maxAgeMs of the receiver, in ticks
  MaxClock,     \* bound: the clock
  MaxRestarts   \* bound: restarts of the receiver

VARIABLES
  sender,    \* per delivery: the deliver call
  request,   \* per delivery and attempt: where that POST is
  entries,   \* keys of the dedup store, oldest first
  clock,
  restarts,
  handled,   \* history, per delivery: handler runs that succeeded
  forgotten  \* history: deliveries whose key left the store other than by
             \* release

vars == <<sender, request, entries, clock, restarts, handled, forgotten>>

Attempts == 1 .. MaxRetries + 1

Idle == [state |-> "idle", attempt |-> 0, timestamp |-> 0]

TypeOK ==
  /\ sender \in [Deliveries ->
       [state : {"idle", "waiting", "sleeping", "answered", "failed", "aborted"},
        attempt : {0} \cup Attempts, timestamp : 0 .. MaxClock]]
  /\ request \in [Deliveries -> [Attempts ->
       {"unsent", "travelling", "running", "done", "duplicate", "thrown", "replay", "lost"}]]
  /\ IsInjective(entries) /\ Len(entries) <= MaxEntries
  /\ ToSet(entries) \subseteq Deliveries
  /\ handled \in [Deliveries -> Nat] /\ forgotten \subseteq Deliveries

Init ==
  /\ sender = [d \in Deliveries |-> Idle]
  /\ request = [d \in Deliveries |-> [n \in Attempts |-> "unsent"]]
  /\ entries = <<>>
  /\ clock = 0 /\ restarts = 0
  /\ handled = [d \in Deliveries |-> 0]
  /\ forgotten = {}

Moved(d, n, stage) == request' = [request EXCEPT ![d][n] = stage]

Sender(d, state, n, timestamp) ==
  sender' = [sender EXCEPT ![d] = [state |-> state, attempt |-> n, timestamp |-> timestamp]]

Becomes(d, state) == Sender(d, state, sender[d].attempt, sender[d].timestamp)

-----------------------------------------------------------------------------
(* The sender. *)

\* deliver: the timestamp and the headers are made once, before the loop.
Deliver(d) ==
  /\ sender[d].state = "idle"
  /\ Sender(d, "waiting", 1, clock)
  /\ Moved(d, 1, "travelling")
  /\ UNCHANGED <<entries, clock, restarts, handled, forgotten>>

\* One more turn of the loop, after sleep: the same headers again.
Retry(d) ==
  /\ sender[d].state = "sleeping"
  /\ Sender(d, "waiting", sender[d].attempt + 1, sender[d].timestamp)
  /\ Moved(d, sender[d].attempt + 1, "travelling")
  /\ UNCHANGED <<entries, clock, restarts, handled, forgotten>>

\* The application answers a handled or a repeated delivery with 2xx, an
\* old one with 4xx and a handler that threw with 500 (external).
Statuses == [done |-> 200, duplicate |-> 200, replay |-> 400, thrown |-> 500]

RetryableStatus(status) == status \in {408, 425, 429} \/ status >= 500

\* The answer arrives: the loop ends unless it is worth a retry.
Answered(d) ==
  LET n == sender[d].attempt
      stage == request[d][n]
  IN  /\ sender[d].state = "waiting" /\ stage \in DOMAIN Statuses
      /\ Becomes(d, IF RetryableStatus(Statuses[stage]) /\ n <= MaxRetries
                    THEN "sleeping" ELSE "answered")
      /\ UNCHANGED <<request, entries, clock, restarts, handled, forgotten>>

\* fetch throws: the connection broke or timeoutMs passed.  What became of
\* the request is not known.
FetchThrows(d) ==
  /\ sender[d].state = "waiting"
  /\ Becomes(d, IF sender[d].attempt <= MaxRetries THEN "sleeping" ELSE "failed")
  /\ UNCHANGED <<request, entries, clock, restarts, handled, forgotten>>

\* The caller's signal aborts the fetch or the sleep.
Aborted(d) ==
  /\ sender[d].state \in {"waiting", "sleeping"}
  /\ Becomes(d, "aborted")
  /\ UNCHANGED <<request, entries, clock, restarts, handled, forgotten>>

-----------------------------------------------------------------------------
(* The receiver. *)

\* assertTimestamp.  The clocks agree, so a timestamp is never in the future.
TooOld(timestamp) == clock - timestamp > MaxAge

\* A slip: a fresh id for every attempt.
PerAttempt(d, n) == <<d, n>>

\* The key of receive: the delivery id, which every attempt carries.
Key(d, n) == d

\* MemoryWebhookDedupStore.claim: the new key last, the oldest ones out.
Claimed(key) ==
  LET longer == Append(entries, key)
  IN  IF Len(longer) > MaxEntries THEN Tail(longer) ELSE longer

\* MemoryWebhookDedupStore.release; an entry has a key of its own.
Released(key) ==
  IF key \in ToSet(entries)
  THEN RemoveAt(entries, CHOOSE i \in DOMAIN entries : entries[i] = key)
  ELSE entries

\* receive: parse, claim, and then the handler starts unless the key was
\* there.
Receive(d, n) ==
  LET key == Key(d, n)
  IN  /\ request[d][n] = "travelling"
      /\ IF TooOld(sender[d].timestamp)
         THEN Moved(d, n, "replay") /\ UNCHANGED <<entries, forgotten>>
         ELSE IF key \in ToSet(entries)
         THEN Moved(d, n, "duplicate") /\ UNCHANGED <<entries, forgotten>>
         ELSE /\ Moved(d, n, "running")
              /\ entries' = Claimed(key)
              /\ forgotten' = forgotten \cup (ToSet(entries) \ ToSet(entries'))
      /\ UNCHANGED <<sender, clock, restarts, handled>>

\* The POST never reaches the receiver.
Lost(d, n) ==
  /\ request[d][n] = "travelling"
  /\ Moved(d, n, "lost")
  /\ UNCHANGED <<sender, entries, clock, restarts, handled, forgotten>>

\* The handler resolves: the key stays.
HandlerReturns(d, n) ==
  /\ request[d][n] = "running"
  /\ Moved(d, n, "done")
  /\ handled' = [handled EXCEPT ![d] = @ + 1]
  /\ UNCHANGED <<sender, entries, clock, restarts, forgotten>>

\* The handler rejects: release deletes the key, whoever holds it by now.
HandlerThrows(d, n) ==
  /\ request[d][n] = "running"
  /\ Moved(d, n, "thrown")
  /\ entries' = Released(Key(d, n))
  /\ UNCHANGED <<sender, clock, restarts, handled, forgotten>>

\* The receiving process restarts with an empty store; its handlers end.
Restart ==
  /\ restarts < MaxRestarts /\ restarts' = restarts + 1
  /\ forgotten' = forgotten \cup ToSet(entries)
  /\ entries' = <<>>
  /\ request' = [d \in Deliveries |-> [n \in Attempts |->
                   IF request[d][n] = "running" THEN "lost" ELSE request[d][n]]]
  /\ UNCHANGED <<sender, clock, handled>>

Tick ==
  /\ clock < MaxClock /\ clock' = clock + 1
  /\ UNCHANGED <<sender, request, entries, restarts, handled, forgotten>>

Next ==
  \/ \E d \in Deliveries :
       \/ Deliver(d) \/ Retry(d) \/ Answered(d) \/ FetchThrows(d) \/ Aborted(d)
       \/ \E n \in Attempts :
            Receive(d, n) \/ Lost(d, n) \/ HandlerReturns(d, n) \/ HandlerThrows(d, n)
  \/ Restart \/ Tick

Spec == Init /\ [][Next]_vars

-----------------------------------------------------------------------------
(* The properties. *)

RunningAttempts(d) == {n \in Attempts : request[d][n] = "running"}

\* However the attempts of a delivery overlap, time out, fail and arrive
\* late, its handler succeeds at most once and never runs twice at a time,
\* and a delivery none of whose runs succeeded is free to be tried again;
\* only a key that was evicted by a full store or lost by a restart is
\* outside the promise.
HandledOnce ==
  \A d \in Deliveries \ forgotten :
    LET work == handled[d] + Cardinality(RunningAttempts(d))
    IN  work <= 1 /\ (work = 0 => d \notin ToSet(entries))
=============================================================================
