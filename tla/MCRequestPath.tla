---------------------------- MODULE MCRequestPath ----------------------------
(***************************************************************************)
(* The edge of a service that runs PREMiSE: requests to the HTTP server,   *)
(* the guard in front of an action, webhooks between two processes, the    *)
(* signing keys and the audit trail.  The parts share no state, so a       *)
(* behaviour is one of one part; the others stay as they began.            *)
(*                                                                         *)
(* The requests are a registration, the same key for another content or    *)
(* another operation, and another key for the same memory.                 *)
(***************************************************************************)
EXTENDS RequestPath, TLC

CONSTANTS Parts,                                          \* the parts looked at
          Premises, Inputs, MaxVersion, MaxCommits,         \* the guard
          Deliveries, MaxRetries, DedupEntries, MaxAge, DeliveryClock, MaxRestarts,
          Keys, Callers, Ttl, MaxInvalidations, MaxClock, \* the keys
          Events, Secrets, AuditEntries, MaxMishaps       \* the audit trail

VARIABLES part,
          input, write, world, receipts, validated, observed, phase, commits, effects,
          sender, post, entries, deliveryClock, restarts, handled, forgotten,
          cache, inFlight, flights, epochs, globalEpoch, invalidations, rings, clock, fetches,
          file, synced, log, sink, acknowledged, mishaps

guardVars == <<input, write, world, receipts, validated, observed, phase, commits, effects>>
hookVars  == <<sender, post, entries, deliveryClock, restarts, handled, forgotten>>
keyVars   == <<cache, inFlight, flights, epochs, globalEpoch, invalidations, rings, clock, fetches>>
auditVars == <<file, synced, log, sink, acknowledged, mishaps>>

(* A ring lists its keys; the bounds are numbers.                          *)
ASSUME KeysAssumption ==
  IsFiniteSet(Keys) /\ Ttl \in Nat /\ MaxInvalidations \in Nat /\ MaxClock \in Nat

(* maxRetries and maxEntries as their constructors accept them.            *)
ASSUME HookAssumption == MaxRetries \in Nat /\ DedupEntries \in Nat \ {0}

(* The line a write that stopped half way leaves behind is no entry.       *)
ASSUME TrailAssumption == "torn" \notin Events

G == INSTANCE PremiseGuard WITH request <- write
W == INSTANCE WebhookConnector WITH
       MaxEntries <- DedupEntries, MaxClock <- DeliveryClock,
       request <- post, clock <- deliveryClock
K == INSTANCE KeyResolver
A == INSTANCE AuditTrail WITH MaxEntries <- AuditEntries

MCRequest(op, k, m, d) == [op |-> op, key |-> k, memory |-> m, content |-> d]

MCOneRequest == {MCRequest("register", "k", "m", 1)}
MCRequests == MCOneRequest \cup
  {MCRequest("register", "k", "n", 2), MCRequest("derive", "k", "m", 1),
   MCRequest("register", "l", "m", 1)}

(* What the planner is asked: every state, mode and conflict, with every   *)
(* capability, all but two of them, or none.                               *)
MCCapabilities ==
  LET all == {"CAS", "CONDITIONAL_ACTION", "IDEMPOTENCY_KEY", "CAUSAL_FRONTIER", "FENCED_LEASE",
              "CONDITIONAL_READ", "SUBSCRIPTIONS", "ORDERED_EVENTS"}
  IN  {all \ {a, b} : a, b \in all} \cup {all, {}}
MCStates == {"FRESH", "STALE", "INVALID", "UNKNOWN"}
MCModes == {"IMMUTABLE", "EVENT_DRIVEN", "VERSIONED", "TTL_ONLY", "UNKNOWN"}
MCInputs ==
  [operation : {"WRITE"}, state : MCStates, mode : MCModes, capabilities : MCCapabilities,
   token : BOOLEAN, frontier : BOOLEAN, lease : BOOLEAN, observed : BOOLEAN, ttlFresh : {FALSE},
   event : {"NONE"}, conflict : {"none", "REPAIRABLE", "REVOCATION", "INCOMPATIBLE_GATE"}]
  \cup
  [operation : {"READ"}, state : MCStates, mode : MCModes, capabilities : MCCapabilities,
   token : BOOLEAN, frontier : BOOLEAN, lease : {FALSE}, observed : {FALSE}, ttlFresh : BOOLEAN,
   event : {"CURRENT", "INVALIDATED", "UNKNOWN", "NONE"}, conflict : {"none"}]

MCSymmetry == Permutations(Calls)

(* What Init leaves open is settled for the parts that are not looked at.  *)
MCInit ==
  /\ part \in Parts
  /\ Init /\ W!Init /\ K!Init /\ A!Init
  /\ part # "request" =>
       /\ mode = "postgres" /\ signed = (TRUE \in Signed)
       /\ request = [c \in Calls |-> MCRequest("register", "k", "m", 1)]
  /\ IF part = "guard" THEN G!Init
     ELSE /\ input = G!NoInput /\ write = G!NoRequest
          /\ world = <<>> /\ receipts = <<>> /\ validated = <<>> /\ observed = FALSE
          /\ phase = "idle" /\ commits = 0 /\ effects = {}

MCNext ==
  /\ UNCHANGED part
  /\ \/ part = "request" /\ Next /\ UNCHANGED <<guardVars, hookVars, keyVars, auditVars>>
     \/ part = "guard" /\ G!Next /\ UNCHANGED <<vars, hookVars, keyVars, auditVars>>
     \/ part = "webhook" /\ W!Next /\ UNCHANGED <<vars, guardVars, keyVars, auditVars>>
     \/ part = "keys" /\ K!Next /\ UNCHANGED <<vars, guardVars, hookVars, auditVars>>
     \/ part = "audit" /\ A!Next /\ UNCHANGED <<vars, guardVars, hookVars, keyVars>>

MCSpec == MCInit /\ [][MCNext]_<<part, vars, guardVars, hookVars, keyVars, auditVars>>
-----------------------------------------------------------------------------
(* Where planPremiseValidation lets an action proceed, it lets the same    *)
(* action of a lower risk proceed, and it refuses no lower risk that it    *)
(* would let a higher one revalidate (premise-policy.ts).                  *)
RiskOnlyTightens == G!RiskOnlyTightens

(* However often commits fail and are tried again with the receipts they   *)
(* observed, executePremiseGuard acts only under gates that the caller     *)
(* validated (premise-guard.ts).                                           *)
EffectsUnderValidatedGates == part = "guard" => G!EffectsUnderValidatedGates

(* However the attempts of a delivery overlap, time out, fail and arrive   *)
(* late, WebhookConnector.handle succeeds at most once for it and leaves   *)
(* it free to be tried again until then, unless its key was evicted or     *)
(* lost by a restart.                                                      *)
HandledOnce == W!HandledOnce

(* Whoever asks for keys after an invalidation, a clear or as part of a    *)
(* rotation gets material that was fetched after it, whatever fetches were *)
(* under way and whoever shared them (external-key-provider.ts).           *)
NoRevivedMaterial == K!NoRevivedMaterial

(* What FileAuditSink.append acknowledged is in the file after every       *)
(* failed write, crash and reopening, in a chain that verifies             *)
(* (audit-sink.ts).                                                        *)
AcknowledgedStaysVerifiable == A!AcknowledgedStaysVerifiable
=============================================================================
