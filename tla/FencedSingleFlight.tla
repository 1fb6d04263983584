------------------------- MODULE FencedSingleFlight -------------------------
(***************************************************************************)
(* FencedSingleFlightCoordinator                                           *)
(* (packages/runtime-core/src/fenced-single-flight.ts): concurrent         *)
(* validations of one complete scope share a flight; a flight for another  *)
(* version of the resource fences the ones that run.                       *)
(*                                                                         *)
(* Time-outs and aborts settle the callers' promise at once, the source    *)
(* call goes on and keeps its flight in the map until it settles.  The     *)
(* promise callbacks that call the source and that clean up are steps of   *)
(* their own, other calls may come between.                                *)
(***************************************************************************)
EXTENDS Naturals, FiniteSets

CONSTANTS Callers,
          Scopes,         \* complete validation scopes
          ResourceOf,     \* scope -> tenant and resource
          VersionOf,      \* scope -> incarnation and version of the resource
          Resources, Versions,
          Options,        \* the time-outs and abort signals requests carry
          MaxFlights      \* bound on the flights started

ASSUME ScopeAssumption ==
  /\ ResourceOf \in [Scopes -> Resources]
  /\ VersionOf \in [Scopes -> Versions] /\ 0 \notin Versions
  /\ Options \subseteq [timer : BOOLEAN, signal : {"none", "live", "aborted"}]
  /\ MaxFlights \in Nat

VARIABLES flights,            \* the source calls that have not been cleaned up
          open,               \* the ids in the map .flights
          latestByResource,   \* resource -> the current generation
          nextFencingToken,
          started             \* number of flights so far

vars == <<flights, open, latestByResource, nextFencingToken, started>>

Ids == 1 .. MaxFlights

(* Sharing and supersession keys: a request without a complete scope is    *)
(* isolated under a number of its own and supersedes like a new version.   *)
Keys == Scopes \cup Ids
Supersessions == Versions \cup Ids

NoGeneration == [sup |-> 0, token |-> 0]
Generations == [sup : Supersessions, token : Ids] \cup {NoGeneration}

(* phase: queued (the microtask has not run), running (the source was      *)
(* called), done (settled, not cleaned up).  outcome: what the public      *)
(* promise settled to.  reply and overtaken are history: the source's      *)
(* behaviour, and whether a flight for another version of the resource     *)
(* started before the promise settled.                                     *)
Flights ==
  [id : Ids, key : Keys, resource : Resources, sup : Supersessions, token : Ids,
   timer : BOOLEAN, signal : BOOLEAN, waiting : SUBSET Callers,
   phase : {"queued", "running", "done"},
   outcome : {"none", "ANSWER", "FENCED", "TIMEOUT", "ABORTED", "ERROR"},
   reply : {"none", "echo", "wrong", "abort", "error"}, overtaken : BOOLEAN]

TypeOK ==
  /\ flights \subseteq Flights
  /\ open \subseteq {f.id : f \in flights}
  /\ latestByResource \in [Resources -> Generations]
  /\ nextFencingToken \in 0 .. MaxFlights
  /\ started \in 0 .. MaxFlights
  /\ \A f \in flights : f.outcome # "none" => f.waiting = {}
  /\ \A f, g \in flights : f.id = g.id => f = g

Init ==
  /\ flights = {}
  /\ open = {}
  /\ latestByResource = [r \in Resources |-> NoGeneration]
  /\ nextFencingToken = 0
  /\ started = 0

Waiting(c) == \E f \in flights : c \in f.waiting

InMap(key) == {f \in flights : f.id \in open /\ f.key = key}
-----------------------------------------------------------------------------

(* The token of the generation a new flight belongs to. *)
TokenFor(resource, sup) ==
  IF latestByResource[resource].sup = sup
  THEN latestByResource[resource].token ELSE nextFencingToken + 1

(* A new flight; an aborted signal settles it before the source is called. *)
Lead(c, key, resource, sup, option) ==
  LET token   == TokenFor(resource, sup)
      aborted == option.signal = "aborted"
      flight  == [id |-> started + 1, key |-> key, resource |-> resource, sup |-> sup,
                 token |-> token, timer |-> option.timer,
                 signal |-> option.signal = "live",
                 waiting |-> IF aborted THEN {} ELSE {c}, phase |-> "queued",
                 outcome |-> IF aborted THEN "ABORTED" ELSE "none",
                 reply |-> "none", overtaken |-> FALSE]
      overtakes(f) == f.resource = resource /\ f.sup # sup /\ f.outcome = "none"
  IN /\ started < MaxFlights
     /\ started' = started + 1
     /\ nextFencingToken' = IF token > nextFencingToken THEN token ELSE nextFencingToken
     /\ latestByResource' = [latestByResource EXCEPT ![resource] =
                               [sup |-> sup, token |-> token]]
     /\ flights' = {flight} \cup
          {IF overtakes(f) THEN [f EXCEPT !.overtaken = TRUE] ELSE f : f \in flights}
     /\ open' = open \cup {started + 1}

(* validate with a complete scope: a caller that finds a flight gets its   *)
(* promise; its own time-out and signal count for nothing.                 *)
ValidateScope(c, s, option) ==
  /\ ~Waiting(c)
  /\ \/ \E f \in InMap(s) :
          /\ f.outcome = "none"
          /\ flights' = (flights \ {f}) \cup {[f EXCEPT !.waiting = @ \cup {c}]}
          /\ UNCHANGED <<open, latestByResource, nextFencingToken, started>>
     \/ /\ InMap(s) = {}
        /\ Lead(c, s, ResourceOf[s], VersionOf[s], option)

(* validate without one. *)
ValidateLegacy(c, r, option) ==
  /\ ~Waiting(c)
  /\ Lead(c, started + 1, r, started + 1, option)
-----------------------------------------------------------------------------

Settled(f, outcome) == [f EXCEPT !.outcome = outcome, !.waiting = {}]

Becomes(f, g) == flights' = (flights \ {f}) \cup {g}

(* The microtask after validate: the source is not called any more when    *)
(* the flight was aborted or timed out meanwhile.                          *)
CallSource(f) ==
  /\ f.phase = "queued"
  /\ Becomes(f, [f EXCEPT !.phase = IF f.outcome = "none" THEN "running" ELSE "done"])
  /\ UNCHANGED <<open, latestByResource, nextFencingToken, started>>

IgnoresErrors(f, reply) ==                 \* mutant: an error settles nothing
  CASE reply = "echo" /\ latestByResource[f.resource] = [sup |-> f.sup, token |-> f.token]
         -> "ANSWER"
    [] reply = "abort" -> "ABORTED"
    [] reply = "error" -> "none"
    [] OTHER -> "FENCED"

(* What the callers get for the source's reply: its outcome, when it       *)
(* echoes the token and the generation is still the latest of the          *)
(* resource.                                                               *)
OutcomeOf(f, reply) ==
  CASE reply = "echo" /\ latestByResource[f.resource] = [sup |-> f.sup, token |-> f.token]
         -> "ANSWER"
    [] reply = "abort" -> "ABORTED"
    [] reply = "error" -> "ERROR"
    [] OTHER -> "FENCED"

(* The source (external) answers, with the token it was given or another,  *)
(* or rejects.                                                             *)
SourceSettles(f, reply) ==
  /\ f.phase = "running"
  /\ LET g == [f EXCEPT !.phase = "done", !.reply = reply]
     IN Becomes(f, IF f.outcome # "none" THEN g ELSE Settled(g, OutcomeOf(f, reply)))
  /\ UNCHANGED <<open, latestByResource, nextFencingToken, started>>

TimerFires(f) ==
  /\ f.timer /\ f.outcome = "none"
  /\ Becomes(f, Settled(f, "TIMEOUT"))
  /\ UNCHANGED <<open, latestByResource, nextFencingToken, started>>

SignalAborts(f) ==
  /\ f.signal /\ f.outcome = "none"
  /\ Becomes(f, Settled(f, "ABORTED"))
  /\ UNCHANGED <<open, latestByResource, nextFencingToken, started>>

ForgetsGeneration(f) == TRUE         \* mutant: clean-up does not look for others

(* The resource's generation is forgotten with its last flight. *)
LastOfResource(f) ==
  ~\E g \in flights : g.id \in open \ {f.id} /\ g.resource = f.resource

Cleanup(f) ==
  /\ f.phase = "done"
  /\ flights' = flights \ {f}
  /\ open' = open \ {f.id}
  /\ latestByResource' = IF LastOfResource(f)
                         THEN [latestByResource EXCEPT ![f.resource] = NoGeneration]
                         ELSE latestByResource
  /\ UNCHANGED <<nextFencingToken, started>>

Next ==
  \/ \E c \in Callers, option \in Options :
       \/ \E s \in Scopes : ValidateScope(c, s, option)
       \/ \E r \in Resources : ValidateLegacy(c, r, option)
  \/ \E f \in flights :
       \/ CallSource(f)
       \/ \E reply \in {"echo", "wrong", "abort", "error"} : SourceSettles(f, reply)
       \/ TimerFires(f) \/ SignalAborts(f)
       \/ Cleanup(f)

Spec == Init /\ [][Next]_vars
-----------------------------------------------------------------------------
(* A source's answer is withheld exactly when a flight for another version *)
(* of the resource started before it arrived: an older generation is never *)
(* used, also when the older version is asked for again under a new token, *)
(* and the clean-up of finished flights fences nobody else.                *)
FencedExactlyWhenOvertaken ==
  \A f \in flights :
    f.reply = "echo" /\ f.outcome \in {"ANSWER", "FENCED"}
      => (f.outcome = "FENCED" <=> f.overtaken)

(* Nobody waits in vain: a flight with callers that were not answered has  *)
(* its source call, its time-out or its signal still to come and is in the *)
(* map for others to join; whatever the source does, a rejection or an     *)
(* answer for nobody included, the callers are answered with it.           *)
NobodyWaitsInVain ==
  \A f \in flights : f.waiting # {} => f.phase # "done" /\ f.id \in open
=============================================================================
