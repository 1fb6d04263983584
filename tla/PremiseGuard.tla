---------------------------- MODULE PremiseGuard ----------------------------
(***************************************************************************)
(* The guard of a write (packages/runtime-core/src): planPremiseValidation *)
(* (premise-policy.ts) chooses the validation work, executePremiseGuard    *)
(* (premise-guard.ts) commits conditionally, and the receipts a failed     *)
(* conditional commit observed may carry the next attempt.                 *)
(*                                                                         *)
(* A caller validates, plans, guards and tries again; premises change      *)
(* between any two of its steps and while it awaits the adapter.  The      *)
(* adapter is external: it compares the versions atomically.               *)
(***************************************************************************)
EXTENDS Naturals, FiniteSets

CONSTANTS Premises,
          Inputs,        \* the inputs the planner is tried on, risk apart
          MaxVersion,    \* bound on versions of a premise
          MaxCommits       \* bound on commits

Risks == {"LOW", "MEDIUM", "HIGH", "CRITICAL"}
Gates == {"green", "amber", "RED"}       \* artifact, migration, lease, alerts
States == {"FRESH", "STALE", "INVALID", "UNKNOWN"}

VARIABLES input,         \* the planner's input, or NoInput when the guard is looked at
          request,       \* [risk, capabilities, frontier, lease] of the write
          world,         \* premise -> [version, gate, revoked]
          receipts,      \* premise -> [version, gate, revoked, state]
          validated,     \* premise -> the gate the caller itself validated
          observed,      \* the receipts come from a failed commit
          phase,         \* idle, planning, guarding, committing, done
          commits,       \* commits tried
          effects        \* gates under which the source acted

vars == <<input, request, world, receipts, validated, observed, phase, commits, effects>>
-----------------------------------------------------------------------------
Highest(risk) == risk = "HIGH"                    \* mutant: CRITICAL is forgotten
HighRisk(risk) == risk \in {"HIGH", "CRITICAL"}

(* planPremiseValidation, for a write and for a read.                      *)
LacksForWrite(i, risk) ==
  \/ i.mode \in {"TTL_ONLY", "UNKNOWN"} \/ ~i.token
  \/ i.capabilities \cap {"CAS", "CONDITIONAL_ACTION"} = {}
  \/ "IDEMPOTENCY_KEY" \notin i.capabilities
  \/ HighRisk(risk) /\ ~("CAUSAL_FRONTIER" \in i.capabilities /\ i.frontier)
  \/ i.lease /\ "FENCED_LEASE" \notin i.capabilities

PlanWrite(i, risk) ==
  IF LacksForWrite(i, risk) THEN "UNSUPPORTED"
  ELSE IF i.conflict = "REVOCATION" THEN "REJECT"
  ELSE IF i.conflict = "INCOMPATIBLE_GATE" \/ (i.observed /\ "CAS" \notin i.capabilities)
       THEN "UNSUPPORTED" ELSE "USE"

PlanRead(i, risk) ==
  CASE i.mode = "IMMUTABLE" -> "USE"
    [] i.mode = "EVENT_DRIVEN" ->
         IF i.event = "INVALIDATED" THEN "REVALIDATE"
         ELSE IF /\ i.event = "CURRENT" /\ {"SUBSCRIPTIONS", "ORDERED_EVENTS"} \subseteq i.capabilities
                 /\ HighRisk(risk) => i.frontier THEN "USE"
         ELSE IF risk = "CRITICAL" /\ i.event = "UNKNOWN" THEN "REJECT" ELSE "REVALIDATE"
    [] i.mode = "TTL_ONLY" ->
         IF HighRisk(risk) THEN "UNSUPPORTED" ELSE IF i.ttlFresh THEN "USE" ELSE "REVALIDATE"
    [] i.mode = "VERSIONED" ->
         IF ~i.token THEN "UNSUPPORTED" ELSE IF risk = "LOW" THEN "USE" ELSE "REVALIDATE"
    [] OTHER -> "UNSUPPORTED"

Plan(i, risk) ==
  CASE i.state = "INVALID" /\ ~(i.operation = "WRITE" /\ i.observed) -> "REJECT"
    [] i.state = "UNKNOWN" -> IF risk = "CRITICAL" THEN "REJECT" ELSE "REVALIDATE"
    [] i.state = "STALE" -> "REVALIDATE"
    [] OTHER -> IF i.operation = "WRITE" THEN PlanWrite(i, risk) ELSE PlanRead(i, risk)
-----------------------------------------------------------------------------
NoInput == [operation |-> "none"]
NoReceipt == [version |-> 0, gate |-> "none", revoked |-> FALSE, state |-> "UNKNOWN"]
NoRequest == [risk |-> "LOW", capabilities |-> {}, frontier |-> FALSE, lease |-> FALSE]
Capabilities == {"CAS", "CONDITIONAL_ACTION", "IDEMPOTENCY_KEY", "CAUSAL_FRONTIER", "FENCED_LEASE"}

Init ==
  /\ \/ input \in Inputs /\ request = NoRequest
     \/ /\ input = NoInput
        /\ request \in [risk : Risks, frontier : BOOLEAN, lease : BOOLEAN,
                        capabilities : {Capabilities} \cup {Capabilities \ {c} : c \in Capabilities}]
  /\ world = [p \in Premises |-> [version |-> 1, gate |-> "green", revoked |-> FALSE]]
  /\ receipts = [p \in Premises |-> NoReceipt]
  /\ validated = [p \in Premises |-> "none"] /\ observed = FALSE
  /\ phase = "idle" /\ commits = 0 /\ effects = {}

Changes(p, gate, revoked) ==
  /\ input = NoInput /\ world[p].version < MaxVersion
  /\ world' = [world EXCEPT ![p] = [version |-> @.version + 1, gate |-> gate, revoked |-> revoked]]
  /\ UNCHANGED <<input, request, receipts, validated, observed, phase, commits, effects>>

(* The caller reads the premises and judges the gates, as the guard asks.  *)
Receipt(p) == [version |-> world[p].version, gate |-> world[p].gate,
               revoked |-> world[p].revoked, state |-> "FRESH"]
Validate ==
  /\ input = NoInput /\ phase = "idle" /\ commits < MaxCommits
  /\ \A p \in Premises : world[p].gate # "RED" /\ ~world[p].revoked
  /\ receipts' = [p \in Premises |-> Receipt(p)]
  /\ validated' = [p \in Premises |-> world[p].gate]
  /\ observed' = FALSE /\ phase' = "planning"
  /\ UNCHANGED <<input, request, world, commits, effects>>

(* A notification makes a receipt of the caller worthless.                 *)
Notified(p, state) ==
  /\ phase \in {"planning", "guarding"} /\ receipts[p].state = "FRESH" /\ state # "FRESH"
  /\ receipts' = [receipts EXCEPT ![p].state = state]
  /\ UNCHANGED <<input, request, world, validated, observed, phase, commits, effects>>

WriteInput ==
  LET states == {receipts[p].state : p \in Premises}
  IN [operation |-> "WRITE", mode |-> "VERSIONED", token |-> TRUE,
      capabilities |-> request.capabilities, frontier |-> request.frontier,
      lease |-> request.lease, observed |-> observed, conflict |-> "none",
      ttlFresh |-> FALSE, event |-> "NONE",
      state |-> CHOOSE s \in States :
                  /\ s = "FRESH" \/ s \in states
                  /\ \A w \in {"INVALID"} \cap states : s = w
                  /\ \A w \in {"UNKNOWN"} \cap states : s \in {w, "INVALID"}
                  /\ \A w \in {"STALE"} \cap states : s # "FRESH"]

Decide ==
  /\ phase = "planning"
  /\ LET decision == Plan(WriteInput, request.risk)
     IN phase' = CASE decision = "USE" -> "guarding" [] decision = "REVALIDATE" -> "idle"
                   [] OTHER -> "done"
  /\ UNCHANGED <<input, request, world, receipts, validated, observed, commits, effects>>

(* executePremiseGuard up to its await, for an intent that requires CAS.   *)
(* The receipts are looked at one by one: the first that is not FRESH      *)
(* decides.                                                                *)
GuardSupported ==
  /\ {"IDEMPOTENCY_KEY", "CAS"} \subseteq request.capabilities
  /\ request.lease => "FENCED_LEASE" \in request.capabilities

AfterReceipt(state) == CASE state = "FRESH" -> "committing" [] state = "STALE" -> "idle" [] OTHER -> "done"

Guard ==
  /\ phase = "guarding"
  /\ LET states == {receipts[p].state : p \in Premises}
         first  == IF states = {"FRESH"} THEN states ELSE states \ {"FRESH"}
     IN phase' \in IF GuardSupported THEN {AfterReceipt(s) : s \in first} ELSE {"done"}
  /\ UNCHANGED <<input, request, world, receipts, validated, observed, commits, effects>>

LeaseExpires ==          \* receiptLeaseUsable: the lease of a receipt ran out
  /\ phase = "guarding" /\ request.lease /\ phase' = "done"
  /\ UNCHANGED <<input, request, world, receipts, validated, observed, commits, effects>>

(* completeObservedReceipts: usable, and under the gates of before.        *)
GateForgotten(p, r) == r.gate # "RED" /\ ~r.revoked      \* mutant: not compared
Acceptable(p, r) == r.gate # "RED" /\ ~r.revoked /\ r.gate = receipts[p].gate

Commit ==
  /\ phase = "committing" /\ commits' = commits + 1
  /\ \/ /\ \A p \in Premises : world[p].version = receipts[p].version
        /\ effects' = effects \cup {[p \in Premises |-> [at |-> world[p].gate, validated |-> validated[p]]]}
        /\ phase' = "done" /\ UNCHANGED <<receipts, observed>>
     \/ /\ \E p \in Premises : world[p].version # receipts[p].version
        /\ \E told \in SUBSET Premises :           \* receipts the adapter hands back
             IF told = Premises /\ \A p \in Premises : Acceptable(p, Receipt(p))
             THEN /\ receipts' = [p \in Premises |-> Receipt(p)]
                  /\ observed' = TRUE
                  /\ phase' = IF commits' < MaxCommits THEN "planning" ELSE "done"
             ELSE phase' = "idle" /\ observed' = FALSE /\ UNCHANGED receipts
        /\ UNCHANGED effects
     \/ phase' = "done" /\ UNCHANGED <<receipts, observed, effects>>     \* the adapter rejects
  /\ UNCHANGED <<input, request, world, validated>>

Next ==
  \/ \E p \in Premises, gate \in Gates, revoked \in BOOLEAN : Changes(p, gate, revoked)
  \/ Validate
  \/ \E p \in Premises, state \in States : Notified(p, state)
  \/ Decide \/ Guard \/ LeaseExpires \/ Commit

Spec == Init /\ [][Next]_vars
-----------------------------------------------------------------------------
(* The planner never lets a riskier action do with less: where it says     *)
(* USE, every lower risk is USE too, and it refuses no lower risk that it  *)
(* would let a higher one revalidate.                                      *)
Strictness(decision) == CASE decision = "USE" -> 0 [] decision = "REVALIDATE" -> 1 [] OTHER -> 2
Lower == {<<"LOW", "MEDIUM">>, <<"MEDIUM", "HIGH">>, <<"HIGH", "CRITICAL">>}
RiskOnlyTightens ==
  input # NoInput =>
    \A r \in Lower : Strictness(Plan(input, r[1])) <= Strictness(Plan(input, r[2]))

(* However often commits fail and are tried again with the receipts they   *)
(* observed, the source acts only under gates that the caller validated:   *)
(* a lease, a migration or an alert that changed in between is never       *)
(* carried into the effect.                                                *)
EffectsUnderValidatedGates ==
  \A e \in effects : \A p \in Premises : e[p].at = e[p].validated
=============================================================================
