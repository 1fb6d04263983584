--------------------------- MODULE GuardedActions ---------------------------
(***************************************************************************)
(* Side effects on an outside source (packages/runtime-core/src):          *)
(*  - GuardedTool (guarded-tools.ts): check, revalidate, act with a proof, *)
(*    an idempotency store and a time limit;                               *)
(*  - PremiseSession (session.ts) over revalidateAndAct of PremiseRuntime: *)
(*    observe, derive, act, where the adapter owns the conditional write.  *)
(*                                                                         *)
(* Steps end where the code awaits a callback.  Several tools, each in a   *)
(* process of its own, share one idempotency store that survives them, as  *)
(* the documentation asks of applications that need replay across          *)
(* restarts.  The source is external: it compares the version atomically   *)
(* and moves on by itself.                                                 *)
(***************************************************************************)
EXTENDS Naturals, FiniteSets

CONSTANTS Agents,        \* callers of the tools
          Tools,         \* GuardedTool instances
          Keys, Actions,
          Sessions,      \* callers of a PremiseSession, which share its runtime
          MaxEntries,    \* capacity of the idempotency store
          MaxVersion,    \* bound on versions of the source
          MaxFaults      \* bound on callbacks that throw, time-outs, restarts

ASSUME ActionsAssumption ==
  /\ {MaxEntries, MaxVersion} \subseteq Nat \ {0} /\ MaxFaults \in Nat
  /\ "none" \notin Keys       \* sessions act without a key

Versions == 1 .. MaxVersion

VARIABLES version,       \* the source
          effects,       \* what it did: [by, key, version, action]
          agents,        \* agent -> [tool, phase, version, key, action, outcome]
          entries,       \* the idempotency store
          inFlight,      \* [tool, key, version, action] of the tools
          callbacks,     \* act callbacks under way, also those nobody waits for
          stableIds,     \* whether the adapter names its memories itself
          client,        \* what this application uses: "tool" or "session"
          records,       \* the runtime: memory -> [version, status]
          sessions,      \* session -> [phase, memory, version, outcome]
          faults

source == <<version, effects>>
tool   == <<agents, entries, inFlight, callbacks>>
session == <<client, stableIds, records, sessions>>
vars == <<source, tool, session, faults>>

NoAgent == [tool |-> "none", phase |-> "idle", version |-> 0, key |-> "none",
            action |-> "none", outcome |-> "none"]
NoSession == [phase |-> "idle", memory |-> 0, version |-> 0, outcome |-> "none"]

(* A memory is named after the version it was observed at, or once for all. *)
Memories == 0 .. MaxVersion
MemoryId(v) == IF stableIds THEN 0 ELSE v

Init ==
  /\ version = 1 /\ effects = {}
  /\ agents = [a \in Agents |-> NoAgent] /\ entries = {} /\ inFlight = {} /\ callbacks = {}
  /\ client \in {"tool", "session"}
  /\ stableIds \in BOOLEAN /\ (client = "tool" => ~stableIds)
  /\ records = [m \in Memories |-> [version |-> 0, status |-> "none"]]
  /\ sessions = [s \in Sessions |-> NoSession]
  /\ faults = 0

Fault == faults < MaxFaults /\ faults' = faults + 1

(* The source changes on its own. *)
SourceChanges ==
  /\ version < MaxVersion /\ version' = version + 1
  /\ UNCHANGED <<effects, tool, session, faults>>

(* The conditional write: an effect may or may not give a new version.     *)
Writes(by, k, v, d) ==
  /\ version = v
  /\ effects' = effects \cup {[by |-> by, key |-> k, version |-> v, action |-> d]}
  /\ version' \in {version} \cup ({version + 1} \cap Versions)
-----------------------------------------------------------------------------
(* GuardedTool.  check hands out what the callback saw; STALE and FRESH    *)
(* carry a version, anything else ends here.                               *)
Check(a, p) ==
  /\ client = "tool" /\ agents[a].phase = "idle"
  /\ \/ agents' = [agents EXCEPT ![a] = [NoAgent EXCEPT !.tool = p, !.phase = "checked",
                                                        !.version = version]]
        /\ UNCHANGED faults
     \/ Fault /\ agents' = [agents EXCEPT ![a] = [NoAgent EXCEPT !.phase = "done", !.outcome = "UNKNOWN"]]
  /\ UNCHANGED <<source, entries, inFlight, callbacks, session>>

(* revalidate: only FRESH with a version makes a proof. *)
Revalidate(a) ==
  /\ agents[a].phase = "checked"
  /\ \/ /\ version = agents[a].version
        /\ agents' = [agents EXCEPT ![a].phase = "ready"] /\ UNCHANGED faults
     \/ /\ version # agents[a].version
        /\ agents' = [agents EXCEPT ![a] = [NoAgent EXCEPT !.phase = "done", !.outcome = "VERSION_MISMATCH"]]
        /\ UNCHANGED faults
     \/ Fault /\ agents' = [agents EXCEPT ![a] = [NoAgent EXCEPT !.phase = "done", !.outcome = "UNKNOWN"]]
  /\ UNCHANGED <<source, entries, inFlight, callbacks, session>>

(* The fingerprint of an action: resource, version of the proof, contents. *)
OnlyTheAction(x, a, d) == x.action = d   \* mutant: the version is left out
Fingerprint(x, a, d) == x.action = d /\ x.version = agents[a].version

Ends(a, k, d, outcome) ==
  agents' = [agents EXCEPT ![a].phase = "done", ![a].key = k, ![a].action = d,
                           ![a].outcome = outcome]
Waits(a, k, d) ==
  agents' = [agents EXCEPT ![a].phase = "acting", ![a].key = k, ![a].action = d]

Flight(p, k, v, d) == [tool |-> p, key |-> k, version |-> v, action |-> d]
Entry(k, v, d, result) == [key |-> k, version |-> v, action |-> d, result |-> result]

(* act, up to its first await: join the flight of the key, or claim it.    *)
Act(a, k, d) ==
  /\ agents[a].phase = "ready"
  /\ LET p       == agents[a].tool
         pending == {f \in inFlight : f.tool = p /\ f.key = k}
         entry   == {e \in entries : e.key = k}
     IN \/ /\ pending # {} /\ UNCHANGED <<entries, inFlight, callbacks>>
           /\ \/ (\E f \in pending : Fingerprint(f, a, d)) /\ Waits(a, k, d)
              \/ (\A f \in pending : ~Fingerprint(f, a, d)) /\ Ends(a, k, d, "REJECTED")
        \/ /\ pending = {} /\ entry # {} /\ UNCHANGED <<entries, inFlight, callbacks>>
           /\ \E e \in entry :
                Ends(a, k, d, IF ~Fingerprint(e, a, d) THEN "REJECTED"
                              ELSE IF e.result = "PENDING" THEN "UNKNOWN" ELSE e.result)
        \/ /\ pending = {} /\ entry = {} /\ Cardinality(entries) >= MaxEntries
           /\ Ends(a, k, d, "REJECTED") /\ UNCHANGED <<entries, inFlight, callbacks>>
        \/ /\ pending = {} /\ entry = {} /\ Cardinality(entries) < MaxEntries
           /\ LET f == Flight(p, k, agents[a].version, d)
              IN /\ entries' = entries \cup {Entry(k, f.version, d, "PENDING")}
                 /\ inFlight' = inFlight \cup {f}
                 /\ callbacks' = callbacks \cup {[flight |-> f, answer |-> "none"]}
           /\ Waits(a, k, d)
  /\ UNCHANGED <<source, session, faults>>

(* The act callback reaches the source, in time or late.                   *)
CallbackWrites(c) ==
  /\ c.answer = "none"
  /\ \/ /\ Writes(c.flight.tool, c.flight.key, c.flight.version, c.flight.action)
        /\ callbacks' = (callbacks \ {c}) \cup {[c EXCEPT !.answer = "APPLIED"]}
     \/ /\ version # c.flight.version /\ UNCHANGED source
        /\ callbacks' = (callbacks \ {c}) \cup {[c EXCEPT !.answer = "VERSION_MISMATCH"]}
  /\ UNCHANGED <<agents, entries, inFlight, session, faults>>

(* performAction is over: complete the entry, then answer all who wait.    *)
Settles(f, outcome, kept) ==
  /\ entries' = kept
  /\ inFlight' = inFlight \ {f}
  /\ agents' = [a \in Agents |->
       IF agents[a].phase = "acting" /\ agents[a].tool = f.tool /\ agents[a].key = f.key
       THEN [agents[a] EXCEPT !.phase = "done", !.outcome = outcome] ELSE agents[a]]

ForgetsUnknown(f, outcome) ==            \* mutant: an unknown outcome frees the key
  IF outcome = "UNKNOWN" THEN {} ELSE {Entry(f.key, f.version, f.action, outcome)}
CompletedEntry(f, outcome) == {Entry(f.key, f.version, f.action, outcome)}

Completed(f, outcome) ==
  {e \in entries : e.key # f.key} \cup CompletedEntry(f, outcome)

CallbackAnswers(c) ==
  /\ c.answer # "none"
  /\ callbacks' = callbacks \ {c}
  /\ \/ /\ c.flight \in inFlight /\ Settles(c.flight, c.answer, Completed(c.flight, c.answer))
        /\ UNCHANGED faults
     \/ c.flight \in inFlight /\ Fault /\ Settles(c.flight, "UNKNOWN", entries)
     \/ c.flight \notin inFlight /\ UNCHANGED <<agents, entries, inFlight, faults>>
  /\ UNCHANGED <<source, session>>

(* The time limit, or a callback that throws, perhaps after its effect.    *)
GivesUp(f) ==
  /\ Fault /\ Settles(f, "UNKNOWN", Completed(f, "UNKNOWN"))
  /\ UNCHANGED <<source, callbacks, session>>

(* The process of a tool ends: the store keeps what it has.                *)
Restart(p) ==
  /\ Fault
  /\ inFlight' = {f \in inFlight : f.tool # p}
  /\ agents' = [a \in Agents |-> IF agents[a].tool = p /\ agents[a].phase # "done"
                                 THEN NoAgent ELSE agents[a]]
  /\ UNCHANGED <<source, entries, callbacks, session>>

(* A caller starts over, with a new check.                                 *)
Again(a) ==
  /\ agents[a].phase = "done" /\ agents' = [agents EXCEPT ![a] = NoAgent]
  /\ UNCHANGED <<source, entries, inFlight, callbacks, session, faults>>
-----------------------------------------------------------------------------
(* PremiseSession.  observe registers what the adapter saw, or returns the *)
(* record that has the memory's name already.                              *)
Observe(s) ==
  /\ client = "session" /\ sessions[s].phase = "idle"
  /\ LET m == MemoryId(version)
     IN /\ records' = IF records[m].status = "none"
                      THEN [records EXCEPT ![m] = [version |-> version, status |-> "FRESH"]]
                      ELSE records
        /\ sessions' = [sessions EXCEPT ![s] = [NoSession EXCEPT !.phase = "observed", !.memory = m]]
  /\ UNCHANGED <<source, tool, client, stableIds, faults>>

(* act and revalidateAndAct up to the adapter's write.                     *)
Usable(m) == records[m].status = "FRESH"

CommitIfFresh(s) ==
  LET m == sessions[s].memory
  IN /\ sessions[s].phase = "observed"
     /\ sessions' = [sessions EXCEPT ![s] =
          IF Usable(m) THEN [@ EXCEPT !.phase = "committing", !.version = records[m].version]
          ELSE [@ EXCEPT !.phase = "done",
                         !.outcome = IF records[m].status = "INVALID" THEN "POLICY_DENIED"
                                     ELSE "STALE_SOURCE"]]
     /\ UNCHANGED <<source, tool, client, stableIds, records, faults>>

(* conditionalAction: its answer, or the error that hides it.              *)
ConditionalAction(s) ==
  /\ sessions[s].phase = "committing"
  /\ \/ /\ Writes(s, "none", sessions[s].version, "none")
        /\ \/ sessions' = [sessions EXCEPT ![s].phase = "done", ![s].outcome = "committed"]
              /\ UNCHANGED faults
           \/ Fault /\ sessions' = [sessions EXCEPT ![s].phase = "done",
                                                    ![s].outcome = "VALIDATION_UNAVAILABLE"]
     \/ /\ version # sessions[s].version
        /\ sessions' = [sessions EXCEPT ![s].phase = "done", ![s].outcome = "STALE_SOURCE"]
        /\ UNCHANGED <<source, faults>>
  /\ UNCHANGED <<tool, client, stableIds, records>>

(* signalSourceChanged reaches the session's runtime. *)
Signal ==
  /\ \E m \in Memories : records[m].status = "FRESH"
  /\ records' = [m \in Memories |-> IF records[m].status = "FRESH"
                                    THEN [records[m] EXCEPT !.status = "STALE"] ELSE records[m]]
  /\ UNCHANGED <<source, tool, client, stableIds, sessions, faults>>

(* revalidate: the adapter compares the version of the evidence.           *)
SessionRevalidate(m) ==
  /\ records[m].status # "none"
  /\ \/ /\ records' = [records EXCEPT ![m].status =
                         IF version = records[m].version THEN "FRESH" ELSE "INVALID"]
        /\ UNCHANGED faults
     \/ Fault /\ records' = [records EXCEPT ![m].status = "UNKNOWN"]
  /\ UNCHANGED <<source, tool, client, stableIds, sessions>>

AgainSession(s) ==
  /\ sessions[s].phase = "done" /\ sessions' = [sessions EXCEPT ![s] = NoSession]
  /\ UNCHANGED <<source, tool, client, stableIds, records, faults>>

Next ==
  \/ SourceChanges
  \/ \E a \in Agents : \/ \E p \in Tools : Check(a, p)
                       \/ Revalidate(a) \/ Again(a)
                       \/ \E k \in Keys, d \in Actions : Act(a, k, d)
  \/ \E c \in callbacks : CallbackWrites(c) \/ CallbackAnswers(c)
  \/ \E f \in inFlight : GivesUp(f)
  \/ \E p \in Tools : Restart(p)
  \/ \E s \in Sessions : Observe(s) \/ CommitIfFresh(s) \/ ConditionalAction(s) \/ AgainSession(s)
  \/ Signal
  \/ \E m \in Memories : SessionRevalidate(m)

Spec == Init /\ [][Next]_vars
-----------------------------------------------------------------------------
(* A key has at most one effect, whatever timed out, threw or restarted    *)
(* and however often callers begin again with it.                          *)
KeyHasOneEffect ==
  \A x, y \in effects : x.key = y.key /\ x.key # "none" => x = y

Happened(a) == \E x \in effects : /\ x.key = agents[a].key /\ x.version = agents[a].version
                                  /\ x.action = agents[a].action
MayHappen(a) == \E c \in callbacks : /\ c.answer = "none" /\ c.flight.key = agents[a].key
                                     /\ c.flight.version = agents[a].version
                                     /\ c.flight.action = agents[a].action

(* Only UNKNOWN leaves open what happened: who hears APPLIED had this very *)
(* action done on the version of its proof, and who hears anything else    *)
(* knows that it was not done and will not be.  A session that hears       *)
(* committed had its write done on the version of its premise.             *)
DefiniteAnswersAreTrue ==
  /\ \A a \in Agents : agents[a].phase = "done" /\ agents[a].key # "none" =>
       /\ agents[a].outcome = "APPLIED" => Happened(a)
       /\ agents[a].outcome \in {"REJECTED", "VERSION_MISMATCH"} => ~Happened(a) /\ ~MayHappen(a)
  /\ \A s \in Sessions : sessions[s].outcome = "committed" =>
       \E x \in effects : x.by = s /\ x.version = records[sessions[s].memory].version
=============================================================================
