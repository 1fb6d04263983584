------------------------ MODULE GuardedActionsProofs ------------------------
(***************************************************************************)
(* Guarded tools and sessions, for every number of agents, tools, keys,    *)
(* sessions and faults and every capacity of the idempotency store.        *)
(*                                                                         *)
(* A key is claimed at most once, and the entry that claims it stays, so   *)
(* whatever is done or under way under a key is what its entry says.  One  *)
(* callback at most belongs to a key, and an effect uses it up.            *)
(*                                                                         *)
(* The second half is about the selection of the context an agent acts on. *)
(***************************************************************************)
EXTENDS GuardedActions, ContextEngine, FiniteSetTheorems, WellFoundedInduction, TLAPS

Results == {"PENDING", "UNKNOWN", "APPLIED", "VERSION_MISMATCH"}
EntryType == [key : Keys, version : Nat, action : Actions, result : Results]
FlightType == [tool : Tools \cup {"none"}, key : Keys, version : Nat, action : Actions]
CallbackType == [flight : FlightType, answer : {"none", "APPLIED", "VERSION_MISMATCH"}]
AgentType == [tool : Tools \cup {"none"}, phase : {"idle", "checked", "ready", "acting", "done"},
              version : Nat, key : Keys \cup {"none"}, action : Actions \cup {"none"},
              outcome : {"none", "UNKNOWN", "APPLIED", "VERSION_MISMATCH", "REJECTED"}]
RecordType == [version : Nat, status : {"none", "FRESH", "STALE", "INVALID", "UNKNOWN"}]
SessionType == [phase : {"idle", "observed", "committing", "done"}, memory : Memories,
                version : Nat, outcome : {"none", "committed", "POLICY_DENIED", "STALE_SOURCE",
                                          "VALIDATION_UNAVAILABLE"}]

TypeOK ==
  /\ version \in Versions /\ stableIds \in BOOLEAN
  /\ entries \subseteq EntryType /\ IsFiniteSet(entries)
  /\ inFlight \subseteq FlightType /\ callbacks \subseteq CallbackType
  /\ agents \in [Agents -> AgentType]
  /\ records \in [Memories -> RecordType] /\ sessions \in [Sessions -> SessionType]

(* The same action, on the same version, under the same key. *)
Matches(x, y) == x.key = y.key /\ x.version = y.version /\ x.action = y.action
Claimed(x) == \E e \in entries : Matches(x, e)
Done(x) == \E y \in effects : Matches(y, x)

(* Nothing was done under a key, and no callback will do it any more. *)
NeverHappens(k) ==
  /\ \A x \in effects : x.key # k
  /\ \A c \in callbacks : c.flight.key = k => c.answer # "none"

HasEntry(k) == \E e \in entries : e.key = k

EntriesInv ==
  /\ \A d, e \in entries : d.key = e.key => d = e
  /\ \A e \in entries : /\ e.result = "APPLIED" => Done(e)
                        /\ e.result = "VERSION_MISMATCH" => NeverHappens(e.key)

CallbacksInv ==
  /\ \A f \in inFlight : Claimed(f)
  /\ \A c \in callbacks :
       /\ Claimed(c.flight)
       /\ c.answer = "APPLIED" => Done(c.flight)
       /\ c.answer # "APPLIED" => \A x \in effects : x.key # c.flight.key
       /\ \A b \in callbacks : b.flight.key = c.flight.key => b = c

EffectsInv ==
  KeyHasOneEffect /\ \A x \in effects : x.key # "none" => Claimed(x)

(* A refused agent's key belongs to another action, or the store is full. *)
Refused(a) ==
  \/ \E e \in entries : e.key = a.key /\ ~Matches(a, e)
  \/ ~HasEntry(a.key) /\ Cardinality(entries) >= MaxEntries

AgentOK(a) ==
  /\ a.phase = "acting" => Claimed(a)
  /\ a.phase = "done" /\ a.key # "none" =>
       /\ a.outcome = "APPLIED" => Done(a)
       /\ a.outcome = "VERSION_MISMATCH" => NeverHappens(a.key) /\ HasEntry(a.key)
       /\ a.outcome = "REJECTED" => Refused(a)
AgentsInv == \A i \in Agents : AgentOK(agents[i])

SessionOK(i, s) ==
  /\ s.phase # "idle" => records[s.memory].status # "none"
  /\ s.phase = "committing" => s.version = records[s.memory].version
  /\ s.outcome = "committed" =>
       /\ s.phase = "done"
       /\ \E x \in effects : x.by = i /\ x.version = records[s.memory].version
SessionsInv == \A i \in Sessions : SessionOK(i, sessions[i])

ActionsInv ==
  TypeOK /\ EntriesInv /\ CallbacksInv /\ EffectsInv /\ AgentsInv /\ SessionsInv

(* What the invariant says of answers. *)
LEMMA InvAnswers == ActionsInv => DefiniteAnswersAreTrue
<1> SUFFICES ASSUME ActionsInv PROVE DefiniteAnswersAreTrue
  OBVIOUS
<1>1. ASSUME NEW i \in Agents, agents[i].phase = "done", agents[i].key # "none",
             agents[i].outcome = "APPLIED"
      PROVE  Happened(i)
  BY <1>1 DEF ActionsInv, AgentsInv, AgentOK, Done, Matches, Happened
<1>2. ASSUME NEW i \in Agents, agents[i].phase = "done", agents[i].key # "none",
             agents[i].outcome \in {"REJECTED", "VERSION_MISMATCH"}
      PROVE  ~Happened(i) /\ ~MayHappen(i)
  <2> DEFINE a == agents[i]
  <2>1. CASE a.outcome = "VERSION_MISMATCH"
    <3>1. NeverHappens(a.key)
      BY <1>2, <2>1 DEF ActionsInv, AgentsInv, AgentOK
    <3>2. QED
      BY <3>1 DEF NeverHappens, Happened, MayHappen
  <2>2. CASE a.outcome = "REJECTED"
    <3>1. Refused(a)
      BY <1>2, <2>2 DEF ActionsInv, AgentsInv, AgentOK
    <3>2. ~Claimed(a)
      BY <3>1 DEF Refused, Claimed, Matches, HasEntry, ActionsInv, EntriesInv
    <3>3. ~Happened(i)
      BY <1>2, <3>2 DEF Happened, Claimed, Matches, ActionsInv, EffectsInv
    <3>4. ~MayHappen(i)
      BY <3>2 DEF MayHappen, Claimed, Matches, ActionsInv, CallbacksInv
    <3>5. QED
      BY <3>3, <3>4
  <2>3. QED
    BY <1>2, <2>1, <2>2
<1>3. ASSUME NEW i \in Sessions, sessions[i].outcome = "committed"
      PROVE  \E x \in effects : x.by = i /\ x.version = records[sessions[i].memory].version
  BY <1>3 DEF ActionsInv, SessionsInv, SessionOK
<1>4. QED
  BY <1>1, <1>2, <1>3 DEF DefiniteAnswersAreTrue

LEMMA InitActionsInv == Init => ActionsInv
<1> SUFFICES ASSUME Init PROVE ActionsInv
  OBVIOUS
<1>1. NoAgent \in AgentType /\ NoSession \in SessionType
  BY ActionsAssumption DEF NoAgent, NoSession, AgentType, SessionType, Memories
<1>2. TypeOK
  <2>1. IsFiniteSet(entries)
    BY FS_EmptySet DEF Init
  <2>2. records \in [Memories -> RecordType]
    BY DEF Init, RecordType
  <2>3. version \in Versions
    BY ActionsAssumption DEF Init, Versions
  <2>4. QED
    BY <1>1, <2>1, <2>2, <2>3 DEF Init, TypeOK
<1>3. EntriesInv /\ CallbacksInv /\ EffectsInv
  BY DEF Init, EntriesInv, CallbacksInv, EffectsInv, KeyHasOneEffect
<1>4. AgentsInv
  BY DEF Init, AgentsInv, AgentOK, NoAgent
<1>5. SessionsInv
  BY DEF Init, SessionsInv, SessionOK, NoSession
<1>6. QED
  BY <1>2, <1>3, <1>4, <1>5 DEF ActionsInv

-----------------------------------------------------------------------------
(* A step that touches one agent only. *)
LEMMA AgentStep ==
  ASSUME ActionsInv, NEW i \in Agents, NEW a \in AgentType, AgentOK(a),
         agents' = [agents EXCEPT ![i] = a],
         UNCHANGED <<source, entries, inFlight, callbacks, session>>
  PROVE  ActionsInv'
<1> UNCHANGED <<version, effects, entries, inFlight, callbacks, stableIds, records, sessions>>
  BY DEF source, session
<1>1. TypeOK'
  BY DEF ActionsInv, TypeOK
<1>2. EntriesInv' /\ CallbacksInv' /\ EffectsInv'
  BY DEF ActionsInv, EntriesInv, CallbacksInv, EffectsInv, KeyHasOneEffect, Claimed, Done,
         NeverHappens
<1>3. \A b : AgentOK(b)' = AgentOK(b)
  BY DEF AgentOK, Claimed, Done, NeverHappens, HasEntry, Refused
<1>4. AgentsInv'
  BY <1>3 DEF ActionsInv, AgentsInv, TypeOK
<1>5. SessionsInv'
  BY DEF ActionsInv, SessionsInv, SessionOK
<1>6. QED
  BY <1>1, <1>2, <1>4, <1>5 DEF ActionsInv

(* An agent that holds no key is bound by nothing. *)
LEMMA NoAgentOK ==
  ASSUME NEW a, a.phase # "acting", a.phase # "done" \/ a.key = "none"
  PROVE  AgentOK(a)
  BY DEF AgentOK

LEMMA CheckStep ==
  ASSUME ActionsInv, NEW i \in Agents, NEW p \in Tools, Check(i, p)
  PROVE  ActionsInv'
<1>1. version \in Nat
  BY ActionsAssumption DEF ActionsInv, TypeOK, Versions
<1>2. PICK a \in AgentType :
        agents' = [agents EXCEPT ![i] = a] /\ a.phase \in {"checked", "done"} /\ a.key = "none"
  <2> DEFINE b == [NoAgent EXCEPT !.tool = p, !.phase = "checked", !.version = version]
             c == [NoAgent EXCEPT !.phase = "done", !.outcome = "UNKNOWN"]
  <2>1. b \in AgentType /\ b.phase = "checked" /\ b.key = "none"
    BY <1>1 DEF NoAgent, AgentType
  <2>2. c \in AgentType /\ c.phase = "done" /\ c.key = "none"
    BY DEF NoAgent, AgentType
  <2>3. agents' = [agents EXCEPT ![i] = b] \/ agents' = [agents EXCEPT ![i] = c]
    BY DEF Check
  <2> HIDE DEF b, c
  <2>4. QED
    BY <2>1, <2>2, <2>3
<1>3. QED
  BY <1>2, NoAgentOK, AgentStep DEF Check

LEMMA RevalidateStep ==
  ASSUME ActionsInv, NEW i \in Agents, Revalidate(i)
  PROVE  ActionsInv'
<1> DEFINE a == [agents[i] EXCEPT !.phase = "ready"]
           b == [NoAgent EXCEPT !.phase = "done", !.outcome = "VERSION_MISMATCH"]
           c == [NoAgent EXCEPT !.phase = "done", !.outcome = "UNKNOWN"]
<1>1. a \in AgentType /\ a.phase = "ready"
  BY DEF ActionsInv, TypeOK, AgentType
<1>2. b \in AgentType /\ c \in AgentType /\ b.key = "none" /\ c.key = "none"
      /\ b.phase = "done" /\ c.phase = "done"
  BY DEF NoAgent, AgentType
<1>3. \/ agents' = [agents EXCEPT ![i] = a] \/ agents' = [agents EXCEPT ![i] = b]
      \/ agents' = [agents EXCEPT ![i] = c]
  BY DEF Revalidate
<1> HIDE DEF a, b, c
<1>4. AgentOK(a) /\ AgentOK(b) /\ AgentOK(c)
  BY <1>1, <1>2, NoAgentOK
<1>5. QED
  BY <1>1, <1>2, <1>3, <1>4, AgentStep DEF Revalidate

LEMMA AgainStep ==
  ASSUME ActionsInv, NEW i \in Agents, Again(i)
  PROVE  ActionsInv'
<1>1. NoAgent \in AgentType /\ NoAgent.phase = "idle"
  BY DEF NoAgent, AgentType
<1>2. QED
  BY <1>1, NoAgentOK, AgentStep DEF Again

Outcomes == {"UNKNOWN", "APPLIED", "VERSION_MISMATCH", "REJECTED"}

LEMMA EndsFacts ==
  ASSUME ActionsInv, NEW i \in Agents, NEW k \in Keys, NEW d \in Actions,
         NEW o \in Outcomes, Ends(i, k, d, o)
  PROVE  \E a \in AgentType : /\ agents' = [agents EXCEPT ![i] = a]
                              /\ a.phase = "done" /\ a.key = k /\ a.action = d
                              /\ a.version = agents[i].version /\ a.outcome = o
<1> DEFINE a == [agents[i] EXCEPT !.phase = "done", !.key = k, !.action = d, !.outcome = o]
<1>1. agents[i] \in AgentType
  BY DEF ActionsInv, TypeOK
<1>2. /\ a \in AgentType /\ a.phase = "done" /\ a.key = k /\ a.action = d
      /\ a.version = agents[i].version /\ a.outcome = o
  BY <1>1 DEF AgentType, Outcomes
<1>3. agents' = [agents EXCEPT ![i] = a]
  BY DEF Ends, ActionsInv, TypeOK
<1> HIDE DEF a
<1>4. QED
  BY <1>2, <1>3

LEMMA WaitsFacts ==
  ASSUME ActionsInv, NEW i \in Agents, NEW k \in Keys, NEW d \in Actions, Waits(i, k, d)
  PROVE  \E a \in AgentType : /\ agents' = [agents EXCEPT ![i] = a]
                              /\ a.phase = "acting" /\ a.key = k /\ a.action = d
                              /\ a.version = agents[i].version
<1> DEFINE a == [agents[i] EXCEPT !.phase = "acting", !.key = k, !.action = d]
<1>1. agents[i] \in AgentType
  BY DEF ActionsInv, TypeOK
<1>2. /\ a \in AgentType /\ a.phase = "acting" /\ a.key = k /\ a.action = d
      /\ a.version = agents[i].version
  BY <1>1 DEF AgentType
<1>3. agents' = [agents EXCEPT ![i] = a]
  BY DEF Waits, ActionsInv, TypeOK
<1> HIDE DEF a
<1>4. QED
  BY <1>2, <1>3

(* The claim: a key that no entry has gets its entry, its flight and its   *)
(* callback; nothing was done under it before.                             *)
LEMMA ClaimStep ==
  ASSUME ActionsInv, NEW i \in Agents, NEW k \in Keys, NEW d \in Actions,
         NEW f \in FlightType, f.key = k, f.action = d, f.version = agents[i].version,
         ~HasEntry(k), Cardinality(entries) < MaxEntries,
         entries' = entries \cup {Entry(k, f.version, d, "PENDING")},
         inFlight' = inFlight \cup {f},
         callbacks' = callbacks \cup {[flight |-> f, answer |-> "none"]},
         Waits(i, k, d), UNCHANGED <<source, session>>
  PROVE  ActionsInv'
<1> UNCHANGED <<version, effects, stableIds, records, sessions>>
  BY DEF source, session
<1> DEFINE n == Entry(k, f.version, d, "PENDING")
           c == [flight |-> f, answer |-> "none"]
<1>1. n \in EntryType /\ n.key = k /\ n.version = f.version /\ n.action = d /\ n.result = "PENDING"
  BY DEF Entry, EntryType, FlightType, Results
<1>2. c \in CallbackType /\ c.flight = f /\ c.answer = "none"
  BY DEF CallbackType
<1>3. entries' = entries \cup {n} /\ callbacks' = callbacks \cup {c}
  OBVIOUS
<1> HIDE DEF n, c
<1>4. PICK a \in AgentType : /\ agents' = [agents EXCEPT ![i] = a]
                             /\ a.phase = "acting" /\ a.key = k /\ a.action = d
                             /\ a.version = agents[i].version
  BY WaitsFacts
<1>5. k # "none"
  BY ActionsAssumption
<1>6. \A x : Claimed(x) => Claimed(x)'
  BY <1>3 DEF Claimed
<1>7. \A x \in effects : x.key # k
  BY <1>5 DEF ActionsInv, EffectsInv, Claimed, HasEntry, Matches
<1>8. \A b \in callbacks : b.flight.key # k
  BY DEF ActionsInv, CallbacksInv, Claimed, HasEntry, Matches
<1>9. \A x : Done(x)' = Done(x)
  BY DEF Done
<1>10. ASSUME NEW j, j # k
       PROVE  NeverHappens(j) => NeverHappens(j)'
  BY <1>2, <1>3, <1>10 DEF NeverHappens
<1>11. TypeOK'
  <2>1. IsFiniteSet(entries')
    BY <1>3, FS_AddElement DEF ActionsInv, TypeOK
  <2>2. QED
    BY <1>1, <1>2, <1>3, <1>4, <2>1 DEF ActionsInv, TypeOK
<1>12. EntriesInv'
  <2>1. \A e \in entries : e.key # k
    BY DEF HasEntry
  <2>2. QED
    BY <1>1, <1>3, <1>9, <1>10, <2>1 DEF ActionsInv, EntriesInv
<1>13. CallbacksInv'
  <2>1. Claimed(f)'
    BY <1>1, <1>3 DEF Claimed, Matches
  <2>2. QED
    BY <1>2, <1>3, <1>6, <1>7, <1>8, <1>9, <2>1 DEF ActionsInv, CallbacksInv
<1>14. EffectsInv'
  BY <1>6 DEF ActionsInv, EffectsInv, KeyHasOneEffect
<1>15. AgentsInv'
  <2> SUFFICES ASSUME NEW j \in Agents PROVE AgentOK(agents[j])'
    BY DEF AgentsInv
  <2>1. CASE j = i
    <3>1. Claimed(a)'
      BY <1>1, <1>3, <1>4 DEF Claimed, Matches
    <3>2. agents'[j] = a
      BY <1>4, <2>1 DEF ActionsInv, TypeOK
    <3>3. QED
      BY <1>4, <3>1, <3>2 DEF AgentOK
  <2>2. CASE j # i
    <3> PICK b : b = agents[j]
      OBVIOUS
    <3>1. agents'[j] = b /\ AgentOK(b)
      BY <1>4, <2>2 DEF ActionsInv, AgentsInv
    <3>2. HasEntry(b.key) => HasEntry(b.key)' /\ b.key # k
      BY <1>3 DEF HasEntry
    <3>3. Refused(b) => Refused(b)'
      <4>1. IsFiniteSet(entries) /\ Cardinality(entries) \in Nat /\ MaxEntries \in Nat
        BY FS_CardinalityType, ActionsAssumption DEF ActionsInv, TypeOK
      <4>2. ~(Cardinality(entries) >= MaxEntries)
        BY <4>1
      <4>3. QED
        BY <1>3, <4>2 DEF Refused
    <3>4. AgentOK(b)'
      BY <1>6, <1>9, <1>10, <3>1, <3>2, <3>3 DEF AgentOK
    <3>5. QED
      BY <3>1, <3>4
  <2>3. QED
    BY <2>1, <2>2
<1>16. SessionsInv'
  BY DEF ActionsInv, SessionsInv, SessionOK
<1>17. QED
  BY <1>11, <1>12, <1>13, <1>14, <1>15, <1>16 DEF ActionsInv

LEMMA ActStep ==
  ASSUME ActionsInv, NEW i \in Agents, NEW k \in Keys, NEW d \in Actions, Act(i, k, d)
  PROVE  ActionsInv'
<1> DEFINE p       == agents[i].tool
           pending == {f \in inFlight : f.tool = p /\ f.key = k}
           entry   == {e \in entries : e.key = k}
           v       == agents[i].version
<1> k # "none"
  BY ActionsAssumption
<1> UNCHANGED <<source, session>>
  BY DEF Act
<1>1. CASE /\ pending # {} /\ UNCHANGED <<entries, inFlight, callbacks>>
           /\ (\E f \in pending : Fingerprint(f, i, d)) /\ Waits(i, k, d)
  <2>1. PICK a \in AgentType : /\ agents' = [agents EXCEPT ![i] = a]
                               /\ a.phase = "acting" /\ a.key = k /\ a.action = d
                               /\ a.version = v
    BY <1>1, WaitsFacts
  <2>2. PICK f \in pending : Fingerprint(f, i, d)
    BY <1>1
  <2>3. Claimed(f) /\ Matches(a, f)
    BY <2>1, <2>2 DEF ActionsInv, CallbacksInv, Fingerprint, Matches
  <2>4. AgentOK(a)
    BY <2>1, <2>3 DEF AgentOK, Claimed, Matches
  <2>5. QED
    BY <1>1, <2>1, <2>4, AgentStep
<1>2. CASE /\ pending # {} /\ UNCHANGED <<entries, inFlight, callbacks>>
           /\ (\A f \in pending : ~Fingerprint(f, i, d)) /\ Ends(i, k, d, "REJECTED")
  <2>1. PICK a \in AgentType : /\ agents' = [agents EXCEPT ![i] = a]
                               /\ a.phase = "done" /\ a.key = k /\ a.action = d
                               /\ a.version = v /\ a.outcome = "REJECTED"
    BY <1>2, EndsFacts DEF Outcomes
  <2>2. PICK f \in pending : ~Fingerprint(f, i, d)
    BY <1>2
  <2>3. PICK e \in entries : Matches(f, e)
    BY <2>2 DEF ActionsInv, CallbacksInv, Claimed
  <2>4. e.key = k /\ ~Matches(a, e)
    BY <2>1, <2>2, <2>3 DEF Matches, Fingerprint
  <2>5. AgentOK(a)
    BY <2>1, <2>4 DEF AgentOK, Refused
  <2>6. QED
    BY <1>2, <2>1, <2>5, AgentStep
<1>3. CASE /\ pending = {} /\ entry # {} /\ UNCHANGED <<entries, inFlight, callbacks>>
           /\ \E e \in entry :
                Ends(i, k, d, IF ~Fingerprint(e, i, d) THEN "REJECTED"
                              ELSE IF e.result = "PENDING" THEN "UNKNOWN" ELSE e.result)
  <2>1. PICK e \in entry :
          Ends(i, k, d, IF ~Fingerprint(e, i, d) THEN "REJECTED"
                        ELSE IF e.result = "PENDING" THEN "UNKNOWN" ELSE e.result)
    BY <1>3
  <2> DEFINE o == IF ~Fingerprint(e, i, d) THEN "REJECTED"
                  ELSE IF e.result = "PENDING" THEN "UNKNOWN" ELSE e.result
  <2>2. e \in entries /\ e.key = k /\ e.result \in Results
    BY DEF ActionsInv, TypeOK, EntryType
  <2>3. o \in Outcomes
    BY <2>2 DEF Outcomes, Results
  <2>4. PICK a \in AgentType : /\ agents' = [agents EXCEPT ![i] = a]
                               /\ a.phase = "done" /\ a.key = k /\ a.action = d
                               /\ a.version = v /\ a.outcome = o
    BY <2>1, <2>3, EndsFacts
  <2>5. AgentOK(a)
    <3>1. CASE ~Fingerprint(e, i, d)
      <4>1. ~Matches(a, e)
        BY <2>4, <3>1 DEF Matches, Fingerprint
      <4>2. QED
        BY <2>2, <2>4, <3>1, <4>1 DEF AgentOK, Refused
    <3>2. CASE Fingerprint(e, i, d)
      <4>1. Matches(a, e) /\ Matches(e, a)
        BY <2>2, <2>4, <3>2 DEF Matches, Fingerprint
      <4>2. a.outcome = "APPLIED" => Done(a)
        BY <2>2, <2>4, <3>2, <4>1 DEF ActionsInv, EntriesInv, Done, Matches
      <4>3. a.outcome = "VERSION_MISMATCH" => NeverHappens(k) /\ HasEntry(k)
        BY <2>2, <2>4, <3>2 DEF ActionsInv, EntriesInv, HasEntry
      <4>4. a.outcome # "REJECTED"
        BY <2>2, <2>4, <3>2 DEF Results
      <4>5. QED
        BY <2>4, <4>2, <4>3, <4>4 DEF AgentOK
    <3>3. QED
      BY <3>1, <3>2
  <2>6. QED
    BY <1>3, <2>4, <2>5, AgentStep
<1>4. CASE /\ pending = {} /\ entry = {} /\ Cardinality(entries) >= MaxEntries
           /\ Ends(i, k, d, "REJECTED") /\ UNCHANGED <<entries, inFlight, callbacks>>
  <2>1. PICK a \in AgentType : /\ agents' = [agents EXCEPT ![i] = a]
                               /\ a.phase = "done" /\ a.key = k /\ a.action = d
                               /\ a.version = v /\ a.outcome = "REJECTED"
    BY <1>4, EndsFacts DEF Outcomes
  <2>2. AgentOK(a)
    BY <1>4, <2>1 DEF AgentOK, Refused, HasEntry
  <2>3. QED
    BY <1>4, <2>1, <2>2, AgentStep
<1>5. CASE /\ pending = {} /\ entry = {} /\ Cardinality(entries) < MaxEntries
           /\ entries' = entries \cup {Entry(k, Flight(p, k, v, d).version, d, "PENDING")}
           /\ inFlight' = inFlight \cup {Flight(p, k, v, d)}
           /\ callbacks' = callbacks \cup {[flight |-> Flight(p, k, v, d), answer |-> "none"]}
           /\ Waits(i, k, d)
  <2>1. /\ Flight(p, k, v, d) \in FlightType /\ Flight(p, k, v, d).key = k
        /\ Flight(p, k, v, d).action = d /\ Flight(p, k, v, d).version = v
    BY DEF Flight, FlightType, ActionsInv, TypeOK, AgentType
  <2>2. ~HasEntry(k)
    BY <1>5 DEF HasEntry
  <2>3. QED
    BY <1>5, <2>1, <2>2, ClaimStep
<1>6. QED
  BY <1>1, <1>2, <1>3, <1>4, <1>5 DEF Act

-----------------------------------------------------------------------------
(* What was true of an agent stays true while the entries of the store     *)
(* keep their keys and actions, effects are only added and nothing that    *)
(* was ruled out happens.                                                  *)
LEMMA AgentStaysOK ==
  ASSUME ActionsInv, NEW a, AgentOK(a),
         Claimed(a) => Claimed(a)', Done(a) => Done(a)',
         NeverHappens(a.key) => NeverHappens(a.key)', HasEntry(a.key) => HasEntry(a.key)',
         Refused(a) => Refused(a)'
  PROVE  AgentOK(a)'
  BY DEF AgentOK

LEMMA CallbackWritesStep ==
  ASSUME ActionsInv, NEW c \in callbacks, CallbackWrites(c)
  PROVE  ActionsInv'
<1> UNCHANGED <<agents, entries, inFlight, stableIds, records, sessions>>
  BY DEF CallbackWrites, session
<1> DEFINE f == c.flight
           x == [by |-> f.tool, key |-> f.key, version |-> f.version, action |-> f.action]
<1>1. c \in CallbackType /\ f \in FlightType /\ c.answer = "none"
  BY DEF ActionsInv, TypeOK, CallbackType, CallbackWrites
<1>2. PICK answer \in {"APPLIED", "VERSION_MISMATCH"} :
        /\ callbacks' = (callbacks \ {c}) \cup {[c EXCEPT !.answer = answer]}
        /\ answer = "APPLIED" => effects' = effects \cup {x}
        /\ answer = "VERSION_MISMATCH" => effects' = effects
        /\ version' \in Versions
  BY DEF CallbackWrites, Writes, source, ActionsInv, TypeOK
<1> DEFINE b == [c EXCEPT !.answer = answer]
<1>3. b \in CallbackType /\ b.flight = f /\ b.answer = answer
  BY <1>1 DEF CallbackType
<1>4. x.key = f.key /\ x.version = f.version /\ x.action = f.action
  OBVIOUS
<1>5. /\ Claimed(f) /\ \A y \in effects : y.key # f.key
      /\ \A e \in callbacks : e.flight.key = f.key => e = c
  BY <1>1 DEF ActionsInv, CallbacksInv
<1>6. callbacks' = (callbacks \ {c}) \cup {b}
  BY <1>2
<1>7. effects \subseteq effects' /\ \A y \in effects' : y \in effects \/ y = x
  BY <1>2
<1> HIDE DEF b, x, f
<1>8. f.key \in Keys /\ f.key # "none"
  BY <1>1, ActionsAssumption DEF FlightType
<1>9. \A y : (Claimed(y)' = Claimed(y)) /\ (Done(y) => Done(y)')
  BY <1>7 DEF Claimed, Done
<1>10. ASSUME NEW k, NeverHappens(k) PROVE NeverHappens(k)'
  <2>1. k # f.key
    BY <1>1, <1>10 DEF NeverHappens, f
  <2>2. QED
    BY <1>3, <1>4, <1>6, <1>7, <1>10, <2>1 DEF NeverHappens
<1>11. TypeOK'
  BY <1>2, <1>3, <1>6 DEF ActionsInv, TypeOK
<1>12. EntriesInv'
  BY <1>9, <1>10 DEF ActionsInv, EntriesInv
<1>13. CallbacksInv'
  <2>1. ASSUME NEW e \in callbacks'
        PROVE  /\ Claimed(e.flight)'
               /\ e.answer = "APPLIED" => Done(e.flight)'
               /\ e.answer # "APPLIED" => \A y \in effects' : y.key # e.flight.key
               /\ \A a \in callbacks' : a.flight.key = e.flight.key => a = e
    <3>1. CASE e = b
      <4>1. answer = "APPLIED" => Done(f)'
        BY <1>2, <1>4 DEF Done, Matches
      <4>2. answer # "APPLIED" => \A y \in effects' : y.key # f.key
        BY <1>2, <1>5
      <4>3. QED
        BY <1>3, <1>5, <1>6, <1>9, <3>1, <4>1, <4>2
    <3>2. CASE e \in callbacks /\ e # c
      <4>1. e.flight.key # f.key
        BY <1>5, <3>2
      <4>2. QED
        BY <1>3, <1>4, <1>6, <1>7, <1>9, <3>2, <4>1 DEF ActionsInv, CallbacksInv
    <3>3. QED
      BY <1>6, <3>1, <3>2
  <2>2. QED
    BY <1>9, <2>1 DEF ActionsInv, CallbacksInv
<1>14. EffectsInv'
  <2>1. Claimed(x)
    BY <1>4, <1>5 DEF Claimed, Matches
  <2>2. QED
    BY <1>4, <1>5, <1>7, <1>9, <2>1 DEF ActionsInv, EffectsInv, KeyHasOneEffect
<1>15. AgentsInv'
  <2> SUFFICES ASSUME NEW i \in Agents PROVE AgentOK(agents[i])'
    BY DEF AgentsInv
  <2> PICK a : a = agents[i]
    OBVIOUS
  <2>1. AgentOK(a)
    BY DEF ActionsInv, AgentsInv
  <2>2. (HasEntry(a.key) = HasEntry(a.key)') /\ (Refused(a) = Refused(a)')
    BY DEF HasEntry, Refused
  <2>3. AgentOK(a)'
    BY <1>9, <1>10, <2>1, <2>2, AgentStaysOK
  <2>4. QED
    BY <2>3
<1>16. SessionsInv'
  BY <1>7 DEF ActionsInv, SessionsInv, SessionOK
<1>17. QED
  BY <1>11, <1>12, <1>13, <1>14, <1>15, <1>16 DEF ActionsInv

(* complete replaces the result of the one entry that the flight claimed. *)
LEMMA CompletedFacts ==
  ASSUME ActionsInv, NEW f \in inFlight, NEW o \in Results, NEW T, T = Completed(f, o)
  PROVE  /\ T \subseteq EntryType /\ IsFiniteSet(T) /\ Cardinality(T) = Cardinality(entries)
         /\ \A d, e \in T : d.key = e.key => d = e
         /\ \A e \in entries : \E t \in T : Matches(e, t)
         /\ \A t \in T : \E e \in entries : Matches(t, e)
         /\ \A t \in T : t \in entries \/ (Matches(t, f) /\ t.result = o)
<1> DEFINE n == Entry(f.key, f.version, f.action, o)
<1>1. f \in FlightType
  BY DEF ActionsInv, TypeOK
<1>2. /\ n \in EntryType /\ n.key = f.key /\ n.version = f.version /\ n.action = f.action
      /\ n.result = o
  BY <1>1 DEF Entry, EntryType, FlightType
<1>3. PICK c \in entries : Matches(f, c)
  BY DEF ActionsInv, CallbacksInv, Claimed
<1>4. T = {e \in entries : e.key # f.key} \cup {n}
  BY DEF Completed, CompletedEntry
<1> HIDE DEF n
<1>5. T = (entries \ {c}) \cup {n}
  BY <1>3, <1>4 DEF ActionsInv, EntriesInv, Matches
<1>6. IsFiniteSet(T) /\ Cardinality(T) = Cardinality(entries)
  <2>1. IsFiniteSet(entries) /\ Cardinality(entries) \in Nat
    BY FS_CardinalityType DEF ActionsInv, TypeOK
  <2>2. IsFiniteSet(entries \ {c}) /\ Cardinality(entries \ {c}) = Cardinality(entries) - 1
    BY <1>3, <2>1, FS_RemoveElement
  <2>3. n \notin entries \ {c}
    BY <1>2, <1>3 DEF ActionsInv, EntriesInv, Matches
  <2>4. /\ IsFiniteSet((entries \ {c}) \cup {n})
        /\ Cardinality((entries \ {c}) \cup {n}) = Cardinality(entries \ {c}) + 1
    BY <2>2, <2>3, FS_AddElement
  <2>5. QED
    BY <1>5, <2>1, <2>2, <2>4
<1>7. T \subseteq EntryType
  BY <1>2, <1>5 DEF ActionsInv, TypeOK
<1>8. Matches(c, n) /\ Matches(n, c) /\ Matches(n, f)
  BY <1>2, <1>3 DEF Matches
<1>9. \A d, e \in T : d.key = e.key => d = e
  BY <1>2, <1>4 DEF ActionsInv, EntriesInv
<1>10. \A e \in entries : \E t \in T : Matches(e, t)
  BY <1>5, <1>8 DEF Matches
<1>11. \A t \in T : \E e \in entries : Matches(t, e)
  BY <1>3, <1>5, <1>8 DEF Matches
<1>12. \A t \in T : t \in entries \/ (Matches(t, f) /\ t.result = o)
  BY <1>2, <1>5, <1>8
<1>13. QED
  BY <1>6, <1>7, <1>9, <1>10, <1>11, <1>12

(* performAction ends with an outcome that is true; whoever waits for it   *)
(* asked for the very action of the flight.                                *)
LEMMA SettleStep ==
  ASSUME ActionsInv, NEW f \in inFlight,
         NEW o \in {"UNKNOWN", "APPLIED", "VERSION_MISMATCH"}, NEW kept,
         kept = Completed(f, o) \/ (kept = entries /\ o = "UNKNOWN"),
         Settles(f, o, kept), callbacks' \subseteq callbacks, UNCHANGED <<source, session>>,
         o = "APPLIED" => Done(f), o = "VERSION_MISMATCH" => NeverHappens(f.key)'
  PROVE  ActionsInv'
<1> UNCHANGED <<version, effects, stableIds, records, sessions>>
  BY DEF source, session
<1>1. /\ kept \subseteq EntryType /\ IsFiniteSet(kept) /\ Cardinality(kept) = Cardinality(entries)
      /\ \A d, e \in kept : d.key = e.key => d = e
      /\ \A e \in entries : \E t \in kept : Matches(e, t)
      /\ \A t \in kept : \E e \in entries : Matches(t, e)
      /\ \A t \in kept : t \in entries \/ (Matches(t, f) /\ t.result = o)
  <2>1. CASE kept = Completed(f, o)
    <3>1. o \in Results
      BY DEF Results
    <3>2. QED
      BY <2>1, <3>1, CompletedFacts
  <2>2. CASE kept = entries
    BY <2>2 DEF ActionsInv, TypeOK, EntriesInv, Matches
  <2>3. QED
    BY <2>1, <2>2
<1>2. entries' = kept /\ inFlight' \subseteq inFlight
  BY DEF Settles
<1>3. \A y : Done(y)' = Done(y)
  BY DEF Done
<1>4. \A y : Claimed(y) => Claimed(y)'
  BY <1>1, <1>2 DEF Claimed, Matches
<1>5. \A k : HasEntry(k)' = HasEntry(k)
  BY <1>1, <1>2 DEF HasEntry, Matches
<1>6. \A k : NeverHappens(k) => NeverHappens(k)'
  BY DEF NeverHappens
<1>7. \A y : Refused(y) => Refused(y)'
  BY <1>1, <1>2, <1>5 DEF Refused, Matches
<1>8. f \in FlightType /\ Claimed(f)
  BY DEF ActionsInv, TypeOK, CallbacksInv
<1>9. ASSUME NEW i \in Agents
      PROVE  /\ agents'[i] \in AgentType
             /\ \/ agents'[i] = agents[i]
                \/ /\ agents[i].phase = "acting" /\ agents[i].key = f.key
                   /\ agents'[i].phase = "done" /\ agents'[i].outcome = o
                   /\ Matches(agents'[i], agents[i])
  <2>1. agents[i] \in AgentType
    BY DEF ActionsInv, TypeOK
  <2> DEFINE a == [agents[i] EXCEPT !.phase = "done", !.outcome = o]
  <2>2. a \in AgentType /\ a.phase = "done" /\ a.outcome = o /\ Matches(a, agents[i])
    BY <2>1 DEF AgentType, Matches
  <2>3. agents'[i] = IF agents[i].phase = "acting" /\ agents[i].tool = f.tool
                        /\ agents[i].key = f.key THEN a ELSE agents[i]
    BY DEF Settles
  <2> HIDE DEF a
  <2>4. QED
    BY <2>1, <2>2, <2>3
<1>10. TypeOK'
  <2>1. agents' \in [Agents -> AgentType]
    BY <1>9 DEF Settles
  <2>2. QED
    BY <1>1, <1>2, <2>1 DEF ActionsInv, TypeOK
<1>11. EntriesInv'
  <2>1. ASSUME NEW e \in kept
        PROVE  /\ e.result = "APPLIED" => Done(e)
               /\ e.result = "VERSION_MISMATCH" => NeverHappens(e.key)'
    <3>1. CASE e \in entries
      BY <1>6, <3>1 DEF ActionsInv, EntriesInv
    <3>2. CASE Matches(e, f) /\ e.result = o
      BY <3>2 DEF Matches, Done
    <3>3. QED
      BY <1>1, <3>1, <3>2
  <2>2. QED
    BY <1>1, <1>2, <1>3, <2>1 DEF EntriesInv
<1>12. CallbacksInv'
  BY <1>2, <1>3, <1>4 DEF ActionsInv, CallbacksInv
<1>13. EffectsInv'
  BY <1>4 DEF ActionsInv, EffectsInv, KeyHasOneEffect
<1>14. AgentsInv'
  <2> SUFFICES ASSUME NEW i \in Agents PROVE AgentOK(agents[i])'
    BY DEF AgentsInv
  <2> PICK b : b = agents'[i]
    OBVIOUS
  <2>1. CASE b = agents[i]
    <3>1. AgentOK(b)
      BY <2>1 DEF ActionsInv, AgentsInv
    <3>2. AgentOK(b)'
      BY <1>3, <1>4, <1>5, <1>6, <1>7, <3>1, AgentStaysOK
    <3>3. QED
      BY <3>2
  <2>2. CASE /\ agents[i].phase = "acting" /\ agents[i].key = f.key
             /\ b.phase = "done" /\ b.outcome = o /\ Matches(b, agents[i])
    <3>1. Claimed(agents[i])
      BY <2>2 DEF ActionsInv, AgentsInv, AgentOK
    <3>2. Matches(b, f)
      BY <1>8, <2>2, <3>1 DEF Claimed, Matches, ActionsInv, EntriesInv
    <3>3. o = "APPLIED" => Done(b)'
      BY <1>3, <3>2 DEF Done, Matches
    <3>4. HasEntry(b.key)'
      BY <1>5, <1>8, <3>2 DEF Claimed, HasEntry, Matches
    <3>5. o = "VERSION_MISMATCH" => NeverHappens(b.key)'
      BY <3>2 DEF Matches
    <3>6. AgentOK(b)'
      BY <2>2, <3>3, <3>4, <3>5 DEF AgentOK
    <3>7. QED
      BY <3>6
  <2>3. QED
    BY <1>9, <2>1, <2>2
<1>15. SessionsInv'
  BY DEF ActionsInv, SessionsInv, SessionOK
<1>16. QED
  BY <1>10, <1>11, <1>12, <1>13, <1>14, <1>15 DEF ActionsInv

LEMMA CallbackAnswersStep ==
  ASSUME ActionsInv, NEW c \in callbacks, CallbackAnswers(c)
  PROVE  ActionsInv'
<1> DEFINE f == c.flight
<1> UNCHANGED <<source, session>> /\ callbacks' = callbacks \ {c} /\ c.answer # "none"
  BY DEF CallbackAnswers
<1>1. c.answer \in {"APPLIED", "VERSION_MISMATCH"}
  BY DEF ActionsInv, TypeOK, CallbackType
<1>2. CASE f \in inFlight /\ Settles(f, c.answer, Completed(f, c.answer))
  <2>1. c.answer = "APPLIED" => Done(f)
    BY DEF ActionsInv, CallbacksInv
  <2>2. c.answer = "VERSION_MISMATCH" => NeverHappens(f.key)'
    BY DEF ActionsInv, CallbacksInv, NeverHappens, source
  <2>3. QED
    BY <1>1, <1>2, <2>1, <2>2, SettleStep
<1>3. CASE f \in inFlight /\ Settles(f, "UNKNOWN", entries)
  BY <1>3, SettleStep
<1>4. CASE UNCHANGED <<agents, entries, inFlight>>
  <2> UNCHANGED <<version, effects, stableIds, records, sessions>>
    BY DEF source, session
  <2>1. \A k : NeverHappens(k) => NeverHappens(k)'
    BY DEF NeverHappens
  <2>2. \A x : /\ Claimed(x)' = Claimed(x) /\ Done(x)' = Done(x) /\ Refused(x)' = Refused(x)
               /\ HasEntry(x)' = HasEntry(x)
    BY <1>4 DEF Claimed, Done, Refused, HasEntry
  <2>3. TypeOK'
    BY <1>4 DEF ActionsInv, TypeOK
  <2>4. EntriesInv' /\ CallbacksInv' /\ EffectsInv'
    BY <1>4, <2>1, <2>2 DEF ActionsInv, EntriesInv, CallbacksInv, EffectsInv, KeyHasOneEffect
  <2>5. AgentsInv'
    <3> SUFFICES ASSUME NEW i \in Agents PROVE AgentOK(agents[i])'
      BY DEF AgentsInv
    <3> PICK a : a = agents[i]
      OBVIOUS
    <3>1. AgentOK(a)
      BY DEF ActionsInv, AgentsInv
    <3>2. AgentOK(a)'
      BY <2>1, <2>2, <3>1, AgentStaysOK
    <3>3. QED
      BY <1>4, <3>2
  <2>6. SessionsInv'
    BY DEF ActionsInv, SessionsInv, SessionOK
  <2>7. QED
    BY <2>3, <2>4, <2>5, <2>6 DEF ActionsInv
<1>5. QED
  BY <1>2, <1>3, <1>4 DEF CallbackAnswers

LEMMA GivesUpStep ==
  ASSUME ActionsInv, NEW f \in inFlight, GivesUp(f)
  PROVE  ActionsInv'
  BY SettleStep DEF GivesUp

LEMMA RestartStep ==
  ASSUME ActionsInv, NEW p \in Tools, Restart(p)
  PROVE  ActionsInv'
<1> UNCHANGED <<version, effects, entries, callbacks, stableIds, records, sessions>>
  BY DEF Restart, source, session
<1>1. NoAgent \in AgentType /\ NoAgent.phase = "idle"
  BY DEF NoAgent, AgentType
<1>2. \A i \in Agents : agents'[i] = agents[i] \/ agents'[i] = NoAgent
  BY DEF Restart
<1>3. inFlight' \subseteq inFlight
  BY DEF Restart
<1>4. TypeOK'
  <2>1. agents' \in [Agents -> AgentType]
    BY <1>1, <1>2 DEF Restart, ActionsInv, TypeOK
  <2>2. QED
    BY <1>3, <2>1 DEF ActionsInv, TypeOK
<1>5. EntriesInv' /\ CallbacksInv' /\ EffectsInv'
  BY <1>3 DEF ActionsInv, EntriesInv, CallbacksInv, EffectsInv, KeyHasOneEffect, Claimed, Done,
              NeverHappens
<1>6. AgentsInv'
  <2>1. \A a : AgentOK(a)' = AgentOK(a)
    BY DEF AgentOK, Claimed, Done, NeverHappens, HasEntry, Refused
  <2>2. QED
    BY <1>1, <1>2, <2>1, NoAgentOK DEF ActionsInv, AgentsInv
<1>7. SessionsInv'
  BY DEF ActionsInv, SessionsInv, SessionOK
<1>8. QED
  BY <1>4, <1>5, <1>6, <1>7 DEF ActionsInv

-----------------------------------------------------------------------------
(* A step outside the tools may add effects without a key. *)
LEMMA ToolsUntouched ==
  ASSUME ActionsInv, UNCHANGED tool, effects \subseteq effects',
         \A x \in effects' : x \in effects \/ x.key = "none"
  PROVE  EntriesInv' /\ CallbacksInv' /\ EffectsInv' /\ AgentsInv'
<1> UNCHANGED <<agents, entries, inFlight, callbacks>>
  BY DEF tool
<1>1. \A x : /\ Claimed(x)' = Claimed(x) /\ Refused(x)' = Refused(x)
             /\ HasEntry(x)' = HasEntry(x) /\ (Done(x) => Done(x)')
  BY DEF Claimed, Done, Refused, HasEntry
<1>2. \A k : k # "none" /\ NeverHappens(k) => NeverHappens(k)'
  BY DEF NeverHappens
<1>3. /\ \A e \in entries : e.key # "none"
      /\ \A c \in callbacks : c.flight.key # "none"
  BY ActionsAssumption DEF ActionsInv, TypeOK, EntryType, CallbackType, FlightType
<1>4. EntriesInv'
  BY <1>1, <1>2, <1>3 DEF ActionsInv, EntriesInv
<1>5. CallbacksInv'
  BY <1>1, <1>3 DEF ActionsInv, CallbacksInv
<1>6. EffectsInv'
  BY <1>1 DEF ActionsInv, EffectsInv, KeyHasOneEffect
<1>7. AgentsInv'
  <2> SUFFICES ASSUME NEW i \in Agents PROVE AgentOK(agents[i])'
    BY DEF AgentsInv
  <2> PICK a : a = agents[i]
    OBVIOUS
  <2>1. AgentOK(a)
    BY DEF ActionsInv, AgentsInv
  <2>2. AgentOK(a)'
    BY <1>1, <1>2, <2>1 DEF AgentOK
  <2>3. QED
    BY <2>2
<1>8. QED
  BY <1>4, <1>5, <1>6, <1>7

(* Records get their version once and are never forgotten. *)
LEMMA RecordsKeep ==
  ASSUME ActionsInv, UNCHANGED <<source, tool, stableIds, sessions>>,
         records' \in [Memories -> RecordType],
         \A m \in Memories : records[m].status # "none" =>
           records'[m].status # "none" /\ records'[m].version = records[m].version
  PROVE  ActionsInv'
<1> UNCHANGED <<version, effects, agents, entries, inFlight, callbacks, sessions>>
  BY DEF source, tool
<1>1. TypeOK'
  BY DEF ActionsInv, TypeOK
<1>2. EntriesInv' /\ CallbacksInv' /\ EffectsInv' /\ AgentsInv'
  BY ToolsUntouched
<1>3. \A i \in Sessions : sessions[i].memory \in Memories
                          /\ (sessions[i].outcome = "committed" => sessions[i].phase = "done")
  BY DEF ActionsInv, TypeOK, SessionType, SessionsInv, SessionOK
<1>4. SessionsInv'
  BY <1>3 DEF ActionsInv, SessionsInv, SessionOK
<1>5. QED
  BY <1>1, <1>2, <1>4 DEF ActionsInv

(* One session moves on. *)
LEMMA SessionMoves ==
  ASSUME ActionsInv, NEW i \in Sessions, NEW s \in SessionType,
         sessions' = [sessions EXCEPT ![i] = s], SessionOK(i, s),
         UNCHANGED <<source, tool, stableIds, records>>
  PROVE  ActionsInv'
<1> UNCHANGED <<version, effects, agents, entries, inFlight, callbacks>>
  BY DEF source, tool
<1>1. TypeOK'
  BY DEF ActionsInv, TypeOK
<1>2. EntriesInv' /\ CallbacksInv' /\ EffectsInv' /\ AgentsInv'
  BY ToolsUntouched
<1>3. \A j, t : SessionOK(j, t)' = SessionOK(j, t)
  BY DEF SessionOK
<1>4. SessionsInv'
  BY <1>3 DEF ActionsInv, SessionsInv, TypeOK
<1>5. QED
  BY <1>1, <1>2, <1>4 DEF ActionsInv

LEMMA ObserveStep ==
  ASSUME ActionsInv, NEW i \in Sessions, Observe(i)
  PROVE  ActionsInv'
<1> UNCHANGED <<version, effects, agents, entries, inFlight, callbacks, stableIds>>
  BY DEF Observe, source, tool
<1> DEFINE m == MemoryId(version)
           r == [version |-> version, status |-> "FRESH"]
           s == [NoSession EXCEPT !.phase = "observed", !.memory = m]
<1>1. version \in Nat /\ m \in Memories
  BY ActionsAssumption DEF ActionsInv, TypeOK, Versions, MemoryId, Memories
<1>2. r \in RecordType /\ r.status = "FRESH"
  BY <1>1 DEF RecordType
<1>3. s \in SessionType /\ s.phase = "observed" /\ s.memory = m /\ s.outcome = "none"
  BY <1>1 DEF SessionType, NoSession
<1>4. /\ sessions' = [sessions EXCEPT ![i] = s]
      /\ records' = IF records[m].status = "none" THEN [records EXCEPT ![m] = r] ELSE records
  BY DEF Observe
<1> HIDE DEF m, r, s
<1>5. /\ records' \in [Memories -> RecordType] /\ records'[m].status # "none"
      /\ \A n \in Memories : records[n].status # "none" => records'[n] = records[n]
  BY <1>1, <1>2, <1>4 DEF ActionsInv, TypeOK
<1>6. TypeOK'
  BY <1>3, <1>4, <1>5 DEF ActionsInv, TypeOK
<1>7. EntriesInv' /\ CallbacksInv' /\ EffectsInv' /\ AgentsInv'
  BY ToolsUntouched DEF tool
<1>8. SessionsInv'
  <2> SUFFICES ASSUME NEW j \in Sessions PROVE SessionOK(j, sessions[j])'
    BY DEF SessionsInv
  <2>1. CASE j = i
    <3>1. sessions'[j] = s
      BY <1>4, <2>1 DEF ActionsInv, TypeOK
    <3>2. QED
      BY <1>3, <1>5, <3>1 DEF SessionOK
  <2>2. CASE j # i
    <3>1. sessions'[j] = sessions[j] /\ sessions[j] \in SessionType
      BY <1>4, <2>2 DEF ActionsInv, TypeOK
    <3>2. SessionOK(j, sessions[j]) /\ sessions[j].memory \in Memories
      BY <3>1 DEF ActionsInv, SessionsInv, SessionType
    <3>3. QED
      BY <1>5, <3>1, <3>2 DEF SessionOK
  <2>3. QED
    BY <2>1, <2>2
<1>9. QED
  BY <1>6, <1>7, <1>8 DEF ActionsInv

LEMMA CommitIfFreshStep ==
  ASSUME ActionsInv, NEW i \in Sessions, CommitIfFresh(i)
  PROVE  ActionsInv'
<1> DEFINE s == sessions[i]
           m == s.memory
           a == [s EXCEPT !.phase = "committing", !.version = records[m].version]
           o == IF records[m].status = "INVALID" THEN "POLICY_DENIED" ELSE "STALE_SOURCE"
           b == [s EXCEPT !.phase = "done", !.outcome = o]
<1>1. s \in SessionType /\ m \in Memories /\ records[m].version \in Nat
  BY DEF ActionsInv, TypeOK, SessionType, RecordType
<1>2. s.phase = "observed" /\ SessionOK(i, s)
  BY DEF CommitIfFresh, ActionsInv, SessionsInv
<1>3. s.outcome # "committed" /\ records[m].status # "none"
  BY <1>2 DEF SessionOK
<1>4. /\ a \in SessionType /\ a.phase = "committing" /\ a.memory = m
      /\ a.version = records[m].version /\ a.outcome = s.outcome
  BY <1>1 DEF SessionType
<1>5. b \in SessionType /\ b.phase = "done" /\ b.memory = m /\ b.outcome # "committed"
  <2>1. o \in {"POLICY_DENIED", "STALE_SOURCE"}
    OBVIOUS
  <2> HIDE DEF o
  <2>2. QED
    BY <1>1, <2>1 DEF SessionType
<1>6. sessions' = [sessions EXCEPT ![i] = IF Usable(m) THEN a ELSE b]
  BY DEF CommitIfFresh
<1> HIDE DEF a, b
<1>7. SessionOK(i, a) /\ SessionOK(i, b)
  BY <1>3, <1>4, <1>5 DEF SessionOK
<1>8. QED
  BY <1>4, <1>5, <1>6, <1>7, SessionMoves DEF CommitIfFresh

LEMMA ConditionalActionStep ==
  ASSUME ActionsInv, NEW i \in Sessions, ConditionalAction(i)
  PROVE  ActionsInv'
<1> UNCHANGED <<tool, stableIds, records>>
  BY DEF ConditionalAction
<1> DEFINE s == sessions[i]
<1>1. s \in SessionType /\ s.phase = "committing" /\ SessionOK(i, s)
  BY DEF ConditionalAction, ActionsInv, TypeOK, SessionsInv
<1>2. s.outcome # "committed" /\ records[s.memory].status # "none"
      /\ s.version = records[s.memory].version
  BY <1>1 DEF SessionOK
<1>3. ASSUME NEW o \in {"committed", "VALIDATION_UNAVAILABLE", "STALE_SOURCE"},
             sessions' = [sessions EXCEPT ![i].phase = "done", ![i].outcome = o]
      PROVE  \E t \in SessionType :
               /\ sessions' = [sessions EXCEPT ![i] = t]
               /\ t.phase = "done" /\ t.outcome = o /\ t.memory = s.memory
  <2> DEFINE t == [s EXCEPT !.phase = "done", !.outcome = o]
  <2>1. t \in SessionType /\ t.phase = "done" /\ t.outcome = o /\ t.memory = s.memory
    BY <1>1 DEF SessionType
  <2>2. sessions' = [sessions EXCEPT ![i] = t]
    BY <1>3 DEF ActionsInv, TypeOK
  <2> HIDE DEF t
  <2>3. QED
    BY <2>1, <2>2
<1>4. CASE /\ Writes(i, "none", s.version, "none")
           /\ \E o \in {"committed", "VALIDATION_UNAVAILABLE"} :
                sessions' = [sessions EXCEPT ![i].phase = "done", ![i].outcome = o]
  <2> DEFINE x == [by |-> i, key |-> "none", version |-> s.version, action |-> "none"]
  <2>1. effects' = effects \cup {x} /\ version' \in Versions
    BY <1>4 DEF Writes, ActionsInv, TypeOK
  <2>2. x.by = i /\ x.key = "none" /\ x.version = s.version
    OBVIOUS
  <2> HIDE DEF x
  <2>3. PICK t \in SessionType :
               /\ sessions' = [sessions EXCEPT ![i] = t]
               /\ t.phase = "done" /\ t.memory = s.memory
    BY <1>3, <1>4
  <2>4. TypeOK'
    BY <2>1, <2>3 DEF ActionsInv, TypeOK, tool
  <2>5. EntriesInv' /\ CallbacksInv' /\ EffectsInv' /\ AgentsInv'
    BY <2>1, <2>2, ToolsUntouched
  <2>6. SessionOK(i, t)'
    BY <1>2, <2>1, <2>2, <2>3 DEF SessionOK
  <2>7. ASSUME NEW j \in Sessions PROVE SessionOK(j, sessions[j])'
    <3>1. CASE j = i
      <4>1. sessions'[j] = t
        BY <2>3, <3>1 DEF ActionsInv, TypeOK
      <4>2. QED
        BY <2>6, <3>1, <4>1 DEF SessionOK
    <3>2. CASE j # i
      <4>1. sessions'[j] = sessions[j] /\ SessionOK(j, sessions[j])
        BY <2>3, <3>2 DEF ActionsInv, TypeOK, SessionsInv
      <4>2. QED
        BY <2>1, <4>1 DEF SessionOK
    <3>3. QED
      BY <3>1, <3>2
  <2>8. QED
    BY <2>4, <2>5, <2>7 DEF ActionsInv, SessionsInv
<1>5. CASE /\ UNCHANGED source
           /\ sessions' = [sessions EXCEPT ![i].phase = "done", ![i].outcome = "STALE_SOURCE"]
  <2>1. PICK t \in SessionType :
               /\ sessions' = [sessions EXCEPT ![i] = t]
               /\ t.phase = "done" /\ t.outcome = "STALE_SOURCE" /\ t.memory = s.memory
    BY <1>3, <1>5
  <2>2. SessionOK(i, t)
    BY <1>2, <2>1 DEF SessionOK
  <2>3. QED
    BY <1>5, <2>1, <2>2, SessionMoves
<1>6. QED
  BY <1>4, <1>5 DEF ConditionalAction

LEMMA RuntimeStep ==
  ASSUME ActionsInv, Signal \/ \E m \in Memories : SessionRevalidate(m)
  PROVE  ActionsInv'
<1> UNCHANGED <<source, tool, stableIds, sessions>>
  BY DEF Signal, SessionRevalidate
<1>1. ASSUME NEW m \in Memories, NEW status \in {"FRESH", "STALE", "INVALID", "UNKNOWN"}
      PROVE  LET r == [records[m] EXCEPT !.status = status]
             IN  r \in RecordType /\ r.status # "none" /\ r.version = records[m].version
  BY DEF ActionsInv, TypeOK, RecordType
<1>2. CASE Signal
  <2>1. \A m \in Memories : /\ records'[m] \in RecordType
                            /\ records[m].status # "none" =>
                                 /\ records'[m].status # "none"
                                 /\ records'[m].version = records[m].version
    BY <1>1, <1>2 DEF Signal, ActionsInv, TypeOK
  <2>2. records' \in [Memories -> RecordType]
    BY <1>2, <2>1 DEF Signal
  <2>3. QED
    BY <2>1, <2>2, RecordsKeep
<1>3. ASSUME NEW m \in Memories, SessionRevalidate(m) PROVE ActionsInv'
  <2>1. PICK status \in {"FRESH", "INVALID", "UNKNOWN"} :
          records' = [records EXCEPT ![m].status = status]
    BY <1>3 DEF SessionRevalidate
  <2> DEFINE r == [records[m] EXCEPT !.status = status]
  <2>2. r \in RecordType /\ r.status # "none" /\ r.version = records[m].version
    BY <1>1
  <2>3. records' = [records EXCEPT ![m] = r]
    BY <2>1
  <2> HIDE DEF r
  <2>4. /\ records' \in [Memories -> RecordType]
        /\ \A n \in Memories : records[n].status # "none" =>
             records'[n].status # "none" /\ records'[n].version = records[n].version
    BY <2>2, <2>3 DEF ActionsInv, TypeOK
  <2>5. QED
    BY <2>4, RecordsKeep
<1>4. QED
  BY <1>2, <1>3

LEMMA NextActionsInv == ActionsInv /\ [Next]_vars => ActionsInv'
<1> SUFFICES ASSUME ActionsInv, [Next]_vars PROVE ActionsInv'
  OBVIOUS
<1>1. ASSUME UNCHANGED <<effects, tool, session>>, version' \in Versions PROVE ActionsInv'
  <2> UNCHANGED <<agents, entries, inFlight, callbacks, stableIds, records, sessions>>
    BY <1>1 DEF tool, session
  <2>1. EntriesInv' /\ CallbacksInv' /\ EffectsInv' /\ AgentsInv'
    BY <1>1, ToolsUntouched
  <2>2. TypeOK' /\ SessionsInv'
    BY <1>1 DEF ActionsInv, TypeOK, SessionsInv, SessionOK
  <2>3. QED
    BY <2>1, <2>2 DEF ActionsInv
<1>2. CASE UNCHANGED vars
  BY <1>1, <1>2 DEF vars, source, ActionsInv, TypeOK
<1>3. CASE SourceChanges
  <2>1. version' \in Versions
    BY <1>3, ActionsAssumption DEF SourceChanges, ActionsInv, TypeOK, Versions
  <2>2. QED
    BY <1>1, <1>3, <2>1 DEF SourceChanges
<1>4. ASSUME NEW i \in Agents,
             \/ \E p \in Tools : Check(i, p)
             \/ Revalidate(i) \/ Again(i)
             \/ \E k \in Keys, d \in Actions : Act(i, k, d)
      PROVE  ActionsInv'
  BY <1>4, CheckStep, RevalidateStep, AgainStep, ActStep
<1>5. ASSUME NEW c \in callbacks, CallbackWrites(c) \/ CallbackAnswers(c) PROVE ActionsInv'
  BY <1>5, CallbackWritesStep, CallbackAnswersStep
<1>6. ASSUME NEW f \in inFlight, GivesUp(f) PROVE ActionsInv'
  BY <1>6, GivesUpStep
<1>7. ASSUME NEW p \in Tools, Restart(p) PROVE ActionsInv'
  BY <1>7, RestartStep
<1>8. ASSUME NEW s \in Sessions,
             Observe(s) \/ CommitIfFresh(s) \/ ConditionalAction(s) \/ AgainSession(s)
      PROVE  ActionsInv'
  <2>1. CASE AgainSession(s)
    <3>1. NoSession \in SessionType /\ SessionOK(s, NoSession)
      BY ActionsAssumption DEF NoSession, SessionType, SessionOK, Memories
    <3>2. QED
      BY <2>1, <3>1, SessionMoves DEF AgainSession
  <2>2. QED
    BY <1>8, <2>1, ObserveStep, CommitIfFreshStep, ConditionalActionStep
<1>9. CASE Signal \/ \E m \in Memories : SessionRevalidate(m)
  BY <1>9, RuntimeStep
<1>10. QED
  BY <1>2, <1>3, <1>4, <1>5, <1>6, <1>7, <1>8, <1>9 DEF Next

(* The invariant of tools and sessions holds in every reachable state. *)
THEOREM ActionsInvariance == Spec => []ActionsInv
<1>1. QED
  BY InitActionsInv, NextActionsInv, PTL DEF Spec

(* A key has at most one effect on the source, for any number of tools     *)
(* that share the store and whatever times out, throws late or restarts    *)
(* (guarded-tools.ts).                                                     *)
THEOREM KeyHasOneEffectTheorem == Spec => []KeyHasOneEffect
<1>1. ActionsInv => KeyHasOneEffect
  BY DEF ActionsInv, EffectsInv
<1>2. QED
  BY <1>1, ActionsInvariance, PTL

(* Only UNKNOWN leaves open what happened: APPLIED and committed were      *)
(* done, REJECTED and VERSION_MISMATCH were not and will not be            *)
(* (guarded-tools.ts, session.ts).                                         *)
THEOREM DefiniteAnswersAreTrueTheorem == Spec => []DefiniteAnswersAreTrue
<1>1. QED
  BY InvAnswers, ActionsInvariance, PTL

-----------------------------------------------------------------------------
(***************************************************************************)
(* ContextEngine.select, for every list of candidates and every limit.     *)
(*                                                                         *)
(* The loops of the code are folds.  The library defines a fold by a       *)
(* recursive function over sets of places; such a function exists and is   *)
(* the end of a run that takes one step per place, and along a run what    *)
(* every step keeps is kept.  On that rest, in the order of the code: the  *)
(* chunks of a text, the sources and their hierarchy, the units, the ones  *)
(* that are kept, their order, and the loop that takes them.               *)
(***************************************************************************)

(* Among natural numbers one is the least.                                 *)
LEMMA LeastNat ==
  ASSUME NEW Z \in SUBSET Nat, Z # {}
  PROVE  \E x \in Z : \A y \in Z : x <= y
<1>1. PICK R : R = OpToRel(<, Nat)
  OBVIOUS
<1>2. IsWellFoundedOn(R, Nat)
  BY <1>1, NatLessThanWellFounded
<1>3. \A x, y \in Nat : y < x => <<y, x>> \in R
  BY <1>1 DEF OpToRel
<1>4. PICK x \in Z : \A y \in Z : ~(<<y, x>> \in R)
  BY <1>2, WFMin
<1>5. ASSUME NEW y \in Z PROVE x <= y
  <2>1. ~(<<y, x>> \in R)
    BY <1>4
  <2>2. ~(y < x)
    BY <2>1, <1>3
  <2> QED
    BY <2>2
<1> QED
  BY <1>5

(* A set with 0 in it that is closed under the next number holds them all: *)
(* the least number outside would follow one inside.                       *)
LEMMA InductionOverNat ==
  ASSUME NEW S, 0 \in S, \A n \in Nat : n \in S => n + 1 \in S
  PROVE  Nat \subseteq S
<1> SUFFICES ASSUME NEW m \in Nat, m \notin S PROVE FALSE
  OBVIOUS
<1>1. PICK x \in Nat \ S : \A y \in Nat \ S : x <= y
  BY LeastNat
<1>2. x # 0 /\ x - 1 \in Nat
  BY <1>1
<1>3. x - 1 \in S
  BY <1>1, <1>2
<1>4. x \in S
  BY <1>2, <1>3
<1> QED
  BY <1>1, <1>4

(* The largest of the first naturals.                                      *)
LEMMA MaxIs ==
  ASSUME NEW n \in Nat, NEW s \in SUBSET (1 .. n), n \in s
  PROVE  Max(s) = n
<1>1. \A x \in s : (\A y \in s : x >= y) => x = n
  OBVIOUS
<1>2. \A y \in s : n >= y
  OBVIOUS
<1> QED
  BY <1>1, <1>2 DEF Max

(* The largest of some of the first naturals is one of them.               *)
LEMMA MaxIn ==
  ASSUME NEW n \in Nat, NEW s \in SUBSET (1 .. n), s # {}
  PROVE  Max(s) \in s /\ Max(s) \in 1 .. n
<1> DEFINE Z == {k \in Nat : \A y \in s : y <= k}
<1>1. n \in Z
  OBVIOUS
<1>2. PICK m \in Z : \A k \in Z : m <= k
  BY <1>1, LeastNat
<1>3. m \in s
  <2> SUFFICES ASSUME m \notin s PROVE FALSE
    OBVIOUS
  <2>1. \A y \in s : y \in Nat /\ y <= m /\ y # m /\ y >= 1
    BY <1>2
  <2>2. PICK y \in s : TRUE
    OBVIOUS
  <2>3. m - 1 \in Nat /\ \A z \in s : z <= m - 1
    BY <2>1, <2>2
  <2>4. m - 1 \in Z
    BY <2>3
  <2> QED
    BY <1>2, <2>4
<1>4. m \in s /\ \A y \in s : m >= y
  BY <1>2, <1>3
<1> QED
  BY <1>4 DEF Max

(* What holds at the base and is kept by every step holds along a run.     *)
LEMMA RunTyped ==
  ASSUME NEW S, NEW N \in Nat, NEW run, run[0] \in S,
         \A n \in 1 .. N : run[n - 1] \in S => run[n] \in S
  PROVE  \A n \in 0 .. N : run[n] \in S
<1> DEFINE Good == {k \in Nat : k <= N => run[k] \in S}
<1>1. 0 \in Good
  OBVIOUS
<1>2. ASSUME NEW k \in Nat, k \in Good PROVE k + 1 \in Good
  <2>1. CASE k + 1 <= N
    <3>1. PICK m \in 1 .. N : m = k + 1
      BY <2>1
    <3>2. m - 1 = k /\ run[k] \in S
      BY <1>2, <3>1
    <3> QED
      BY <3>1, <3>2
  <2> QED
    BY <2>1
<1> HIDE DEF Good
<1>3. Nat \subseteq Good
  BY <1>1, <1>2, InductionOverNat
<1> QED
  BY <1>3 DEF Good

(* The places up to one of them.                                           *)
LEMMA FirstPlaces ==
  ASSUME NEW N \in Nat, NEW n \in 1 .. N
  PROVE  /\ 1 .. n \in SUBSET (1 .. N) /\ 1 .. n # {} /\ n \in 1 .. n /\ n \in Nat
         /\ (1 .. n) \ {n} = 1 .. n - 1 /\ n \in 0 .. N /\ n - 1 \in 0 .. N
OBVIOUS

(* A fold over a set, which takes out pick[s] of what is left.             *)
IsFoldOf(g, S, D, base, step, pick) ==
  /\ g \in [SUBSET D -> S]
  /\ \A s \in SUBSET D :
       g[s] = IF s = {} THEN base ELSE step[g[s \ {pick[s]}]][pick[s]]

(* The recursive function that a fold over a finite set is defined by      *)
(* exists.                                                                 *)
LEMMA FoldExists ==
  ASSUME NEW S, NEW base \in S, NEW D, IsFiniteSet(D), NEW step \in [S -> [D -> S]],
         NEW pick, \A s \in SUBSET D : s # {} => pick[s] \in s
  PROVE  \E g : IsFoldOf(g, S, D, base, step, pick)
<1> DEFINE Small(n) == {s \in SUBSET D : Cardinality(s) <= n}
           Sol(n, g) == g \in [Small(n) -> S] /\
             \A s \in Small(n) :
               g[s] = IF s = {} THEN base ELSE step[g[s \ {pick[s]}]][pick[s]]
           Good == {n \in Nat : \E g : Sol(n, g)}
<1>0. \A s \in SUBSET D : IsFiniteSet(s) /\ Cardinality(s) \in Nat
  BY FS_Subset, FS_CardinalityType
<1>1. 0 \in Good
  <2>1. \A s \in Small(0) : s = {}
    <3>1. ASSUME NEW s \in Small(0) PROVE s = {}
      <4>1. Cardinality(s) = 0 /\ IsFiniteSet(s)
        BY <1>0, <3>1
      <4> QED
        BY <4>1, FS_EmptySet
    <3> QED
      BY <3>1
  <2> DEFINE g == [s \in Small(0) |-> base]
  <2>2. Sol(0, g)
    <3> HIDE DEF Small
    <3> QED
      BY <2>1
  <2> HIDE DEF g, Sol
  <2> QED
    BY <2>2
<1>2. ASSUME NEW n \in Nat, n \in Good PROVE n + 1 \in Good
  <2>1. PICK g : Sol(n, g)
    BY <1>2
  <2>2. PICK m \in Nat : m = n + 1
    OBVIOUS
  <2>3. \A s \in Small(n) : s \in Small(m)
    BY <2>2, <1>0
  <2>4. \A s \in Small(m) : s # {} =>
          /\ pick[s] \in D /\ s \ {pick[s]} \in Small(n)
    <3>1. ASSUME NEW s \in Small(m), s # {}
          PROVE  pick[s] \in D /\ s \ {pick[s]} \in Small(n)
      <4>1. pick[s] \in s /\ IsFiniteSet(s) /\ Cardinality(s) \in Nat
        BY <3>1, <1>0
      <4>2. Cardinality(s \ {pick[s]}) = Cardinality(s) - 1
        BY <4>1, FS_RemoveElement
      <4> QED
        BY <3>1, <4>1, <4>2, <2>2
    <3> QED
      BY <3>1
  <2> HIDE DEF Small
  <2>5. PICK h : h = [s \in Small(m) |->
                 IF s = {} THEN base ELSE step[g[s \ {pick[s]}]][pick[s]]]
    OBVIOUS
  <2>6. \A s \in Small(n) : h[s] = g[s]
    BY <2>1, <2>3, <2>5
  <2>7. h \in [Small(m) -> S]
    <3>1. ASSUME NEW s \in Small(m), s # {} PROVE step[g[s \ {pick[s]}]][pick[s]] \in S
      <4>1. g[s \ {pick[s]}] \in S /\ pick[s] \in D
        BY <2>1, <2>4, <3>1
      <4> QED
        BY <4>1
    <3> QED
      BY <3>1, <2>5
  <2>8. ASSUME NEW s \in Small(m)
        PROVE  h[s] = IF s = {} THEN base ELSE step[h[s \ {pick[s]}]][pick[s]]
    BY <2>4, <2>5, <2>6
  <2>9. Sol(m, h)
    BY <2>7, <2>8
  <2> HIDE DEF Sol
  <2> QED
    BY <2>9, <2>2
<1>3. PICK N \in Nat : N = Cardinality(D)
  BY FS_CardinalityType
<1>4. N \in Good
  <2> HIDE DEF Good
  <2> QED
    BY <1>1, <1>2, InductionOverNat
<1>5. Small(N) = SUBSET D
  BY <1>3, FS_Subset
<1>6. PICK g : Sol(N, g)
  BY <1>4
<1> HIDE DEF Small
<1>7. IsFoldOf(g, S, D, base, step, pick)
  BY <1>5, <1>6 DEF IsFoldOf
<1> QED
  BY <1>7

(* The fold of a sequence, on sets of places and place by place.           *)
IsPlaceFold(h, S, N, base, step) ==
  /\ N \in Nat /\ base \in S /\ step \in [S -> [1 .. N -> S]] /\ h[{}] = base
  /\ \A s \in SUBSET (1 .. N) :
       s # {} /\ h[s \ {Max(s)}] \in S => h[s] = step[h[s \ {Max(s)}]][Max(s)]

(* A run that ends in the fold.                                            *)
IsRunOf(run, h, S, N, base, step) ==
  /\ run \in [0 .. N -> S] /\ run[0] = base /\ run[N] = h[1 .. N]
  /\ \A n \in 1 .. N : run[n] = step[run[n - 1]][n]

(* A fold over places 1 .. N, largest first, is the end of a run of N      *)
(* steps.                                                                  *)
LEMMA FoldRun ==
  ASSUME NEW S, NEW N, NEW base, NEW step, NEW h, IsPlaceFold(h, S, N, base, step)
  PROVE  \E run : IsRunOf(run, h, S, N, base, step)
<1>0. /\ N \in Nat /\ base \in S /\ step \in [S -> [1 .. N -> S]] /\ h[{}] = base
      /\ \A s \in SUBSET (1 .. N) :
           s # {} /\ h[s \ {Max(s)}] \in S => h[s] = step[h[s \ {Max(s)}]][Max(s)]
  BY DEF IsPlaceFold
<1>1. PICK run : run = [n \in 0 .. N |-> h[1 .. n]]
  OBVIOUS
<1>2. \A n \in 0 .. N : run[n] = h[1 .. n]
  BY <1>1, <1>0
<1>3. run[0] = base
  <2>1. 1 .. 0 = {} /\ 0 \in 0 .. N
    BY <1>0
  <2> QED
    BY <2>1, <1>2, <1>0
<1>4. ASSUME NEW n \in 1 .. N, run[n - 1] \in S PROVE run[n] = step[run[n - 1]][n]
  <2>1. 1 .. n \in SUBSET (1 .. N) /\ 1 .. n # {} /\ n \in 1 .. n /\ n \in Nat
    BY <1>0, FirstPlaces
  <2>2. Max(1 .. n) = n
    BY <2>1, MaxIs
  <2>3. (1 .. n) \ {n} = 1 .. n - 1 /\ n \in 0 .. N /\ n - 1 \in 0 .. N
    BY <1>0, FirstPlaces
  <2>4. h[1 .. n - 1] = run[n - 1] /\ h[1 .. n] = run[n]
    BY <1>2, <2>3
  <2> QED
    BY <2>1, <2>2, <2>3, <2>4, <1>0, <1>4, Zenon
<1>5. \A n \in 0 .. N : run[n] \in S
  <2>1. \A n \in 1 .. N : run[n - 1] \in S => run[n] \in S
    <3>1. ASSUME NEW n \in 1 .. N, run[n - 1] \in S PROVE run[n] \in S
      <4>1. step[run[n - 1]][n] \in S
        BY <3>1, <1>0
      <4> QED
        BY <4>1, <1>4, <3>1
    <3> QED
      BY <3>1
  <2> QED
    BY <2>1, <1>0, <1>3, RunTyped
<1>6. run \in [0 .. N -> S]
  BY <1>1, <1>2, <1>5
<1>7. \A n \in 1 .. N : run[n] = step[run[n - 1]][n]
  <2>1. ASSUME NEW n \in 1 .. N PROVE run[n] = step[run[n - 1]][n]
    <3>1. n - 1 \in 0 .. N
      BY <1>0
    <3> QED
      BY <3>1, <1>4, <1>5
  <2> QED
    BY <2>1
<1>8. run[N] = h[1 .. N]
  BY <1>0, <1>2
<1> QED
  BY <1>3, <1>6, <1>7, <1>8 DEF IsRunOf

(* The letters of a text and the blanks between its words.                 *)
IsCharsRun(run, S, N, text) ==
  /\ run \in [0 .. N -> S] /\ run[0] = Len(text) - 1 /\ run[N] = Chars(text)
  /\ \A n \in 1 .. N : run[n] = run[n - 1] + text[n]

(* Chars (defaultTokenEstimator reads the length of a text) is the end of  *)
(* such a run.                                                             *)
LEMMA CharsRun ==
  ASSUME NEW text \in Texts, text # <<>>,
         NEW N \in Nat, N = Len(text), NEW S, Len(text) - 1 \in S,
         \A x \in S, n \in 1 .. N : x + text[n] \in S
  PROVE  \E run : IsCharsRun(run, S, N, text)
<1>1. DOMAIN text = 1 .. N
  BY DEF Texts
<1>2. PICK step : step = [x \in S |-> [n \in 1 .. N |-> x + text[n]]]
  OBVIOUS
<1>3. \A x \in S, n \in 1 .. N : step[x][n] = x + text[n]
  BY <1>2, Zenon
<1>4. step \in [S -> [1 .. N -> S]]
  <2>1. ASSUME NEW x \in S PROVE step[x] \in [1 .. N -> S]
    <3>1. step[x] = [n \in 1 .. N |-> x + text[n]]
      BY <1>2, Zenon
    <3> QED
      BY <3>1
  <2> QED
    BY <1>2, <2>1
<1>5. PICK start \in S : start = Len(text) - 1
  OBVIOUS
<1> DEFINE IsFold(f) == f = [s \in SUBSET DOMAIN text |->
             IF s = {} THEN Len(text) - 1
             ELSE f[s \ {Max(s)}] + text[Max(s)]]
<1>6. \E h : IsFold(h)
  <2>1. PICK pick : pick = [s \in SUBSET (1 .. N) |-> Max(s)]
    OBVIOUS
  <2>2. \A s \in SUBSET (1 .. N) : s # {} => pick[s] \in s
    BY <2>1, MaxIn
  <2>3. PICK g : IsFoldOf(g, S, 1 .. N, start, step, pick)
    <3>1. IsFiniteSet(1 .. N)
      BY FS_Interval
    <3> QED
      BY <3>1, <2>2, <1>4, FoldExists, Zenon
  <2>4. PICK h : h = [s \in SUBSET DOMAIN text |->
                   IF s = {} THEN Len(text) - 1 ELSE g[s \ {Max(s)}] + text[Max(s)]]
    OBVIOUS
  <2>5. ASSUME NEW s \in SUBSET (1 .. N) PROVE h[s] = g[s]
    <3>1. h[s] = IF s = {} THEN Len(text) - 1 ELSE g[s \ {Max(s)}] + text[Max(s)]
      BY <2>4, <1>1, Zenon
    <3>2. CASE s # {}
      <4>1. pick[s] = Max(s) /\ Max(s) \in 1 .. N
        BY <3>2, <2>1, MaxIn
      <4>2. PICK x \in S, n \in 1 .. N : x = g[s \ {Max(s)}] /\ n = Max(s)
        BY <2>3, <4>1 DEF IsFoldOf
      <4>3. g[s] = step[x][n]
        BY <2>3, <3>2, <4>1, <4>2, Zenon DEF IsFoldOf
      <4> QED
        BY <1>3, <4>2, <4>3, <3>1, <3>2, Zenon
    <3>3. CASE s = {}
      BY <2>3, <3>1, <3>3, <1>5, Zenon DEF IsFoldOf
    <3> QED
      BY <3>2, <3>3
  <2>6. h = g
    BY <2>3, <2>4, <2>5, <1>1 DEF IsFoldOf
  <2> QED
    BY <2>4, <2>6, Zenon
<1>7. PICK h : h = CHOOSE f : IsFold(f)
  OBVIOUS
<1>8. IsFold(h)
  <2> HIDE DEF IsFold
  <2> QED
    BY <1>6, <1>7
<1>9. Chars(text) = h[1 .. N]
  BY <1>1, <1>7, Zenon DEF Chars, FoldLeft, MapThenFoldSet, Plus
<1>10. \A s \in SUBSET (1 .. N) :
         h[s] = IF s = {} THEN Len(text) - 1 ELSE h[s \ {Max(s)}] + text[Max(s)]
  BY <1>8, <1>1, Zenon
<1>11. h[{}] = start
  <2>1. {} \in SUBSET (1 .. N)
    OBVIOUS
  <2> QED
    BY <2>1, <1>5, <1>10, Zenon
<1>12. \A s \in SUBSET (1 .. N) :
         s # {} /\ h[s \ {Max(s)}] \in S => h[s] = step[h[s \ {Max(s)}]][Max(s)]
  <2>1. ASSUME NEW s \in SUBSET (1 .. N), s # {}, h[s \ {Max(s)}] \in S
        PROVE  h[s] = step[h[s \ {Max(s)}]][Max(s)]
    <3>1. PICK x \in S, n \in 1 .. N : x = h[s \ {Max(s)}] /\ n = Max(s)
      BY <2>1, MaxIn
    <3> QED
      BY <1>3, <1>10, <2>1, <3>1, Zenon
  <2> QED
    BY <2>1
<1> HIDE DEF IsFold
<1>13. PICK run : IsRunOf(run, h, S, N, start, step)
  <2>1. IsPlaceFold(h, S, N, start, step)
    BY <1>4, <1>11, <1>12 DEF IsPlaceFold
  <2> QED
    BY <2>1, FoldRun
<1>14. /\ run \in [0 .. N -> S] /\ run[0] = start /\ run[N] = h[1 .. N]
       /\ \A n \in 1 .. N : run[n] = step[run[n - 1]][n]
  BY <1>13 DEF IsRunOf
<1>15. ASSUME NEW n \in 1 .. N PROVE run[n] = run[n - 1] + text[n]
  <2>1. PICK x \in S : x = run[n - 1]
    BY <1>14, FirstPlaces
  <2> QED
    BY <1>3, <1>14, <2>1, Zenon
<1> QED
  BY <1>5, <1>9, <1>14, <1>15 DEF IsCharsRun

(* The words of a text, joined one by one.                                 *)
IsChunkRun(run, S, N, text, max) ==
  /\ run \in [0 .. N -> S] /\ run[0] = [chunks |-> <<>>, current |-> <<>>]
  /\ run[N] = ChunkEnd(text, max)
  /\ \A n \in 1 .. N : run[n] = Joined(max, run[n - 1], text[n])

(* ChunkEnd, the state chunkText ends in, is the end of such a run.        *)
LEMMA ChunkRun ==
  ASSUME NEW text \in Texts, NEW max,
         NEW N \in Nat, N = Len(text), NEW S, [chunks |-> <<>>, current |-> <<>>] \in S,
         \A x \in S, n \in 1 .. N : Joined(max, x, text[n]) \in S
  PROVE  \E run : IsChunkRun(run, S, N, text, max)
<1>1. DOMAIN text = 1 .. N
  BY DEF Texts
<1>2. PICK step : step = [x \in S |-> [n \in 1 .. N |-> Joined(max, x, text[n])]]
  OBVIOUS
<1>3. \A x \in S, n \in 1 .. N : step[x][n] = Joined(max, x, text[n])
  BY <1>2, Zenon
<1>4. step \in [S -> [1 .. N -> S]]
  <2>1. ASSUME NEW x \in S PROVE step[x] \in [1 .. N -> S]
    <3>1. step[x] = [n \in 1 .. N |-> Joined(max, x, text[n])]
      BY <1>2, Zenon
    <3> QED
      BY <3>1
  <2> QED
    BY <1>2, <2>1
<1>5. PICK start \in S : start = [chunks |-> <<>>, current |-> <<>>]
  OBVIOUS
<1> DEFINE IsFold(f) == f = [s \in SUBSET DOMAIN text |->
             IF s = {} THEN [chunks |-> <<>>, current |-> <<>>]
             ELSE Joined(max, f[s \ {Max(s)}], text[Max(s)])]
<1>6. \E h : IsFold(h)
  <2>1. PICK pick : pick = [s \in SUBSET (1 .. N) |-> Max(s)]
    OBVIOUS
  <2>2. \A s \in SUBSET (1 .. N) : s # {} => pick[s] \in s
    BY <2>1, MaxIn
  <2>3. PICK g : IsFoldOf(g, S, 1 .. N, start, step, pick)
    <3>1. IsFiniteSet(1 .. N)
      BY FS_Interval
    <3> QED
      BY <3>1, <2>2, <1>4, FoldExists, Zenon
  <2>4. PICK h : h = [s \in SUBSET DOMAIN text |->
                   IF s = {} THEN [chunks |-> <<>>, current |-> <<>>]
                   ELSE Joined(max, g[s \ {Max(s)}], text[Max(s)])]
    OBVIOUS
  <2>5. ASSUME NEW s \in SUBSET (1 .. N) PROVE h[s] = g[s]
    <3>1. h[s] = IF s = {} THEN [chunks |-> <<>>, current |-> <<>>]
                 ELSE Joined(max, g[s \ {Max(s)}], text[Max(s)])
      BY <2>4, <1>1, Zenon
    <3>2. CASE s # {}
      <4>1. pick[s] = Max(s) /\ Max(s) \in 1 .. N
        BY <3>2, <2>1, MaxIn
      <4>2. PICK x \in S, n \in 1 .. N : x = g[s \ {Max(s)}] /\ n = Max(s)
        BY <2>3, <4>1 DEF IsFoldOf
      <4>3. g[s] = step[x][n]
        BY <2>3, <3>2, <4>1, <4>2, Zenon DEF IsFoldOf
      <4> QED
        BY <1>3, <4>2, <4>3, <3>1, <3>2, Zenon
    <3>3. CASE s = {}
      BY <2>3, <3>1, <3>3, <1>5, Zenon DEF IsFoldOf
    <3> QED
      BY <3>2, <3>3
  <2>6. h = g
    BY <2>3, <2>4, <2>5, <1>1 DEF IsFoldOf
  <2> QED
    BY <2>4, <2>6, Zenon
<1>7. PICK h : h = CHOOSE f : IsFold(f)
  OBVIOUS
<1>8. IsFold(h)
  <2> HIDE DEF IsFold
  <2> QED
    BY <1>6, <1>7
<1>9. ChunkEnd(text, max) = h[1 .. N]
  BY <1>1, <1>7, Zenon DEF ChunkEnd, FoldLeft, MapThenFoldSet
<1>10. \A s \in SUBSET (1 .. N) :
         h[s] = IF s = {} THEN [chunks |-> <<>>, current |-> <<>>]
                ELSE Joined(max, h[s \ {Max(s)}], text[Max(s)])
  BY <1>8, <1>1, Zenon
<1>11. h[{}] = start
  <2>1. {} \in SUBSET (1 .. N)
    OBVIOUS
  <2> QED
    BY <2>1, <1>5, <1>10, Zenon
<1>12. \A s \in SUBSET (1 .. N) :
         s # {} /\ h[s \ {Max(s)}] \in S => h[s] = step[h[s \ {Max(s)}]][Max(s)]
  <2>1. ASSUME NEW s \in SUBSET (1 .. N), s # {}, h[s \ {Max(s)}] \in S
        PROVE  h[s] = step[h[s \ {Max(s)}]][Max(s)]
    <3>1. PICK x \in S, n \in 1 .. N : x = h[s \ {Max(s)}] /\ n = Max(s)
      BY <2>1, MaxIn
    <3> QED
      BY <1>3, <1>10, <2>1, <3>1, Zenon
  <2> QED
    BY <2>1
<1> HIDE DEF IsFold
<1>13. PICK run : IsRunOf(run, h, S, N, start, step)
  <2>1. IsPlaceFold(h, S, N, start, step)
    BY <1>4, <1>11, <1>12 DEF IsPlaceFold
  <2> QED
    BY <2>1, FoldRun
<1>14. /\ run \in [0 .. N -> S] /\ run[0] = start /\ run[N] = h[1 .. N]
       /\ \A n \in 1 .. N : run[n] = step[run[n - 1]][n]
  BY <1>13 DEF IsRunOf
<1>15. ASSUME NEW n \in 1 .. N PROVE run[n] = Joined(max, run[n - 1], text[n])
  <2>1. PICK x \in S : x = run[n - 1]
    BY <1>14, FirstPlaces
  <2> QED
    BY <1>3, <1>14, <2>1, Zenon
<1> QED
  BY <1>5, <1>9, <1>14, <1>15 DEF IsChunkRun

(* A text has a number of tokens.                                          *)
LEMMA TokensAreNat ==
  ASSUME NEW text \in Texts
  PROVE  Chars(text) \in Nat /\ Tokens(text) \in Nat
<1>1. Chars(text) \in Nat
  <2>1. CASE text = <<>>
    BY <2>1 DEF Chars
  <2>2. CASE text # <<>>
    <3>1. PICK N \in Nat : N = Len(text)
      BY DEF Texts
    <3>2. N - 1 \in Nat /\ \A x \in Nat, n \in 1 .. N : x + text[n] \in Nat
      BY <3>1, <2>2 DEF Texts
    <3>3. PICK run : IsCharsRun(run, Nat, N, text)
      BY <3>1, <3>2, <2>2, CharsRun
    <3> QED
      BY <3>3 DEF IsCharsRun
  <2> QED
    BY <2>1, <2>2
<1> QED
  BY <1>1 DEF Tokens

(* A word alone.                                                           *)
LEMMA TokensOfWord ==
  ASSUME NEW w \in Nat
  PROVE  <<w>> \in Texts /\ Tokens(<<w>>) = (w + 3) \div 4
<1>1. <<w>> \in Texts
  BY DEF Texts
<1>2. PICK text \in Texts : text = <<w>>
  BY <1>1
<1>3. Len(text) = 1 /\ text[1] = w /\ text # <<>>
  BY <1>2
<1>4. PICK run \in [0 .. 1 -> Nat] :
        /\ run[0] = Len(text) - 1 /\ run[1] = Chars(text)
        /\ \A n \in 1 .. 1 : run[n] = run[n - 1] + text[n]
  <2>1. PICK N \in Nat : N = Len(text) /\ N = 1
    BY <1>3
  <2>2. Len(text) - 1 \in Nat /\ \A x \in Nat, n \in 1 .. N : x + text[n] \in Nat
    BY <1>3, <2>1
  <2>3. PICK run : IsCharsRun(run, Nat, N, text)
    BY <1>3, <2>1, <2>2, CharsRun
  <2> QED
    BY <2>1, <2>3 DEF IsCharsRun
<1>5. run[0] = 0 /\ run[1] = run[0] + text[1]
  BY <1>3, <1>4
<1>6. Chars(text) = w
  BY <1>3, <1>4, <1>5
<1> QED
  BY <1>2, <1>6 DEF Tokens

(* No text.                                                                *)
LEMMA TokensOfNone == <<>> \in Texts /\ Tokens(<<>>) = 0
  BY DEF Texts, Tokens, Chars

(* The texts that fit into a chunk.                                        *)
Chunks(max) == {t \in Texts : Tokens(t) <= max}

(* The parts of a word are as long as a chunk may be.                      *)
LEMMA SplitFits ==
  ASSUME NEW word \in Nat, NEW max \in Nat \ {0}
  PROVE  SplitOversizedWord(word, max) \in Seq(Chunks(max))
<1>1. PICK d \in Nat \ {0} : d = 4 * max
  OBVIOUS
<1>2. PICK q \in Nat : q = (word + d - 1) \div d /\ \A i \in 1 .. q : (i - 1) * d <= word
  <2>1. PICK a \in Nat : a = word + d - 1
    OBVIOUS
  <2>2. PICK q \in Nat : q = a \div d /\ d * q <= a
    <3>1. a \div d \in Nat /\ d * (a \div d) <= a
      OBVIOUS
    <3> QED
      BY <3>1
  <2>3. ASSUME NEW i \in 1 .. q PROVE (i - 1) * d <= word
    <3>1. PICK k \in Nat : q = i + k
      <4>1. q - i \in Nat /\ q = i + (q - i)
        OBVIOUS
      <4> QED
        BY <4>1
    <3>2. d * q = d * i + d * k /\ d * k >= 0 /\ (i - 1) * d = d * i - d
      BY <3>1
    <3>3. d * i <= a
      BY <3>2, <2>2
    <3> QED
      BY <3>2, <3>3, <2>1
  <2> QED
    BY <2>1, <2>2, <2>3
<1>3. ASSUME NEW i \in 1 .. q
      PROVE  <<Min({4 * max, word - (i - 1) * 4 * max})>> \in Chunks(max)
  <2>1. PICK rest \in Nat : rest = word - (i - 1) * 4 * max
    <3>1. (i - 1) * 4 * max = (i - 1) * d
      BY <1>1
    <3>2. (i - 1) * d <= word /\ (i - 1) * d \in Nat
      BY <1>2
    <3>3. word - (i - 1) * d \in Nat
      BY <3>2
    <3> QED
      BY <3>1, <3>3
  <2>2. PICK w \in Nat : w = Min({d, rest}) /\ w <= d
    <3>1. \E w \in {d, rest} : \A y \in {d, rest} : w <= y
      OBVIOUS
    <3>2. Min({d, rest}) \in {d, rest} /\ \A y \in {d, rest} : Min({d, rest}) <= y
      BY <3>1 DEF Min
    <3> QED
      BY <3>2
  <2>3. <<w>> \in Texts /\ Tokens(<<w>>) = (w + 3) \div 4
    BY TokensOfWord
  <2>4. (w + 3) \div 4 <= max
    BY <2>2, <1>1
  <2> QED
    BY <1>1, <2>1, <2>2, <2>3, <2>4 DEF Chunks
<1>4. SplitOversizedWord(word, max)
        = [i \in 1 .. q |-> <<Min({4 * max, word - (i - 1) * 4 * max})>>]
  BY <1>1, <1>2 DEF SplitOversizedWord
<1>5. PICK parts : parts = [i \in 1 .. q |-> <<Min({4 * max, word - (i - 1) * 4 * max})>>]
  OBVIOUS
<1>6. PICK X : X = Chunks(max)
  OBVIOUS
<1>7. \A i \in 1 .. q : parts[i] \in X
  BY <1>3, <1>5, <1>6
<1>8. parts = [i \in 1 .. q |-> parts[i]]
  BY <1>5
<1>9. parts \in Seq(X)
  BY <1>7, <1>8
<1> QED
  BY <1>4, <1>5, <1>6, <1>9

(* What chunkText returns fits into a chunk.                               *)
LEMMA ChunkTextFits ==
  ASSUME NEW text \in Texts, NEW max \in Nat \ {0}
  PROVE  ChunkText(text, max) \in Seq(Chunks(max))
<1>1. PICK X : X = Chunks(max)
  OBVIOUS
<1>2. PICK S : S = [chunks : Seq(X), current : X]
  OBVIOUS
<1>3. <<>> \in X
  BY <1>1, TokensOfNone DEF Chunks
<1>4. [chunks |-> <<>>, current |-> <<>>] \in S
  BY <1>2, <1>3
<1>5. PICK N \in Nat : N = Len(text) /\ \A n \in 1 .. N : text[n] \in Nat
  BY DEF Texts
<1>6. ASSUME NEW x \in S, NEW word \in Nat PROVE Joined(max, x, word) \in S
  <2>1. x.chunks \in Seq(X) /\ x.current \in X /\ x.current \in Texts
    BY <1>1, <1>2 DEF Chunks
  <2>2. PICK closed \in Seq(X) :
          closed = IF x.current = <<>> THEN x.chunks ELSE Append(x.chunks, x.current)
    <3>1. Append(x.chunks, x.current) \in Seq(X)
      BY <2>1
    <3> QED
      BY <2>1, <3>1
  <2>3. PICK longer \in Texts : longer = Append(x.current, word)
    <3>1. Append(x.current, word) \in Texts
      BY <2>1 DEF Texts
    <3> QED
      BY <3>1
  <2>4. CASE Tokens(longer) <= max
    <3>1. longer \in X
      BY <1>1, <2>4 DEF Chunks
    <3>2. Joined(max, x, word) = [x EXCEPT !.current = longer]
      BY <2>3, <2>4, Zenon DEF Joined
    <3> QED
      BY <1>2, <3>1, <3>2
  <2>5. CASE ~(Tokens(longer) <= max) /\ Tokens(<<word>>) <= max
    <3>1. PICK alone \in X : alone = <<word>>
      BY <1>1, <2>5, TokensOfWord DEF Chunks
    <3>2. Joined(max, x, word) = [chunks |-> closed, current |-> alone]
      BY <2>2, <2>3, <2>5, <3>1, Zenon DEF Joined
    <3> QED
      BY <1>2, <3>1, <3>2
  <2>6. CASE ~(Tokens(longer) <= max) /\ ~(Tokens(<<word>>) <= max)
    <3>1. PICK split \in Seq(X) : split = SplitOversizedWord(word, max)
      BY <1>1, SplitFits
    <3>2. Joined(max, x, word) = [chunks |-> closed \o split, current |-> <<>>]
      BY <2>2, <2>3, <2>6, <3>1, Zenon DEF Joined
    <3>3. closed \o split \in Seq(X)
      OBVIOUS
    <3> QED
      BY <1>2, <1>3, <3>2, <3>3
  <2> QED
    BY <2>4, <2>5, <2>6
<1>7. PICK run : IsChunkRun(run, S, N, text, max)
  BY <1>4, <1>5, <1>6, ChunkRun
<1>8. PICK end \in S : end = ChunkEnd(text, max)
  BY <1>7 DEF IsChunkRun
<1>9. end.chunks \in Seq(X) /\ end.current \in X
  BY <1>2
<1>10. ChunkText(text, max) = IF end.current = <<>> THEN end.chunks
                              ELSE Append(end.chunks, end.current)
  BY <1>8, Zenon DEF ChunkText
<1> QED
  BY <1>1, <1>9, <1>10

(* Steps taken one after the other.                                        *)
AreSteps(c, S, N, base, step) ==
  c \in [0 .. N -> S] /\ c[0] = base /\ \A n \in 1 .. N : c[n] = step[c[n - 1]][n]

(* Steps from a given state can be taken one after the other.              *)
LEMMA StepsExist ==
  ASSUME NEW S, NEW base \in S, NEW N \in Nat, NEW step \in [S -> [1 .. N -> S]]
  PROVE  \E c : AreSteps(c, S, N, base, step)
<1>1. PICK pick : pick = [s \in SUBSET (1 .. N) |-> Max(s)]
  OBVIOUS
<1>2. \A s \in SUBSET (1 .. N) : s # {} => pick[s] \in s
  BY <1>1, MaxIn
<1>3. PICK g : IsFoldOf(g, S, 1 .. N, base, step, pick)
  <2>1. IsFiniteSet(1 .. N)
    BY FS_Interval
  <2> QED
    BY <2>1, <1>2, FoldExists, Zenon
<1>4. PICK c : c = [n \in 0 .. N |-> g[1 .. n]]
  OBVIOUS
<1>5. \A n \in 0 .. N : c[n] = g[1 .. n] /\ 1 .. n \in SUBSET (1 .. N)
  BY <1>4
<1>6. c \in [0 .. N -> S]
  BY <1>3, <1>4, <1>5 DEF IsFoldOf
<1>7. c[0] = base
  <2>1. 1 .. 0 = {} /\ 0 \in 0 .. N
    OBVIOUS
  <2> QED
    BY <1>3, <1>5, <2>1 DEF IsFoldOf
<1>8. ASSUME NEW n \in 1 .. N PROVE c[n] = step[c[n - 1]][n]
  <2>1. /\ 1 .. n \in SUBSET (1 .. N) /\ 1 .. n # {} /\ n \in 1 .. n /\ n \in Nat
        /\ (1 .. n) \ {n} = 1 .. n - 1 /\ n \in 0 .. N /\ n - 1 \in 0 .. N
    BY FirstPlaces
  <2>2. pick[1 .. n] = n
    BY <1>1, <2>1, MaxIs
  <2>3. g[1 .. n] = step[g[(1 .. n) \ {n}]][n]
    BY <1>3, <2>1, <2>2, Zenon DEF IsFoldOf
  <2> QED
    BY <1>5, <2>1, <2>3, Zenon
<1> QED
  BY <1>6, <1>7, <1>8 DEF AreSteps

(* What is strung together of sequences over a set is a sequence over it.  *)
LEMMA FlattenTyped ==
  ASSUME NEW X, NEW seqs \in Seq(Seq(X))
  PROVE  FlattenSeq(seqs) \in Seq(X)
<1>1. PICK N \in Nat : N = Len(seqs) /\ DOMAIN seqs = 1 .. N
  OBVIOUS
<1>2. \A n \in 1 .. N : seqs[n] \in Seq(X)
  BY <1>1
<1>3. CASE N = 0
  <2>1. seqs = <<>>
    BY <1>1, <1>3
  <2> QED
    BY <2>1 DEF FlattenSeq
<1>4. CASE N # 0
  <2>1. PICK S : S = Seq(X)
    OBVIOUS
  <2>2. PICK step : step = [x \in S |-> [n \in 1 .. N |-> x \o seqs[n]]]
    OBVIOUS
  <2>3. \A x \in S, n \in 1 .. N : step[x][n] = x \o seqs[n] /\ x \o seqs[n] \in S
    BY <1>2, <2>1, <2>2
  <2>4. step \in [S -> [1 .. N -> S]]
    <3>1. ASSUME NEW x \in S PROVE step[x] \in [1 .. N -> S]
      <4>1. step[x] = [n \in 1 .. N |-> x \o seqs[n]]
        BY <2>2, Zenon
      <4> QED
        BY <4>1, <2>3
    <3> QED
      BY <2>2, <3>1
  <2>5. <<>> \in S
    BY <2>1
  <2>6. PICK c \in [0 .. N -> S] : c[0] = <<>> /\ \A n \in 1 .. N : c[n] = step[c[n - 1]][n]
    <3>1. PICK c : AreSteps(c, S, N, <<>>, step)
      BY <2>4, <2>5, StepsExist
    <3> QED
      BY <3>1 DEF AreSteps
  <2> DEFINE IsFlatten(f) == f = [i \in 1 .. Len(seqs) |->
               IF i = 1 THEN seqs[i] ELSE f[i - 1] \o seqs[i]]
  <2>7. PICK f : f = [i \in 1 .. N |-> c[i]]
    OBVIOUS
  <2>8. \A i \in 1 .. N : f[i] = IF i = 1 THEN seqs[i] ELSE f[i - 1] \o seqs[i]
    <3>1. ASSUME NEW i \in 1 .. N PROVE f[i] = IF i = 1 THEN seqs[i] ELSE f[i - 1] \o seqs[i]
      <4>1. i - 1 \in 0 .. N
        OBVIOUS
      <4>2. f[i] = c[i - 1] \o seqs[i]
        BY <2>3, <2>6, <2>7, <4>1
      <4>3. CASE i = 1
        <5>1. c[i - 1] = <<>> /\ seqs[i] \in Seq(X)
          BY <4>3, <2>6, <1>2
        <5> QED
          BY <4>2, <4>3, <5>1
      <4>4. CASE i # 1
        <5>1. f[i - 1] = c[i - 1]
          BY <4>4, <2>7
        <5> QED
          BY <5>1, <4>2, <4>4
      <4> QED
        BY <4>3, <4>4
    <3> QED
      BY <3>1
  <2>9. IsFlatten(f)
    BY <2>7, <2>8, <1>1
  <2>10. PICK h : h = CHOOSE g : IsFlatten(g)
    OBVIOUS
  <2>11. IsFlatten(h)
    <3> HIDE DEF IsFlatten
    <3> QED
      BY <2>9, <2>10
  <2>12. FlattenSeq(seqs) = h[N]
    BY <1>1, <1>4, <2>10, Zenon DEF FlattenSeq
  <2>13. \A i \in 1 .. N : h[i] = IF i = 1 THEN seqs[i] ELSE h[i - 1] \o seqs[i]
    BY <2>11, <1>1
  <2> DEFINE Good == {k \in Nat : k + 1 <= N => h[k + 1] \in S}
  <2> HIDE DEF IsFlatten
  <2>14. 0 \in Good
    <3>1. 1 \in 1 .. N
      BY <1>4
    <3>2. h[1] = seqs[1]
      BY <3>1, <2>13
    <3> QED
      BY <3>1, <3>2, <1>2, <2>1
  <2>15. ASSUME NEW k \in Nat, k \in Good PROVE k + 1 \in Good
    <3>1. CASE (k + 1) + 1 <= N
      <4>1. PICK i \in 1 .. N : i = (k + 1) + 1
        BY <3>1
      <4>2. i # 1 /\ i - 1 = k + 1 /\ h[i - 1] \in S
        BY <2>15, <4>1
      <4>3. h[i] = h[i - 1] \o seqs[i]
        BY <2>13, <4>2
      <4>4. h[i] \in S
        BY <4>2, <4>3, <1>2, <2>1
      <4> QED
        BY <4>1, <4>4
    <3> QED
      BY <3>1
  <2>16. N - 1 \in Good
    <3> HIDE DEF Good
    <3>1. N - 1 \in Nat
      BY <1>4
    <3> QED
      BY <3>1, <2>14, <2>15, InductionOverNat
  <2> QED
    BY <2>1, <2>12, <2>16
<1> QED
  BY <1>3, <1>4

(* What the units need of a source.                                        *)
IsSource(s) == s.kind \in {"summary", "detail"} /\ s.text \in Texts /\ s.score \in Nat

(* The sources of a candidate carry its id and differ in their part.       *)
LEMMA ExpandFacts ==
  ASSUME NEW c \in Candidates
  PROVE  /\ ExpandCandidate(c) \in Seq(ToSet(ExpandCandidate(c)))
         /\ \A s \in ToSet(ExpandCandidate(c)) : IsSource(s) /\ s.id[1] = c.id
         /\ \A s, t \in ToSet(ExpandCandidate(c)) : s.id[2] = t.id[2] => s = t
<1>1. /\ c.kind \in {"summary", "detail"} /\ c.summary \in Texts /\ c.text \in Texts
      /\ c.score \in Nat
  BY DEF Candidates
<1>2. CASE c.kind = "summary" \/ c.summary = <<>>
  <2>1. PICK own : own = SourceFrom(c, "self", c.kind, c.parent, c.text)
    OBVIOUS
  <2>2. IsSource(own) /\ own.id = <<c.id, "self">>
    BY <1>1, <2>1 DEF SourceFrom, IsSource
  <2>3. PICK e : e = ExpandCandidate(c) /\ e = <<own>>
    BY <1>2, <2>1, Zenon DEF ExpandCandidate
  <2>4. ToSet(e) = {own} /\ e \in Seq({own})
    BY <2>3 DEF ToSet
  <2> QED
    BY <2>2, <2>3, <2>4
<1>3. CASE ~(c.kind = "summary" \/ c.summary = <<>>)
  <2>1. PICK brief, full :
          /\ brief = SourceFrom(c, "summary", "summary", c.parent, c.summary)
          /\ full = SourceFrom(c, "self", "detail", <<c.id, "summary">>, c.text)
    OBVIOUS
  <2>2. /\ IsSource(brief) /\ brief.id = <<c.id, "summary">>
        /\ IsSource(full) /\ full.id = <<c.id, "self">>
    BY <1>1, <2>1 DEF SourceFrom, IsSource
  <2>3. PICK e : e = ExpandCandidate(c) /\ e = <<brief, full>>
    BY <1>3, <2>1, Zenon DEF ExpandCandidate
  <2>4. ToSet(e) = {brief, full} /\ e \in Seq({brief, full})
    BY <2>3 DEF ToSet
  <2> QED
    BY <2>2, <2>3, <2>4
<1> QED
  BY <1>2, <1>3

(* The sources of a request have each an id of its own.                    *)
LEMMA SourceFacts ==
  ASSUME NEW r \in Requests
  PROVE  \E X : /\ Sources(r) \in Seq(X)
                /\ \A s \in X : IsSource(s)
                /\ \A s, t \in X : s.id = t.id => s = t
<1>1. PICK cs \in Seq(Candidates) :
        /\ cs = r.candidates
        /\ \A i, j \in DOMAIN cs : cs[i].id = cs[j].id => i = j
  <2>1. r.candidates \in Seq(Candidates)
    BY ContextAssumption
  <2> QED
    BY <2>1, ContextAssumption
<1>2. PICK N \in Nat : N = Len(cs) /\ DOMAIN cs = 1 .. N
  OBVIOUS
<1>3. \A i \in 1 .. N : cs[i] \in Candidates
  BY <1>2
<1>4. PICK parts : parts = [i \in DOMAIN r.candidates |-> ExpandCandidate(r.candidates[i])]
  OBVIOUS
<1>5. PICK X : X = UNION {ToSet(parts[i]) : i \in 1 .. N}
  OBVIOUS
<1>6. \A i \in 1 .. N : parts[i] = ExpandCandidate(cs[i])
  BY <1>1, <1>2, <1>4
<1>7. ASSUME NEW i \in 1 .. N PROVE parts[i] \in Seq(X)
  <2>1. PICK Y : Y = ToSet(parts[i])
    OBVIOUS
  <2>2. parts[i] \in Seq(Y)
    BY <1>3, <1>6, <2>1, ExpandFacts
  <2>3. Y \subseteq X
    BY <1>5, <2>1
  <2> QED
    BY <2>2, <2>3
<1>8. parts \in Seq(Seq(X))
  <2>1. PICK Y : Y = Seq(X)
    OBVIOUS
  <2>2. parts = [i \in 1 .. N |-> parts[i]] /\ \A i \in 1 .. N : parts[i] \in Y
    BY <1>1, <1>2, <1>4, <1>7, <2>1
  <2>3. parts \in Seq(Y)
    BY <2>2
  <2> QED
    BY <2>1, <2>3
<1>9. Sources(r) \in Seq(X)
  BY <1>4, <1>8, FlattenTyped DEF Sources
<1>10. ASSUME NEW s \in X PROVE IsSource(s) /\ \E i \in 1 .. N : s \in ToSet(parts[i]) /\ s.id[1] = cs[i].id
  <2>1. PICK i \in 1 .. N : s \in ToSet(parts[i])
    BY <1>5
  <2>2. PICK c \in Candidates : c = cs[i] /\ parts[i] = ExpandCandidate(c)
    BY <1>3, <1>6
  <2>3. IsSource(s) /\ s.id[1] = c.id
    BY <2>1, <2>2, ExpandFacts
  <2> QED
    BY <2>1, <2>2, <2>3
<1>11. ASSUME NEW s \in X, NEW t \in X, s.id = t.id PROVE s = t
  <2>1. PICK i \in 1 .. N : s \in ToSet(parts[i]) /\ s.id[1] = cs[i].id
    BY <1>10
  <2>2. PICK j \in 1 .. N : t \in ToSet(parts[j]) /\ t.id[1] = cs[j].id
    BY <1>10
  <2>3. i = j
    BY <1>1, <1>2, <1>11, <2>1, <2>2
  <2> QED
    BY <1>3, <1>6, <1>11, <2>1, <2>2, <2>3, ExpandFacts
<1> QED
  BY <1>9, <1>10, <1>11

(* What inspectSourceHierarchy can say.                                    *)
Issues == {"none", "parent-missing", "hierarchy-cycle"}
Levels == [depth : Nat, issue : Issues]

(* Whoever has a place in the hierarchy is one below its parent.           *)
OneBelow(sources, s) ==
  /\ InspectSourceHierarchy(sources, s.id) \in Levels
  /\ InspectSourceHierarchy(sources, s.id).issue = "none" /\ s.parent # None =>
       \A t \in ToSet(sources) : t.id = s.parent =>
         InspectSourceHierarchy(sources, s.id).depth = InspectSourceHierarchy(sources, t.id).depth + 1

(* inspectSourceHierarchy: with an id for every source, whoever is found   *)
(* in the hierarchy is one below its parent.                               *)
LEMMA HierarchyFacts ==
  ASSUME NEW X, NEW sources \in Seq(X), \A s, t \in X : s.id = t.id => s = t
  PROVE  \A s \in ToSet(sources) : OneBelow(sources, s)
<1>1. PICK parent : parent = ParentOf(sources)
  OBVIOUS
<1>2. PICK ids : ids = DOMAIN parent
  OBVIOUS
<1>3. \A s \in ToSet(sources) : s \in X
  BY DEF ToSet
<1>4. \A s \in ToSet(sources) : s.id \in ids /\ parent[s.id] = s.parent
  <2>1. ASSUME NEW s \in ToSet(sources) PROVE s.id \in ids /\ parent[s.id] = s.parent
    <3>1. PICK t : t = CHOOSE u \in ToSet(sources) : u.id = s.id
      OBVIOUS
    <3>2. t \in ToSet(sources) /\ t.id = s.id
      BY <3>1
    <3>3. t = s
      BY <1>3, <3>2
    <3> QED
      BY <1>1, <1>2, <3>1, <3>3 DEF ParentOf
  <2> QED
    BY <2>1
<1>5. PICK N \in Nat : N = Len(sources)
  OBVIOUS
<1>6. PICK S : S = [ids -> Levels]
  OBVIOUS
<1>7. PICK base : base = [x \in ids |-> [depth |-> 0, issue |-> "hierarchy-cycle"]]
  OBVIOUS
<1>8. base \in S
  BY <1>6, <1>7 DEF Levels, Issues
<1>9. ASSUME NEW seen \in S, NEW x \in ids
      PROVE  /\ Above(parent, seen)[x] \in Levels
             /\ parent[x] = None => Above(parent, seen)[x] = [depth |-> 0, issue |-> "none"]
             /\ parent[x] # None /\ parent[x] \notin ids =>
                  Above(parent, seen)[x].issue = "parent-missing"
             /\ parent[x] # None /\ parent[x] \in ids =>
                  /\ Above(parent, seen)[x].issue = seen[parent[x]].issue
                  /\ seen[parent[x]].issue = "none" =>
                       Above(parent, seen)[x] = [depth |-> seen[parent[x]].depth + 1, issue |-> "none"]
  <2>1. Above(parent, seen)[x] =
          IF parent[x] = None THEN [depth |-> 0, issue |-> "none"]
          ELSE IF parent[x] \notin ids THEN [depth |-> 0, issue |-> "parent-missing"]
          ELSE IF seen[parent[x]].issue # "none" THEN [depth |-> 0, issue |-> seen[parent[x]].issue]
          ELSE [depth |-> seen[parent[x]].depth + 1, issue |-> "none"]
    BY <1>2 DEF Above
  <2>2. parent[x] \in ids => seen[parent[x]].depth \in Nat /\ seen[parent[x]].issue \in Issues
    BY <1>6 DEF Levels
  <2> HIDE DEF None
  <2> QED
    BY <2>1, <2>2 DEF Levels, Issues
<1>10. \A seen \in S : Above(parent, seen) \in S
  <2>1. ASSUME NEW seen \in S PROVE Above(parent, seen) \in S
    <3>1. PICK up : up = Above(parent, seen)
      OBVIOUS
    <3>2. up = [x \in ids |-> up[x]]
      BY <3>1, <1>2 DEF Above
    <3>3. \A x \in ids : up[x] \in Levels
      BY <1>9, <3>1
    <3> QED
      BY <1>6, <3>1, <3>2, <3>3
  <2> QED
    BY <2>1
<1>11. PICK step : step = [seen \in S |-> [n \in 1 .. N |-> Above(parent, seen)]]
  OBVIOUS
<1>12. \A seen \in S, n \in 1 .. N : step[seen][n] = Above(parent, seen)
  BY <1>11, Zenon
<1>13. step \in [S -> [1 .. N -> S]]
  <2>1. ASSUME NEW seen \in S PROVE step[seen] \in [1 .. N -> S]
    <3>1. PICK up \in S : up = Above(parent, seen)
      BY <1>10
    <3>2. step[seen] = [n \in 1 .. N |-> up]
      BY <1>11, <3>1, Zenon
    <3> QED
      BY <3>2
  <2> QED
    BY <1>11, <2>1
<1>14. PICK c : AreSteps(c, S, N, base, step)
  BY <1>8, <1>13, StepsExist
<1> DEFINE IsClimb(f) == f = [n \in 0 .. Len(sources) |->
             IF n = 0 THEN [x \in DOMAIN parent |-> [depth |-> 0, issue |-> "hierarchy-cycle"]]
             ELSE Above(parent, f[n - 1])]
<1>15. IsClimb(c)
  <2>1. c \in [0 .. N -> S] /\ c[0] = base /\ \A n \in 1 .. N : c[n] = step[c[n - 1]][n]
    BY <1>14 DEF AreSteps
  <2>2. ASSUME NEW n \in 1 .. N PROVE c[n] = Above(parent, c[n - 1])
    <3>1. n - 1 \in 0 .. N
      OBVIOUS
    <3>2. PICK seen \in S : seen = c[n - 1]
      BY <2>1, <3>1
    <3> QED
      BY <1>12, <2>1, <3>2
  <2>3. ASSUME NEW n \in 0 .. N
        PROVE  c[n] = IF n = 0 THEN base ELSE Above(parent, c[n - 1])
    BY <2>1, <2>2
  <2>4. c = [n \in 0 .. N |-> c[n]]
    BY <2>1
  <2>5. c = [n \in 0 .. N |-> IF n = 0 THEN base ELSE Above(parent, c[n - 1])]
    BY <2>3, <2>4, Zenon
  <2> QED
    BY <1>2, <1>5, <1>7, <2>5, Zenon
<1>16. PICK h : h = CHOOSE f : IsClimb(f)
  OBVIOUS
<1>17. IsClimb(h)
  <2> HIDE DEF IsClimb
  <2> QED
    BY <1>15, <1>16
<1>18. \A s \in ToSet(sources) : InspectSourceHierarchy(sources, s.id) = h[N][s.id]
  BY <1>1, <1>5, <1>16, Zenon DEF InspectSourceHierarchy
<1>19. \A n \in 0 .. N : h[n] = IF n = 0 THEN base ELSE Above(parent, h[n - 1])
  BY <1>2, <1>5, <1>7, <1>17, Zenon
<1> HIDE DEF IsClimb
<1>20. \A n \in 0 .. N : h[n] \in S
  <2>1. \A n \in 1 .. N : h[n - 1] \in S => h[n] \in S
    BY <1>10, <1>19
  <2>2. h[0] \in S
    BY <1>8, <1>19
  <2> QED
    BY <2>1, <2>2, RunTyped
<1> DEFINE Kept == {k \in Nat : k + 1 <= N => \A x \in ids : h[k][x].issue = "none" => h[k + 1][x] = h[k][x]}
<1>21. 0 \in Kept
  BY <1>7, <1>19
<1>22. ASSUME NEW k \in Nat, k \in Kept PROVE k + 1 \in Kept
  <2>1. CASE (k + 1) + 1 <= N
    <3>1. PICK n \in 1 .. N : n = k + 1 /\ n + 1 \in 1 .. N /\ n \in 0 .. N /\ k \in 0 .. N
      BY <2>1
    <3>2. h[n] = Above(parent, h[k]) /\ h[n + 1] = Above(parent, h[n]) /\ h[k] \in S /\ h[n] \in S
      BY <1>19, <1>20, <3>1
    <3>3. \A x \in ids : h[k][x].issue = "none" => h[n][x] = h[k][x]
      BY <1>22, <3>1
    <3>4. ASSUME NEW x \in ids, h[n][x].issue = "none" PROVE h[n + 1][x] = h[n][x]
      <4>0. PICK a \in S, b \in S : a = h[k] /\ b = h[n]
        BY <3>2
      <4>1. CASE parent[x] = None
        <5>1. /\ Above(parent, a)[x] = [depth |-> 0, issue |-> "none"]
              /\ Above(parent, b)[x] = [depth |-> 0, issue |-> "none"]
          BY <1>9, <4>1
        <5> QED
          BY <3>2, <4>0, <5>1
      <4>2. CASE parent[x] # None /\ parent[x] \in ids
        <5>1. h[k][parent[x]].issue = "none"
          BY <1>9, <3>2, <3>4, <4>2
        <5>2. h[n][parent[x]] = h[k][parent[x]]
          BY <3>3, <4>2, <5>1
        <5>3. PICK up : up = [depth |-> a[parent[x]].depth + 1, issue |-> "none"]
          OBVIOUS
        <5>4. a[parent[x]].issue = "none" /\ b[parent[x]] = a[parent[x]]
          BY <4>0, <5>1, <5>2
        <5>5. Above(parent, a)[x] = up
          BY <1>9, <4>2, <5>3, <5>4
        <5>6. b[parent[x]].issue = "none" /\ up = [depth |-> b[parent[x]].depth + 1, issue |-> "none"]
          BY <5>3, <5>4
        <5>7. Above(parent, b)[x] = up
          BY <1>9, <4>2, <5>6
        <5> QED
          BY <3>2, <4>0, <5>5, <5>7
      <4>3. CASE parent[x] # None /\ parent[x] \notin ids
        BY <1>9, <3>2, <3>4, <4>3
      <4> QED
        BY <4>1, <4>2, <4>3
    <3> QED
      BY <3>1, <3>4
  <2> QED
    BY <2>1
<1>23. \A k \in Nat : k \in Kept
  <2> HIDE DEF Kept
  <2> QED
    BY <1>21, <1>22, InductionOverNat
<1>24. ASSUME NEW s \in ToSet(sources) PROVE OneBelow(sources, s)
  <2>1. PICK x \in ids : x = s.id /\ parent[x] = s.parent
    BY <1>4
  <2>2. N \in 0 .. N /\ h[N] \in S
    BY <1>20
  <2>3. h[N][x] \in Levels
    BY <1>6, <2>2
  <2>4. ASSUME h[N][x].issue = "none", s.parent # None, NEW t \in ToSet(sources), t.id = s.parent
        PROVE  h[N][x].depth = h[N][t.id].depth + 1
    <3>1. N # 0
      BY <1>7, <1>19, <2>2, <2>4
    <3>2. PICK m \in Nat : m = N - 1 /\ m + 1 = N /\ m \in 0 .. N
      BY <3>1
    <3>3. h[N] = Above(parent, h[m]) /\ h[m] \in S
      BY <1>19, <1>20, <2>2, <3>1, <3>2
    <3>4. t.id \in ids /\ parent[x] = t.id /\ parent[x] # None
      BY <1>4, <2>1, <2>4
    <3>5. h[m][t.id].issue = "none" /\ h[N][x] = [depth |-> h[m][t.id].depth + 1, issue |-> "none"]
      BY <1>9, <2>4, <3>3, <3>4
    <3>6. h[N][t.id] = h[m][t.id]
      BY <1>23, <3>2, <3>4, <3>5
    <3> QED
      BY <3>5, <3>6
  <2> QED
    BY <1>18, <2>1, <2>3, <2>4 DEF OneBelow
<1> QED
  BY <1>24

(* What the units of a request have, with a chunk of at most max tokens.   *)
IsUnit(u, max) ==
  /\ u.kind \in {"summary", "detail"} /\ u.score \in Nat /\ u.tokens \in Nat /\ u.tokens <= max
  /\ u.depth \in Nat /\ u.issue \in Issues /\ u.phase = Phase(u.depth, u.kind)

(* The units of one source.                                                *)
LEMMA MaterializedFacts ==
  ASSUME NEW sources, NEW s \in ToSet(sources), NEW max \in Nat \ {0}, IsSource(s),
         OneBelow(sources, s)
  PROVE  \E us \in Seq(ToSet(MaterializeUnits(sources, s, max))) :
           /\ us = MaterializeUnits(sources, s, max)
           /\ \A u \in ToSet(us) :
                /\ IsUnit(u, max) /\ u.source = s.id /\ u.parent = s.parent
                /\ u.depth = InspectSourceHierarchy(sources, s.id).depth
                /\ u.issue = InspectSourceHierarchy(sources, s.id).issue
<1>1. PICK level \in Levels : level = InspectSourceHierarchy(sources, s.id)
  BY DEF OneBelow
<1>2. PICK X : X = Chunks(max)
  OBVIOUS
<1>3. PICK pieces \in Seq(X) : pieces = IF s.text = <<>> THEN <<<<>>>> ELSE ChunkText(s.text, max)
  <2>1. <<>> \in X
    BY <1>2, TokensOfNone DEF Chunks
  <2>2. <<<<>>>> \in Seq(X)
    BY <2>1
  <2>3. ChunkText(s.text, max) \in Seq(X)
    BY <1>2, ChunkTextFits DEF IsSource
  <2> QED
    BY <2>2, <2>3
<1>4. PICK N \in Nat : N = Len(pieces) /\ DOMAIN pieces = 1 .. N
  OBVIOUS
<1>5. PICK unit : unit =
        [i \in 1 .. N |->
          [source |-> s.id, kind |-> s.kind, parent |-> s.parent, topic |-> s.topic,
           score |-> s.score, status |-> s.status, expired |-> s.expired, text |-> pieces[i],
           tokens |-> Tokens(pieces[i]), key |-> IF s.key = NoKey THEN pieces[i] ELSE s.key,
           depth |-> level.depth, issue |-> level.issue,
           phase |-> Phase(level.depth, s.kind)]]
  OBVIOUS
<1>6. MaterializeUnits(sources, s, max) = unit
  BY <1>1, <1>3, <1>4, <1>5, Zenon DEF MaterializeUnits
<1>7. ASSUME NEW i \in 1 .. N
      PROVE  /\ IsUnit(unit[i], max) /\ unit[i].source = s.id /\ unit[i].parent = s.parent
             /\ unit[i].depth = level.depth /\ unit[i].issue = level.issue
  <2>1. pieces[i] \in Chunks(max)
    BY <1>2, <1>4
  <2>2. Tokens(pieces[i]) \in Nat /\ Tokens(pieces[i]) <= max
    BY <2>1, TokensAreNat DEF Chunks
  <2>3. level.depth \in Nat /\ level.issue \in Issues
    BY DEF Levels
  <2> QED
    BY <1>5, <2>2, <2>3 DEF IsUnit, IsSource
<1>8. unit \in Seq(ToSet(unit)) /\ DOMAIN unit = 1 .. N
  <2>1. unit = [i \in 1 .. N |-> unit[i]] /\ DOMAIN unit = 1 .. N
    BY <1>5
  <2>2. PICK Y : Y = ToSet(unit)
    OBVIOUS
  <2>3. \A i \in 1 .. N : unit[i] \in Y
    BY <2>1, <2>2 DEF ToSet
  <2>4. unit \in Seq(Y)
    BY <2>1, <2>3
  <2> QED
    BY <2>1, <2>2, <2>4
<1>9. \A u \in ToSet(unit) : \E i \in 1 .. N : u = unit[i]
  BY <1>8 DEF ToSet
<1> QED
  BY <1>1, <1>6, <1>7, <1>8, <1>9

(* The units of a request: none is larger than a chunk may be, and whoever *)
(* has a place in the hierarchy is in a later phase than its parent.       *)
UnitsFit(us, max) ==
  /\ \E N \in Nat : DOMAIN us = 1 .. N /\ us = [i \in 1 .. N |-> us[i]]
  /\ \A i \in DOMAIN us : IsUnit(us[i], max)
  /\ \A i, k \in DOMAIN us :
       us[i].issue = "none" /\ us[i].parent # None /\ us[k].source = us[i].parent =>
         us[k].phase < us[i].phase

(* requestLimits: a chunk may always hold something, with no budget at all *)
(* too.                                                                    *)
LEMMA ChunkSizeIsPositive ==
  ASSUME NEW r \in Requests
  PROVE  ChunkSize(r) \in Nat \ {0}
<1>1. r.budget \in Nat
  BY ContextAssumption
<1>2. PICK b \in Nat \ {0} : b = Max({1, r.budget})
  <2>1. \E x \in {1, r.budget} : \A y \in {1, r.budget} : x >= y
    BY <1>1
  <2>2. Max({1, r.budget}) \in {1, r.budget} /\ \A y \in {1, r.budget} : Max({1, r.budget}) >= y
    BY <2>1 DEF Max
  <2> QED
    BY <1>1, <2>2
<1>3. Min({512, b}) \in {512, b}
  <2>1. \E x \in {512, b} : \A y \in {512, b} : x <= y
    OBVIOUS
  <2> QED
    BY <2>1 DEF Min
<1> QED
  BY <1>2, <1>3 DEF ChunkSize

(* materializeUnits: the units of every request fit.                       *)
LEMMA UnitFacts ==
  ASSUME NEW r \in Requests
  PROVE  UnitsFit(Units(r), ChunkSize(r))
<1>1. PICK max \in Nat \ {0} : max = ChunkSize(r)
  BY ChunkSizeIsPositive
<1>0. PICK X : /\ Sources(r) \in Seq(X)
               /\ \A s \in X : IsSource(s)
               /\ \A s, t \in X : s.id = t.id => s = t
  BY SourceFacts
<1>2. PICK sources \in Seq(X) : sources = Sources(r)
  BY <1>0
<1>3. \A s \in ToSet(sources) : s \in X /\ OneBelow(sources, s)
  <2>1. \A s \in ToSet(sources) : s \in X
    BY DEF ToSet
  <2> QED
    BY <1>0, <2>1, HierarchyFacts
<1>4. PICK N \in Nat : N = Len(sources) /\ DOMAIN sources = 1 .. N
  OBVIOUS
<1>5. PICK parts : parts = [i \in DOMAIN sources |-> MaterializeUnits(sources, sources[i], max)]
  OBVIOUS
<1>6. PICK Y : Y = UNION {ToSet(parts[i]) : i \in 1 .. N}
  OBVIOUS
<1> DEFINE Of(u, s) == /\ IsUnit(u, max) /\ u.source = s.id /\ u.parent = s.parent
                       /\ u.depth = InspectSourceHierarchy(sources, s.id).depth
                       /\ u.issue = InspectSourceHierarchy(sources, s.id).issue
<1>7. ASSUME NEW i \in 1 .. N
      PROVE  /\ parts[i] \in Seq(Y)
             /\ \A u \in ToSet(parts[i]) : \E s \in ToSet(sources) : Of(u, s)
  <2>1. PICK s \in ToSet(sources) : s = sources[i]
    BY <1>4 DEF ToSet
  <2>2. IsSource(s) /\ OneBelow(sources, s)
    BY <1>0, <1>3
  <2>3. parts[i] = MaterializeUnits(sources, s, max)
    BY <1>4, <1>5, <2>1
  <2>4. PICK us \in Seq(ToSet(parts[i])) : us = parts[i] /\ \A u \in ToSet(us) : Of(u, s)
    BY <2>2, <2>3, MaterializedFacts
  <2>5. ToSet(parts[i]) \subseteq Y
    BY <1>6
  <2>6. us \in Seq(Y)
    BY <2>5
  <2> QED
    BY <2>4, <2>6
<1>8. \A u \in Y : \E s \in ToSet(sources) : Of(u, s)
  <2> HIDE DEF Of
  <2>1. ASSUME NEW u \in Y PROVE \E s \in ToSet(sources) : Of(u, s)
    <3>1. PICK i \in 1 .. N : u \in ToSet(parts[i])
      BY <1>6
    <3> QED
      BY <1>7, <3>1
  <2> QED
    BY <2>1
<1>9. PICK us \in Seq(Y) : us = Units(r)
  <2>1. PICK Z : Z = Seq(Y)
    OBVIOUS
  <2>2. parts = [i \in 1 .. N |-> parts[i]] /\ \A i \in 1 .. N : parts[i] \in Z
    BY <1>4, <1>5, <1>7, <2>1
  <2>3. parts \in Seq(Z)
    BY <2>2
  <2>4. FlattenSeq(parts) \in Seq(Y)
    BY <2>1, <2>3, FlattenTyped
  <2> QED
    BY <1>1, <1>2, <1>5, <2>4 DEF Units
<1>10. \A i \in DOMAIN us : us[i] \in Y
  OBVIOUS
<1>11. ASSUME NEW u \in Y, NEW v \in Y, u.issue = "none", u.parent # None, v.source = u.parent
       PROVE  v.phase < u.phase
  <2>1. PICK s \in ToSet(sources) : Of(u, s)
    BY <1>8
  <2>2. PICK t \in ToSet(sources) : Of(v, t)
    BY <1>8
  <2>3. u.depth = v.depth + 1
    BY <1>3, <1>11, <2>1, <2>2 DEF OneBelow
  <2>4. /\ u.depth \in Nat /\ v.depth \in Nat
        /\ u.phase = Phase(u.depth, u.kind) /\ v.phase = Phase(v.depth, v.kind)
    BY <2>1, <2>2 DEF IsUnit
  <2> QED
    BY <2>3, <2>4 DEF Phase
<1>12. \A u \in Y : IsUnit(u, max)
  BY <1>8
<1>13. \E n \in Nat : DOMAIN us = 1 .. n /\ us = [i \in 1 .. n |-> us[i]]
  <2>1. DOMAIN us = 1 .. Len(us) /\ Len(us) \in Nat /\ us = [i \in 1 .. Len(us) |-> us[i]]
    OBVIOUS
  <2> QED
    BY <2>1
<1> HIDE DEF Of
<1> QED
  BY <1>1, <1>9, <1>10, <1>11, <1>12, <1>13 DEF UnitsFit

(* The units of a request, met one by one.                                 *)
IsMetRun(run, S, N, us, gate) ==
  /\ run \in [0 .. N -> S] /\ run[0] = [kept |-> {}, why |-> [i \in DOMAIN us |-> "pending"]]
  /\ run[N] = Deduplicated(us, gate)
  /\ \A n \in 1 .. N : run[n] = Met(us, gate, run[n - 1], [i \in DOMAIN us |-> i][n])

(* Deduplicated, what the loop over the units ends in, is the end of such  *)
(* a run.                                                                  *)
LEMMA MetRun ==
  ASSUME NEW us, NEW gate,
         NEW N \in Nat, DOMAIN us = 1 .. N,
         NEW S, [kept |-> {}, why |-> [i \in DOMAIN us |-> "pending"]] \in S,
         \A x \in S, n \in 1 .. N : Met(us, gate, x, [i \in DOMAIN us |-> i][n]) \in S
  PROVE  \E run : IsMetRun(run, S, N, us, gate)
<1>1. DOMAIN [i \in DOMAIN us |-> i] = 1 .. N
  OBVIOUS
<1>2. PICK step : step = [x \in S |-> [n \in 1 .. N |-> Met(us, gate, x, [i \in DOMAIN us |-> i][n])]]
  OBVIOUS
<1>3. \A x \in S, n \in 1 .. N : step[x][n] = Met(us, gate, x, [i \in DOMAIN us |-> i][n])
  BY <1>2, Zenon
<1>4. step \in [S -> [1 .. N -> S]]
  <2>1. ASSUME NEW x \in S PROVE step[x] \in [1 .. N -> S]
    <3>1. step[x] = [n \in 1 .. N |-> Met(us, gate, x, [i \in DOMAIN us |-> i][n])]
      BY <1>2, Zenon
    <3> QED
      BY <3>1
  <2> QED
    BY <1>2, <2>1
<1>5. PICK start \in S : start = [kept |-> {}, why |-> [i \in DOMAIN us |-> "pending"]]
  OBVIOUS
<1> DEFINE IsFold(f) == f = [s \in SUBSET DOMAIN [i \in DOMAIN us |-> i] |->
             IF s = {} THEN [kept |-> {}, why |-> [i \in DOMAIN us |-> "pending"]]
             ELSE Met(us, gate, f[s \ {Max(s)}], [i \in DOMAIN us |-> i][Max(s)])]
<1>6. \E h : IsFold(h)
  <2>1. PICK pick : pick = [s \in SUBSET (1 .. N) |-> Max(s)]
    OBVIOUS
  <2>2. \A s \in SUBSET (1 .. N) : s # {} => pick[s] \in s
    BY <2>1, MaxIn
  <2>3. PICK g : IsFoldOf(g, S, 1 .. N, start, step, pick)
    <3>1. IsFiniteSet(1 .. N)
      BY FS_Interval
    <3> QED
      BY <3>1, <2>2, <1>4, FoldExists, Zenon
  <2>4. PICK h : h = [s \in SUBSET DOMAIN [i \in DOMAIN us |-> i] |->
                   IF s = {} THEN [kept |-> {}, why |-> [i \in DOMAIN us |-> "pending"]]
                   ELSE Met(us, gate, g[s \ {Max(s)}], [i \in DOMAIN us |-> i][Max(s)])]
    OBVIOUS
  <2>5. ASSUME NEW s \in SUBSET (1 .. N) PROVE h[s] = g[s]
    <3>1. h[s] = IF s = {} THEN [kept |-> {}, why |-> [i \in DOMAIN us |-> "pending"]]
                 ELSE Met(us, gate, g[s \ {Max(s)}], [i \in DOMAIN us |-> i][Max(s)])
      BY <2>4, <1>1, Zenon
    <3>2. CASE s # {}
      <4>1. pick[s] = Max(s) /\ Max(s) \in 1 .. N
        BY <3>2, <2>1, MaxIn
      <4>2. PICK x \in S, n \in 1 .. N : x = g[s \ {Max(s)}] /\ n = Max(s)
        BY <2>3, <4>1 DEF IsFoldOf
      <4>3. g[s] = step[x][n]
        BY <2>3, <3>2, <4>1, <4>2, Zenon DEF IsFoldOf
      <4> QED
        BY <1>3, <4>2, <4>3, <3>1, <3>2, Zenon
    <3>3. CASE s = {}
      BY <2>3, <3>1, <3>3, <1>5, Zenon DEF IsFoldOf
    <3> QED
      BY <3>2, <3>3
  <2>6. h = g
    BY <2>3, <2>4, <2>5, <1>1 DEF IsFoldOf
  <2> QED
    BY <2>4, <2>6, Zenon
<1>7. PICK h : h = CHOOSE f : IsFold(f)
  OBVIOUS
<1>8. IsFold(h)
  <2> HIDE DEF IsFold
  <2> QED
    BY <1>6, <1>7
<1>9. Deduplicated(us, gate) = h[1 .. N]
  BY <1>1, <1>7, Zenon DEF Deduplicated, FoldLeftDomain, FoldLeft, MapThenFoldSet
<1>10. \A s \in SUBSET (1 .. N) :
         h[s] = IF s = {} THEN [kept |-> {}, why |-> [i \in DOMAIN us |-> "pending"]]
                ELSE Met(us, gate, h[s \ {Max(s)}], [i \in DOMAIN us |-> i][Max(s)])
  BY <1>8, <1>1, Zenon
<1>11. h[{}] = start
  <2>1. {} \in SUBSET (1 .. N)
    OBVIOUS
  <2> QED
    BY <2>1, <1>5, <1>10, Zenon
<1>12. \A s \in SUBSET (1 .. N) :
         s # {} /\ h[s \ {Max(s)}] \in S => h[s] = step[h[s \ {Max(s)}]][Max(s)]
  <2>1. ASSUME NEW s \in SUBSET (1 .. N), s # {}, h[s \ {Max(s)}] \in S
        PROVE  h[s] = step[h[s \ {Max(s)}]][Max(s)]
    <3>1. PICK x \in S, n \in 1 .. N : x = h[s \ {Max(s)}] /\ n = Max(s)
      BY <2>1, MaxIn
    <3> QED
      BY <1>3, <1>10, <2>1, <3>1, Zenon
  <2> QED
    BY <2>1
<1> HIDE DEF IsFold
<1>13. PICK run : IsRunOf(run, h, S, N, start, step)
  <2>1. IsPlaceFold(h, S, N, start, step)
    BY <1>4, <1>11, <1>12 DEF IsPlaceFold
  <2> QED
    BY <2>1, FoldRun
<1>14. /\ run \in [0 .. N -> S] /\ run[0] = start /\ run[N] = h[1 .. N]
       /\ \A n \in 1 .. N : run[n] = step[run[n - 1]][n]
  BY <1>13 DEF IsRunOf
<1>15. ASSUME NEW n \in 1 .. N PROVE run[n] = Met(us, gate, run[n - 1], [i \in DOMAIN us |-> i][n])
  <2>1. PICK x \in S : x = run[n - 1]
    BY <1>14, FirstPlaces
  <2> QED
    BY <1>3, <1>14, <2>1, Zenon
<1> QED
  BY <1>5, <1>9, <1>14, <1>15 DEF IsMetRun

(* What is said of the first place and passed on is said of every place.   *)
LEMMA PlacesInduction ==
  ASSUME NEW N \in Nat, NEW G, 0 \in G, \A n \in 1 .. N : n - 1 \in G => n \in G
  PROVE  \A n \in 0 .. N : n \in G
<1>1. PICK run : run = [n \in 0 .. N |-> n]
  OBVIOUS
<1>2. run[0] \in G /\ \A n \in 1 .. N : run[n - 1] \in G => run[n] \in G
  BY <1>1
<1>3. \A n \in 0 .. N : run[n] \in G
  BY <1>2, RunTyped
<1> QED
  BY <1>1, <1>3

(* The better of two duplicates: a strict order of the units.              *)
LEMMA BetterIsOrder ==
  ASSUME NEW us, NEW max, UnitsFit(us, max)
  PROVE  /\ \A i, j \in DOMAIN us : i # j => BetterDuplicate(us, i, j) \/ BetterDuplicate(us, j, i)
         /\ \A i, j, k \in DOMAIN us :
              BetterDuplicate(us, i, j) /\ BetterDuplicate(us, j, k) => BetterDuplicate(us, i, k)
<1>1. \A i \in DOMAIN us : /\ i \in Nat /\ us[i].score \in Nat /\ us[i].depth \in Nat
                           /\ us[i].kind \in {"summary", "detail"}
  BY DEF UnitsFit, IsUnit
<1>2. ASSUME NEW i \in DOMAIN us, NEW j \in DOMAIN us, i # j
      PROVE  BetterDuplicate(us, i, j) \/ BetterDuplicate(us, j, i)
  BY <1>1, <1>2 DEF BetterDuplicate
<1>3. ASSUME NEW i \in DOMAIN us, NEW j \in DOMAIN us, NEW k \in DOMAIN us,
             BetterDuplicate(us, i, j), BetterDuplicate(us, j, k)
      PROVE  BetterDuplicate(us, i, k)
  BY <1>1, <1>3 DEF BetterDuplicate
<1> QED
  BY <1>2, <1>3

(* What gateUnit can say, and what is known of a unit before the loop.     *)
GateReasons ==
  {"empty", "invalid-freshness", "expired", "stale", "unknown-freshness"} \cup (Issues \ {"none"})

(* gateUnit passes only units that have a place in the hierarchy.          *)
LEMMA GateFacts ==
  ASSUME NEW u, NEW gate, u.issue \in Issues
  PROVE  /\ GateUnit(u, gate) \in GateReasons \cup {"none"}
         /\ GateUnit(u, gate) = "none" => u.issue = "none"
BY DEF GateUnit, GateReasons, Issues

Judgements == GateReasons \cup {"pending", "duplicate"}
Meetings(us) == [kept : SUBSET DOMAIN us, why : [DOMAIN us -> Judgements]]

(* After the first n units: those kept are the best with their keys.       *)
KeptAreBest(us, n, x) ==
  /\ \A i \in x.kept : i <= n /\ us[i].issue = "none"
  /\ \A i \in DOMAIN us : x.why[i] = "pending" <=> i \in x.kept \/ i > n
  /\ \A i, k \in x.kept : us[i].key = us[k].key => i = k
  /\ \A i \in DOMAIN us : x.why[i] = "duplicate" =>
       i <= n /\ \E k \in x.kept : us[k].key = us[i].key /\ BetterDuplicate(us, k, i)

(* One more unit met: the best with every key are still the ones that are  *)
(* kept.                                                                   *)
LEMMA MetKeeps ==
  ASSUME NEW us, NEW max, UnitsFit(us, max), NEW gate, NEW n \in DOMAIN us, NEW x \in Meetings(us)
  PROVE  /\ Met(us, gate, x, n) \in Meetings(us)
         /\ KeptAreBest(us, n - 1, x) => KeptAreBest(us, n, Met(us, gate, x, n))
<1>1. PICK N \in Nat : DOMAIN us = 1 .. N
  BY DEF UnitsFit
<1>2. x.kept \in SUBSET (1 .. N) /\ x.why \in [1 .. N -> Judgements]
  BY <1>1 DEF Meetings
<1>3. PICK why \in GateReasons \cup {"none"} :
        why = GateUnit(us[n], gate) /\ (why = "none" => us[n].issue = "none")
  BY GateFacts DEF UnitsFit, IsUnit
<1>4. PICK same : same = {k \in x.kept : us[k].key = us[n].key}
  OBVIOUS
<1>5. PICK y : y = Met(us, gate, x, n)
  OBVIOUS
<1>6. "pending" \notin GateReasons /\ "duplicate" \notin GateReasons
  BY DEF GateReasons, Issues
<1>7. CASE why # "none"
  <2>1. y = [x EXCEPT !.why[n] = why]
    BY <1>3, <1>5, <1>7, Zenon DEF Met
  <2>2. y.kept = x.kept /\ y.why = [x.why EXCEPT ![n] = why] /\ y \in Meetings(us)
    BY <1>1, <1>2, <1>7, <2>1 DEF Meetings, Judgements
  <2>3. why # "pending" /\ why # "duplicate"
    BY <1>6, <1>7
  <2>4. ASSUME KeptAreBest(us, n - 1, x) PROVE KeptAreBest(us, n, y)
    <3>1. \A i \in 1 .. N : y.why[i] = IF i = n THEN why ELSE x.why[i]
      BY <1>1, <1>2, <2>2
    <3>2. n \notin x.kept
      BY <1>1, <1>2, <2>4 DEF KeptAreBest
    <3>3. \A i \in 1 .. N : (i > n <=> i > n - 1 /\ i # n) /\ (i <= n - 1 => i <= n)
      BY <1>1
    <3> QED
      BY <1>1, <1>2, <2>2, <2>3, <2>4, <3>1, <3>2, <3>3 DEF KeptAreBest
  <2> QED
    BY <1>5, <2>2, <2>4
<1>8. CASE why = "none" /\ \E k \in same : ~BetterDuplicate(us, n, k)
  <2>1. y = [x EXCEPT !.why[n] = "duplicate"]
    BY <1>3, <1>4, <1>5, <1>8, Zenon DEF Met
  <2>2. y.kept = x.kept /\ y.why = [x.why EXCEPT ![n] = "duplicate"] /\ y \in Meetings(us)
    BY <1>1, <1>2, <2>1 DEF Meetings, Judgements
  <2>4. ASSUME KeptAreBest(us, n - 1, x) PROVE KeptAreBest(us, n, y)
    <3>1. \A i \in 1 .. N : y.why[i] = IF i = n THEN "duplicate" ELSE x.why[i]
      BY <1>1, <1>2, <2>2
    <3>2. n \notin x.kept
      BY <1>1, <1>2, <2>4 DEF KeptAreBest
    <3>3. \A i \in 1 .. N : (i > n <=> i > n - 1 /\ i # n) /\ (i <= n - 1 => i <= n)
      BY <1>1
    <3>4. PICK k \in x.kept : us[k].key = us[n].key /\ ~BetterDuplicate(us, n, k)
      BY <1>4, <1>8
    <3>5. BetterDuplicate(us, k, n)
      BY <1>1, <1>2, <3>2, <3>4, BetterIsOrder
    <3> QED
      BY <1>1, <1>2, <2>2, <2>4, <3>1, <3>2, <3>3, <3>4, <3>5 DEF KeptAreBest
  <2> QED
    BY <1>5, <2>2, <2>4
<1>9. CASE why = "none" /\ \A k \in same : BetterDuplicate(us, n, k)
  <2>1. y = [kept |-> (x.kept \ same) \cup {n},
             why |-> [k \in DOMAIN us |-> IF k \in same THEN "duplicate" ELSE x.why[k]]]
    BY <1>3, <1>4, <1>5, <1>9, Zenon DEF Met
  <2>2. y \in Meetings(us)
    BY <1>1, <1>2, <2>1 DEF Meetings, Judgements
  <2>3. /\ y.kept = (x.kept \ same) \cup {n}
        /\ \A i \in 1 .. N : y.why[i] = IF i \in same THEN "duplicate" ELSE x.why[i]
    BY <1>1, <2>1
  <2>4. ASSUME KeptAreBest(us, n - 1, x) PROVE KeptAreBest(us, n, y)
    <3>1. n \notin x.kept /\ n \notin same /\ us[n].issue = "none"
      BY <1>1, <1>2, <1>3, <1>4, <1>9, <2>4 DEF KeptAreBest
    <3>2. \A i \in 1 .. N : (i > n <=> i > n - 1 /\ i # n) /\ (i <= n - 1 => i <= n)
      BY <1>1
    <3>3. \A i \in y.kept : i <= n /\ us[i].issue = "none"
      BY <1>1, <1>2, <2>3, <2>4, <3>1, <3>2 DEF KeptAreBest
    <3>4. \A i \in 1 .. N : y.why[i] = "pending" <=> i \in y.kept \/ i > n
      <4>1. ASSUME NEW i \in 1 .. N PROVE y.why[i] = "pending" <=> i \in y.kept \/ i > n
        <5>1. x.why[i] = "pending" <=> i \in x.kept \/ i > n - 1
          BY <1>1, <2>4 DEF KeptAreBest
        <5>2. i \in same => i \in x.kept /\ i <= n /\ i # n
          BY <1>1, <1>2, <1>4, <3>1, <3>2, <2>4 DEF KeptAreBest
        <5> QED
          BY <1>1, <2>3, <3>1, <3>2, <5>1, <5>2
      <4> QED
        BY <4>1
    <3>5. \A i, k \in y.kept : us[i].key = us[k].key => i = k
      BY <1>4, <2>3, <2>4 DEF KeptAreBest
    <3>6. ASSUME NEW i \in 1 .. N, y.why[i] = "duplicate"
          PROVE  i <= n /\ \E k \in y.kept : us[k].key = us[i].key /\ BetterDuplicate(us, k, i)
      <4>1. CASE i \in same
        <5>1. i \in x.kept /\ i <= n /\ us[n].key = us[i].key /\ BetterDuplicate(us, n, i)
          BY <1>1, <1>2, <1>4, <1>9, <4>1, <3>2, <2>4 DEF KeptAreBest
        <5> QED
          BY <2>3, <5>1
      <4>2. CASE i \notin same
        <5>1. x.why[i] = "duplicate"
          BY <2>3, <3>6, <4>2
        <5>2. i <= n /\ \E k \in x.kept : us[k].key = us[i].key /\ BetterDuplicate(us, k, i)
          BY <1>1, <2>4, <3>2, <5>1 DEF KeptAreBest
        <5>3. PICK k \in x.kept : us[k].key = us[i].key /\ BetterDuplicate(us, k, i)
          BY <5>2
        <5>4. CASE k \in same
          <6>1. BetterDuplicate(us, n, k) /\ us[k].key = us[n].key
            BY <1>4, <1>9, <5>4
          <6>2. BetterDuplicate(us, n, i)
            BY <1>1, <1>2, <5>3, <6>1, BetterIsOrder
          <6> QED
            BY <2>3, <5>2, <5>3, <6>1, <6>2
        <5>5. CASE k \notin same
          BY <2>3, <5>2, <5>3, <5>5
        <5> QED
          BY <5>4, <5>5
      <4> QED
        BY <4>1, <4>2
    <3> QED
      BY <1>1, <3>3, <3>4, <3>5, <3>6 DEF KeptAreBest
  <2> QED
    BY <1>5, <2>2, <2>4
<1> QED
  BY <1>7, <1>8, <1>9

(* What the loop that fills deduplicated ends in: the best with every key  *)
(* are kept, and a duplicate was thrown out for a better one that is kept. *)
LEMMA DeduplicatedFacts ==
  ASSUME NEW us, NEW max, UnitsFit(us, max), NEW gate, NEW N \in Nat, DOMAIN us = 1 .. N
  PROVE  Deduplicated(us, gate) \in Meetings(us) /\ KeptAreBest(us, N, Deduplicated(us, gate))
<1>1. PICK S : S = Meetings(us)
  OBVIOUS
<1>2. PICK start : start = [kept |-> {}, why |-> [i \in DOMAIN us |-> "pending"]]
  OBVIOUS
<1>3. start \in S /\ KeptAreBest(us, 0, start)
  BY <1>1, <1>2 DEF Meetings, Judgements, KeptAreBest
<1>4. \A n \in 1 .. N : [i \in DOMAIN us |-> i][n] = n
  OBVIOUS
<1>5. \A x \in S, n \in 1 .. N : Met(us, gate, x, [i \in DOMAIN us |-> i][n]) \in S
  BY <1>1, <1>4, MetKeeps
<1>6. PICK run : IsMetRun(run, S, N, us, gate)
  <2>1. [kept |-> {}, why |-> [i \in DOMAIN us |-> "pending"]] \in S
    BY <1>2, <1>3
  <2> QED
    BY <2>1, <1>5, MetRun
<1>7. /\ run \in [0 .. N -> S] /\ run[0] = start /\ run[N] = Deduplicated(us, gate)
      /\ \A n \in 1 .. N : run[n] = Met(us, gate, run[n - 1], n)
  BY <1>2, <1>4, <1>6, Zenon DEF IsMetRun
<1> DEFINE Good == {n \in 0 .. N : KeptAreBest(us, n, run[n])}
<1>8. 0 \in Good
  BY <1>3, <1>7
<1>9. ASSUME NEW n \in 1 .. N, n - 1 \in Good PROVE n \in Good
  <2>1. PICK x \in S : x = run[n - 1]
    BY <1>7, FirstPlaces
  <2>2. KeptAreBest(us, n - 1, x) /\ run[n] = Met(us, gate, x, n) /\ n \in 0 .. N
    BY <1>7, <1>9, <2>1
  <2>3. KeptAreBest(us, n, run[n])
    BY <1>1, <2>2, MetKeeps
  <2> QED
    BY <2>2, <2>3
<1>10. N \in Good
  <2> HIDE DEF Good
  <2> QED
    BY <1>8, <1>9, PlacesInduction
<1> QED
  BY <1>1, <1>7, <1>10

(* before[i] is what comes before i in a strict total order of K.          *)
IsOrder(K, before) ==
  /\ IsFiniteSet(K) /\ before \in [K -> SUBSET K]
  /\ \A i \in K : i \notin before[i]
  /\ \A i, j \in K : i # j => i \in before[j] \/ j \in before[i]
  /\ \A i, j, k \in K : i \in before[j] /\ j \in before[k] => i \in before[k]

(* How many come before.                                                   *)
Rank(before, i) == Cardinality(before[i])

(* The ranks are the places in the order, each taken once.                 *)
LEMMA RankFacts ==
  ASSUME NEW K, NEW before, IsOrder(K, before)
  PROVE  /\ Cardinality(K) \in Nat
         /\ \A i \in K : Rank(before, i) \in 0 .. Cardinality(K) - 1
         /\ \A i, j \in K : i \in before[j] => Rank(before, i) < Rank(before, j)
         /\ \A i, j \in K : Rank(before, i) = Rank(before, j) => i = j
         /\ \A n \in 0 .. Cardinality(K) - 1 : \E i \in K : Rank(before, i) = n
<1>1. PICK N \in Nat : N = Cardinality(K)
  BY FS_CardinalityType DEF IsOrder
<1>2. \A i \in K : IsFiniteSet(before[i]) /\ Rank(before, i) \in 0 .. N - 1
  <2>1. ASSUME NEW i \in K PROVE IsFiniteSet(before[i]) /\ Rank(before, i) \in 0 .. N - 1
    <3>1. before[i] \in SUBSET K /\ before[i] # K /\ IsFiniteSet(K)
      BY DEF IsOrder
    <3>2. IsFiniteSet(before[i]) /\ Cardinality(before[i]) \in Nat
      BY <3>1, FS_Subset, FS_CardinalityType
    <3>3. Cardinality(before[i]) <= N /\ Cardinality(before[i]) # N
      BY <1>1, <3>1, FS_Subset
    <3> QED
      BY <3>2, <3>3 DEF Rank
  <2> QED
    BY <2>1
<1>3. ASSUME NEW i \in K, NEW j \in K, i \in before[j]
      PROVE  Rank(before, i) < Rank(before, j)
  <2>1. before[i] \in SUBSET before[j] /\ before[i] # before[j]
    BY <1>3 DEF IsOrder
  <2>2. PICK a \in Nat, b \in Nat : a = Rank(before, i) /\ b = Rank(before, j)
    BY <1>2
  <2>3. a <= b /\ a # b
    BY <1>2, <2>1, <2>2, FS_Subset DEF Rank
  <2> QED
    BY <2>2, <2>3
<1>4. ASSUME NEW i \in K, NEW j \in K, Rank(before, i) = Rank(before, j)
      PROVE  i = j
  <2> SUFFICES ASSUME i # j PROVE FALSE
    OBVIOUS
  <2>1. i \in before[j] \/ j \in before[i]
    BY DEF IsOrder
  <2>2. Rank(before, i) < Rank(before, j) \/ Rank(before, j) < Rank(before, i)
    BY <1>3, <2>1
  <2> QED
    BY <1>2, <1>4, <2>2
<1>5. PICK places : places = 0 .. N - 1
  OBVIOUS
<1>6. PICK rank : rank = [i \in K |-> Rank(before, i)]
  OBVIOUS
<1>7. rank \in Injection(K, places)
  BY <1>2, <1>4, <1>5, <1>6 DEF Injection, IsInjective
<1>8. IsFiniteSet(places) /\ Cardinality(places) = N
  <2>1. 0 \in Int /\ N - 1 \in Int /\ (0 > N - 1 => N = 0) /\ (N - 1) - 0 + 1 = N
    OBVIOUS
  <2> QED
    BY <1>5, <2>1, FS_Interval
<1>9. rank \in Surjection(K, places)
  BY <1>1, <1>7, <1>8, FS_Injection
<1>10. \A n \in places : \E i \in K : Rank(before, i) = n
  BY <1>6, <1>9 DEF Surjection
<1> QED
  BY <1>1, <1>2, <1>3, <1>4, <1>5, <1>10

(* compareUnits: a strict total order of the units.                        *)
LEMMA CompareIsOrder ==
  ASSUME NEW us, NEW max, UnitsFit(us, max)
  PROVE  /\ \A i \in DOMAIN us : ~CompareUnits(us, i, i)
         /\ \A i, j \in DOMAIN us : i # j => CompareUnits(us, i, j) \/ CompareUnits(us, j, i)
         /\ \A i, j, k \in DOMAIN us :
              CompareUnits(us, i, j) /\ CompareUnits(us, j, k) => CompareUnits(us, i, k)
<1>1. \A i \in DOMAIN us : /\ i \in Nat /\ us[i].score \in Nat /\ us[i].tokens \in Nat
                           /\ us[i].kind \in {"summary", "detail"}
  BY DEF UnitsFit, IsUnit
<1>2. ASSUME NEW i \in DOMAIN us, NEW j \in DOMAIN us, i # j
      PROVE  CompareUnits(us, i, j) \/ CompareUnits(us, j, i)
  BY <1>1, <1>2 DEF CompareUnits
<1>3. ASSUME NEW i \in DOMAIN us, NEW j \in DOMAIN us, NEW k \in DOMAIN us,
             CompareUnits(us, i, j), CompareUnits(us, j, k)
      PROVE  CompareUnits(us, i, k)
  BY <1>1, <1>3 DEF CompareUnits
<1>4. ASSUME NEW i \in DOMAIN us PROVE ~CompareUnits(us, i, i)
  BY <1>1 DEF CompareUnits
<1> QED
  BY <1>2, <1>3, <1>4

(* Within a topic of a phase everybody has a turn, and one unit is best.   *)
LEMMA GroupFacts ==
  ASSUME NEW us, NEW max, UnitsFit(us, max), NEW kept \in SUBSET DOMAIN us, NEW i \in kept
  PROVE  /\ Turn(us, kept, i) \in Nat /\ Best(us, kept, i) \in Group(us, kept, i)
         /\ \A j \in Group(us, kept, i) :
              /\ Best(us, kept, j) = Best(us, kept, i)
              /\ Turn(us, kept, i) = Turn(us, kept, j) => i = j
<1>1. PICK G : G = Group(us, kept, i)
  OBVIOUS
<1>2. IsFiniteSet(G) /\ G \in SUBSET DOMAIN us
  <2>1. IsFiniteSet(DOMAIN us)
    BY FS_Interval DEF UnitsFit
  <2>2. G \in SUBSET DOMAIN us
    BY <1>1 DEF Group
  <2> QED
    BY <2>1, <2>2, FS_Subset
<1>3. PICK before : before = [j \in G |-> {k \in G : CompareUnits(us, k, j)}]
  OBVIOUS
<1>4. IsOrder(G, before)
  <2>1. \A j \in G : before[j] = {k \in G : CompareUnits(us, k, j)}
    BY <1>3
  <2>2. before \in [G -> SUBSET G]
    BY <1>3
  <2>3. \A j \in G : j \in DOMAIN us
    BY <1>2
  <2> QED
    BY <1>2, <2>1, <2>2, <2>3, CompareIsOrder DEF IsOrder
<1>5. i \in G /\ \A j \in G : Group(us, kept, j) = G
  BY <1>1 DEF Group
<1>6. \A j \in G : Turn(us, kept, j) = Rank(before, j)
  <2>1. ASSUME NEW j \in G PROVE Turn(us, kept, j) = Rank(before, j)
    <3>1. before[j] = {k \in Group(us, kept, j) : CompareUnits(us, k, j)}
      BY <1>3, <1>5
    <3> QED
      BY <3>1 DEF Turn, Rank
  <2> QED
    BY <2>1
<1>7. PICK b : b = CHOOSE k \in G : \A j \in G \ {k} : CompareUnits(us, k, j)
  OBVIOUS
<1>8. b \in G
  <2>1. Cardinality(G) \in Nat /\ Rank(before, i) \in 0 .. Cardinality(G) - 1
    BY <1>4, <1>5, RankFacts
  <2>2. 0 \in 0 .. Cardinality(G) - 1
    BY <2>1
  <2>3. PICK k \in G : Rank(before, k) = 0
    BY <1>4, <2>2, RankFacts
  <2>4. ASSUME NEW j \in G \ {k} PROVE CompareUnits(us, k, j)
    <3>1. ~CompareUnits(us, j, k)
      <4>1. before[k] = {}
        <5>1. IsFiniteSet(before[k])
          BY <1>4, FS_Subset DEF IsOrder
        <5> QED
          BY <2>3, <5>1, FS_EmptySet DEF Rank
      <4>2. before[k] = {l \in G : CompareUnits(us, l, k)}
        BY <1>3
      <4> QED
        BY <4>1, <4>2
    <3> QED
      BY <1>2, <3>1, CompareIsOrder
  <2> QED
    BY <1>7, <2>4
<1>9. \A j \in G : Best(us, kept, j) = b
  BY <1>5, <1>7, Zenon DEF Best
<1>10. \A j \in G : Rank(before, i) = Rank(before, j) => i = j
  BY <1>4, <1>5, RankFacts
<1>11. Turn(us, kept, i) \in Nat
  BY <1>4, <1>5, <1>6, RankFacts
<1> QED
  BY <1>1, <1>5, <1>6, <1>8, <1>9, <1>10, <1>11

(* orderedUnits puts the units that were kept in a strict total order, an  *)
(* earlier phase first.                                                    *)
LEMMA BeforeIsOrder ==
  ASSUME NEW us, NEW max, UnitsFit(us, max), NEW kept \in SUBSET DOMAIN us, NEW diverse,
         NEW before, before = [j \in kept |-> {k \in kept : Before(us, kept, diverse, k, j)}]
  PROVE  IsOrder(kept, before)
<1>1. IsFiniteSet(kept)
  BY FS_Interval, FS_Subset DEF UnitsFit
<1>2. \A j \in kept : before[j] = {k \in kept : Before(us, kept, diverse, k, j)}
  OBVIOUS
<1>3. before \in [kept -> SUBSET kept]
  OBVIOUS
<1>4. \A i \in DOMAIN us : us[i].phase \in Nat
  BY DEF UnitsFit, IsUnit, Phase
<1>5. PICK turn : turn = [i \in kept |-> Turn(us, kept, i)]
  OBVIOUS
<1>6. PICK best : best = [i \in kept |-> Best(us, kept, i)]
  OBVIOUS
<1>7. \A i \in kept : turn[i] \in Nat /\ best[i] \in DOMAIN us
  <2>1. ASSUME NEW i \in kept PROVE turn[i] \in Nat /\ best[i] \in DOMAIN us
    <3>1. Turn(us, kept, i) \in Nat /\ Best(us, kept, i) \in Group(us, kept, i)
      BY GroupFacts
    <3> QED
      BY <1>5, <1>6, <3>1 DEF Group
  <2> QED
    BY <2>1
<1>8. ASSUME NEW i \in kept, NEW j \in kept, us[i].phase = us[j].phase, turn[i] = turn[j], best[i] = best[j]
      PROVE  i = j
  <2>1. Best(us, kept, i) = Best(us, kept, j) /\ Turn(us, kept, i) = Turn(us, kept, j)
    BY <1>5, <1>6, <1>8
  <2>2. Best(us, kept, i) \in Group(us, kept, i) /\ Best(us, kept, j) \in Group(us, kept, j)
    BY GroupFacts
  <2>3. us[i].topic = us[j].topic
    BY <2>1, <2>2 DEF Group
  <2>4. j \in Group(us, kept, i)
    BY <1>8, <2>3 DEF Group
  <2> QED
    BY <2>1, <2>4, GroupFacts
<1>9. \A i, j \in kept :
        Before(us, kept, diverse, i, j) <=>
          \/ us[i].phase < us[j].phase
          \/ /\ us[i].phase = us[j].phase
             /\ IF ~diverse THEN CompareUnits(us, i, j)
                ELSE \/ turn[i] < turn[j]
                     \/ turn[i] = turn[j] /\ CompareUnits(us, best[i], best[j])
  BY <1>5, <1>6 DEF Before
<1>10. \A i \in kept : ~Before(us, kept, diverse, i, i)
  BY <1>4, <1>7, <1>9, CompareIsOrder
<1>11. ASSUME NEW i \in kept, NEW j \in kept, i # j
       PROVE  Before(us, kept, diverse, i, j) \/ Before(us, kept, diverse, j, i)
  <2>1. CompareUnits(us, i, j) \/ CompareUnits(us, j, i)
    BY <1>11, CompareIsOrder
  <2>2. best[i] # best[j] => CompareUnits(us, best[i], best[j]) \/ CompareUnits(us, best[j], best[i])
    BY <1>7, CompareIsOrder
  <2> QED
    BY <1>4, <1>7, <1>8, <1>9, <1>11, <2>1, <2>2
<1>12. ASSUME NEW i \in kept, NEW j \in kept, NEW k \in kept,
              Before(us, kept, diverse, i, j), Before(us, kept, diverse, j, k)
       PROVE  Before(us, kept, diverse, i, k)
  <2>1. CompareUnits(us, i, j) /\ CompareUnits(us, j, k) => CompareUnits(us, i, k)
    BY CompareIsOrder
  <2>2. CompareUnits(us, best[i], best[j]) /\ CompareUnits(us, best[j], best[k]) =>
          CompareUnits(us, best[i], best[k])
    BY <1>7, CompareIsOrder
  <2>3. us[i].phase \in Nat /\ us[j].phase \in Nat /\ us[k].phase \in Nat
    BY <1>4
  <2>4. turn[i] \in Nat /\ turn[j] \in Nat /\ turn[k] \in Nat
    BY <1>7
  <2> QED
    BY <1>9, <1>12, <2>1, <2>2, <2>3, <2>4
<1> QED
  BY <1>1, <1>2, <1>3, <1>10, <1>11, <1>12 DEF IsOrder

(* Everything kept is in the order once.                                   *)
Enumerates(order, us, kept) ==
  \E M \in Nat :
    /\ order \in [1 .. M -> kept]
    /\ \A i \in kept : \E n \in 1 .. M : order[n] = i
    /\ \A n, m \in 1 .. M : order[n] = order[m] => n = m
    /\ \A n, m \in 1 .. M : us[order[n]].phase < us[order[m]].phase => n < m

(* orderedUnits, in turns or not: everything kept has one place, and a     *)
(* phase comes before the ones behind it.                                  *)
LEMMA OrderFacts ==
  ASSUME NEW us, NEW max, UnitsFit(us, max), NEW kept \in SUBSET DOMAIN us, NEW diverse
  PROVE  Enumerates(OrderedUnits(us, kept, diverse), us, kept)
<1>1. PICK before : before = [j \in kept |-> {k \in kept : Before(us, kept, diverse, k, j)}]
  OBVIOUS
<1>2. IsOrder(kept, before)
  BY <1>1, BeforeIsOrder
<1>3. PICK M \in Nat : M = Cardinality(kept)
  BY <1>2, RankFacts
<1>4. PICK order : order = OrderedUnits(us, kept, diverse)
  OBVIOUS
<1>5. \A i \in kept : Cardinality({k \in kept : Before(us, kept, diverse, k, i)}) = Rank(before, i)
  BY <1>1 DEF Rank
<1> DEFINE At(n) ==
      CHOOSE i \in kept : Cardinality({k \in kept : Before(us, kept, diverse, k, i)}) = n - 1
<1>6. order = [n \in 1 .. M |-> At(n)]
  BY <1>3, <1>4, Zenon DEF OrderedUnits
<1>7. \A n \in 1 .. M : order[n] \in kept /\ Rank(before, order[n]) = n - 1
  <2>1. ASSUME NEW n \in 1 .. M PROVE order[n] \in kept /\ Rank(before, order[n]) = n - 1
    <3>1. n - 1 \in 0 .. M - 1
      OBVIOUS
    <3>2. PICK i \in kept : Rank(before, i) = n - 1
      BY <1>2, <1>3, <3>1, RankFacts
    <3>3. order[n] = At(n)
      BY <1>6
    <3>4. Cardinality({k \in kept : Before(us, kept, diverse, k, i)}) = n - 1
      BY <1>5, <3>2
    <3>5. /\ order[n] \in kept
          /\ Cardinality({k \in kept : Before(us, kept, diverse, k, order[n])}) = n - 1
      BY <3>3, <3>4, Zenon
    <3> QED
      BY <1>5, <3>5
  <2> QED
    BY <2>1
<1>8. order \in [1 .. M -> kept]
  <2> HIDE DEF At
  <2>1. order = [n \in 1 .. M |-> order[n]]
    BY <1>6
  <2> QED
    BY <1>7, <2>1
<1> HIDE DEF At
<1>9. ASSUME NEW i \in kept PROVE \E n \in 1 .. M : order[n] = i
  <2>1. Rank(before, i) \in 0 .. M - 1
    BY <1>2, <1>3, RankFacts
  <2>2. PICK n \in 1 .. M : n - 1 = Rank(before, i)
    <3>1. Rank(before, i) + 1 \in 1 .. M /\ (Rank(before, i) + 1) - 1 = Rank(before, i)
      BY <2>1
    <3> QED
      BY <3>1
  <2>3. order[n] \in kept /\ Rank(before, order[n]) = Rank(before, i)
    BY <1>7, <2>2
  <2>4. order[n] = i
    BY <1>2, <2>3, RankFacts
  <2> QED
    BY <2>4
<1>10. \A n, m \in 1 .. M : order[n] = order[m] => n = m
  BY <1>7
<1>11. ASSUME NEW n \in 1 .. M, NEW m \in 1 .. M, us[order[n]].phase < us[order[m]].phase
       PROVE  n < m
  <2>1. PICK i \in kept, j \in kept : i = order[n] /\ j = order[m]
    BY <1>7
  <2>2. Before(us, kept, diverse, i, j)
    BY <1>11, <2>1 DEF Before
  <2>3. i \in before[j]
    BY <1>1, <2>2
  <2>4. Rank(before, i) < Rank(before, j)
    BY <1>2, <2>3, RankFacts
  <2>5. Rank(before, i) = n - 1 /\ Rank(before, j) = m - 1
    BY <1>7, <2>1
  <2> QED
    BY <2>4, <2>5
<1> QED
  BY <1>4, <1>8, <1>9, <1>10, <1>11 DEF Enumerates

(* The tokens of some units, in whatever order they are added up.          *)

(* One more unit adds its tokens, whichever unit it is.                    *)
LEMMA TotalAdds ==
  ASSUME NEW us, NEW max, UnitsFit(us, max), NEW T \in SUBSET DOMAIN us
  PROVE  /\ Total(us, {}) = 0
         /\ \A i \in DOMAIN us \ T : Total(us, T \cup {i}) = Total(us, T) + us[i].tokens
<1>1. PICK D : D = DOMAIN us
  OBVIOUS
<1>2. IsFiniteSet(D) /\ \A j \in D : us[j].tokens \in Nat
  BY <1>1, FS_Interval DEF UnitsFit, IsUnit
<1>3. PICK step : step = [x \in Nat |-> [j \in D |-> us[j].tokens + x]]
  OBVIOUS
<1>4. \A x \in Nat, j \in D : step[x][j] = us[j].tokens + x
  BY <1>3
<1>5. step \in [Nat -> [D -> Nat]]
  <2>1. ASSUME NEW x \in Nat PROVE step[x] \in [D -> Nat]
    <3>1. step[x] = [j \in D |-> us[j].tokens + x]
      BY <1>3
    <3> QED
      BY <1>2, <3>1
  <2> QED
    BY <1>3, <2>1
<1>6. PICK pick : pick = [s \in SUBSET D |-> CHOOSE x \in s : TRUE]
  OBVIOUS
<1>7. \A s \in SUBSET D : pick[s] = CHOOSE x \in s : TRUE
  BY <1>6
<1>8. \A s \in SUBSET D : s # {} => pick[s] \in s
  BY <1>7
<1>9. PICK g : IsFoldOf(g, Nat, D, 0, step, pick)
  BY <1>2, <1>5, <1>8, FoldExists
<1>10. /\ g \in [SUBSET D -> Nat] /\ g[{}] = 0
       /\ \A s \in SUBSET D : s # {} => g[s] = us[pick[s]].tokens + g[s \ {pick[s]}]
  <2>1. /\ g \in [SUBSET D -> Nat]
        /\ \A s \in SUBSET D : g[s] = IF s = {} THEN 0 ELSE step[g[s \ {pick[s]}]][pick[s]]
    BY <1>9 DEF IsFoldOf
  <2>2. g[{}] = 0
    BY <2>1
  <2>3. ASSUME NEW s \in SUBSET D, s # {} PROVE g[s] = us[pick[s]].tokens + g[s \ {pick[s]}]
    <3>1. pick[s] \in D /\ s \ {pick[s]} \in SUBSET D
      BY <1>8, <2>3
    <3>2. g[s \ {pick[s]}] \in Nat
      BY <2>1, <3>1
    <3> QED
      BY <1>4, <2>1, <2>3, <3>1, <3>2
  <2> QED
    BY <2>1, <2>2, <2>3
<1>11. \A s \in SUBSET D : IsFiniteSet(s) /\ Cardinality(s) \in Nat /\ (Cardinality(s) = 0 => s = {})
  BY <1>2, FS_Subset, FS_CardinalityType, FS_EmptySet
<1>12. \A s \in SUBSET D : \A x \in s : Cardinality(s \ {x}) = Cardinality(s) - 1
  BY <1>11, FS_RemoveElement
<1> DEFINE Free == {n \in Nat : \A s \in SUBSET D : Cardinality(s) = n =>
                      \A x \in s : g[s] = us[x].tokens + g[s \ {x}]}
<1>13. Nat \subseteq Free
  <2>1. 0 \in Free
    BY <1>11
  <2>2. ASSUME NEW n \in Nat, n \in Free PROVE n + 1 \in Free
    <3>1. ASSUME NEW s \in SUBSET D, Cardinality(s) = n + 1, NEW x \in s
          PROVE  g[s] = us[x].tokens + g[s \ {x}]
      <4>1. PICK c \in s : c = pick[s]
        BY <1>8, <3>1
      <4>2. CASE c = x
        BY <1>10, <4>1, <4>2
      <4>3. CASE c # x
        <5>1. PICK a, b, ab : a = s \ {c} /\ b = s \ {x} /\ ab = (s \ {c}) \ {x}
          OBVIOUS
        <5>2. /\ a \in SUBSET D /\ b \in SUBSET D /\ ab \in SUBSET D /\ ab = b \ {c} /\ ab = a \ {x}
              /\ x \in a /\ c \in b
          BY <4>3, <5>1
        <5>3. Cardinality(a) = n /\ Cardinality(b) = n
          BY <1>12, <3>1, <5>1
        <5>4. g[a] = us[x].tokens + g[ab] /\ g[b] = us[c].tokens + g[ab]
          BY <2>2, <5>2, <5>3
        <5>5. g[s] = us[c].tokens + g[a]
          BY <1>10, <4>1, <5>1
        <5>6. us[c].tokens \in Nat /\ us[x].tokens \in Nat /\ g[ab] \in Nat
          BY <1>2, <1>10, <5>2
        <5> QED
          BY <5>1, <5>4, <5>5, <5>6
      <4> QED
        BY <4>2, <4>3
    <3> QED
      BY <3>1
  <2> HIDE DEF Free
  <2> QED
    BY <2>1, <2>2, InductionOverNat
<1>14. ASSUME NEW s \in SUBSET D, NEW x \in s PROVE g[s] = us[x].tokens + g[s \ {x}]
  <2>1. Cardinality(s) \in Free
    BY <1>11, <1>13
  <2> QED
    BY <2>1
<1> HIDE DEF Free
<1>15. ASSUME NEW S \in SUBSET D PROVE Total(us, S) = g[S]
  <2> DEFINE Pick(s) == CHOOSE x \in s : TRUE
             IsSum(f) == f = [s \in SUBSET S |->
                IF s = {} THEN 0 ELSE us[Pick(s)].tokens + f[s \ {Pick(s)}]]
  <2>1. \A s \in SUBSET S : pick[s] = Pick(s)
    BY <1>7
  <2>2. PICK k : k = [s \in SUBSET S |-> g[s]]
    OBVIOUS
  <2>3. IsSum(k)
    <3>1. \A s \in SUBSET S : s \ {pick[s]} \in SUBSET S /\ s \in SUBSET D
      OBVIOUS
    <3>2. ASSUME NEW s \in SUBSET S
          PROVE  k[s] = IF s = {} THEN 0 ELSE us[Pick(s)].tokens + k[s \ {Pick(s)}]
      <4> HIDE DEF Pick
      <4> QED
        BY <1>10, <2>1, <2>2, <3>1
    <3> HIDE DEF Pick
    <3>3. k = [s \in SUBSET S |-> k[s]]
      BY <2>2
    <3> QED
      BY <3>2, <3>3
  <2>4. PICK h : h = CHOOSE f : IsSum(f)
    OBVIOUS
  <2>5. IsSum(h)
    <3> HIDE DEF IsSum
    <3> QED
      BY <2>3, <2>4
  <2>6. Total(us, S) = h[S]
    BY <2>4, Zenon DEF Total, MapThenSumSet, MapThenFoldSet
  <2>7. \A s \in SUBSET S : h[s] = IF s = {} THEN 0 ELSE us[pick[s]].tokens + h[s \ {pick[s]}]
    <3> HIDE DEF Pick
    <3> QED
      BY <2>1, <2>5
  <2> HIDE DEF IsSum, Pick
  <2> DEFINE Same == {n \in Nat : \A s \in SUBSET S : Cardinality(s) = n => h[s] = g[s]}
  <2>8. 0 \in Same
    BY <1>10, <1>11, <2>7
  <2>9. ASSUME NEW n \in Nat, n \in Same PROVE n + 1 \in Same
    <3>1. ASSUME NEW s \in SUBSET S, Cardinality(s) = n + 1 PROVE h[s] = g[s]
      <4>1. s # {} /\ s \in SUBSET D
        BY <3>1, FS_EmptySet
      <4>2. pick[s] \in s /\ s \ {pick[s]} \in SUBSET S /\ Cardinality(s \ {pick[s]}) = n
        BY <1>8, <1>12, <3>1, <4>1
      <4>3. h[s \ {pick[s]}] = g[s \ {pick[s]}]
        BY <2>9, <4>2
      <4> QED
        BY <1>10, <2>7, <4>1, <4>3
    <3> QED
      BY <3>1
  <2>10. Cardinality(S) \in Same
    <3> HIDE DEF Same
    <3> QED
      BY <1>11, <2>8, <2>9, InductionOverNat
  <2> QED
    BY <2>6, <2>10
<1>16. ASSUME NEW i \in D \ T PROVE Total(us, T \cup {i}) = Total(us, T) + us[i].tokens
  <2>1. T \in SUBSET D /\ T \cup {i} \in SUBSET D /\ (T \cup {i}) \ {i} = T
    BY <1>1
  <2>2. g[T \cup {i}] = us[i].tokens + g[T]
    BY <1>14, <2>1
  <2>3. g[T] \in Nat /\ us[i].tokens \in Nat
    BY <1>2, <1>10, <2>1
  <2> QED
    BY <1>15, <2>1, <2>2, <2>3
<1>17. Total(us, {}) = 0
  BY <1>10, <1>15
<1> QED
  BY <1>1, <1>16, <1>17

(* The units in their order, taken one by one.                             *)
IsTakenRun(run, S, N, us, r, why, order) ==
  /\ run \in [0 .. N -> S] /\ run[0] = [why |-> why, chosen |-> <<>>, used |-> 0]
  /\ run[N] = TakeInOrder(us, r, why, order)
  /\ \A n \in 1 .. N : run[n] = Taken(us, r, run[n - 1], order[n])

(* TakeInOrder, what the loop over the ordered units ends in, is the end   *)
(* of such a run.                                                          *)
LEMMA TakenRun ==
  ASSUME NEW us, NEW r, NEW why, NEW order,
         NEW N \in Nat, DOMAIN order = 1 .. N,
         NEW S, [why |-> why, chosen |-> <<>>, used |-> 0] \in S,
         \A x \in S, n \in 1 .. N : Taken(us, r, x, order[n]) \in S
  PROVE  \E run : IsTakenRun(run, S, N, us, r, why, order)
<1>1. DOMAIN order = 1 .. N
  OBVIOUS
<1>2. PICK step : step = [x \in S |-> [n \in 1 .. N |-> Taken(us, r, x, order[n])]]
  OBVIOUS
<1>3. \A x \in S, n \in 1 .. N : step[x][n] = Taken(us, r, x, order[n])
  BY <1>2, Zenon
<1>4. step \in [S -> [1 .. N -> S]]
  <2>1. ASSUME NEW x \in S PROVE step[x] \in [1 .. N -> S]
    <3>1. step[x] = [n \in 1 .. N |-> Taken(us, r, x, order[n])]
      BY <1>2, Zenon
    <3> QED
      BY <3>1
  <2> QED
    BY <1>2, <2>1
<1>5. PICK start \in S : start = [why |-> why, chosen |-> <<>>, used |-> 0]
  OBVIOUS
<1> DEFINE IsFold(f) == f = [s \in SUBSET DOMAIN order |->
             IF s = {} THEN [why |-> why, chosen |-> <<>>, used |-> 0]
             ELSE Taken(us, r, f[s \ {Max(s)}], order[Max(s)])]
<1>6. \E h : IsFold(h)
  <2>1. PICK pick : pick = [s \in SUBSET (1 .. N) |-> Max(s)]
    OBVIOUS
  <2>2. \A s \in SUBSET (1 .. N) : s # {} => pick[s] \in s
    BY <2>1, MaxIn
  <2>3. PICK g : IsFoldOf(g, S, 1 .. N, start, step, pick)
    <3>1. IsFiniteSet(1 .. N)
      BY FS_Interval
    <3> QED
      BY <3>1, <2>2, <1>4, FoldExists, Zenon
  <2>4. PICK h : h = [s \in SUBSET DOMAIN order |->
                   IF s = {} THEN [why |-> why, chosen |-> <<>>, used |-> 0]
                   ELSE Taken(us, r, g[s \ {Max(s)}], order[Max(s)])]
    OBVIOUS
  <2>5. ASSUME NEW s \in SUBSET (1 .. N) PROVE h[s] = g[s]
    <3>1. h[s] = IF s = {} THEN [why |-> why, chosen |-> <<>>, used |-> 0]
                 ELSE Taken(us, r, g[s \ {Max(s)}], order[Max(s)])
      BY <2>4, <1>1, Zenon
    <3>2. CASE s # {}
      <4>1. pick[s] = Max(s) /\ Max(s) \in 1 .. N
        BY <3>2, <2>1, MaxIn
      <4>2. PICK x \in S, n \in 1 .. N : x = g[s \ {Max(s)}] /\ n = Max(s)
        BY <2>3, <4>1 DEF IsFoldOf
      <4>3. g[s] = step[x][n]
        BY <2>3, <3>2, <4>1, <4>2, Zenon DEF IsFoldOf
      <4> QED
        BY <1>3, <4>2, <4>3, <3>1, <3>2, Zenon
    <3>3. CASE s = {}
      BY <2>3, <3>1, <3>3, <1>5, Zenon DEF IsFoldOf
    <3> QED
      BY <3>2, <3>3
  <2>6. h = g
    BY <2>3, <2>4, <2>5, <1>1 DEF IsFoldOf
  <2> QED
    BY <2>4, <2>6, Zenon
<1>7. PICK h : h = CHOOSE f : IsFold(f)
  OBVIOUS
<1>8. IsFold(h)
  <2> HIDE DEF IsFold
  <2> QED
    BY <1>6, <1>7
<1>9. TakeInOrder(us, r, why, order) = h[1 .. N]
  BY <1>1, <1>7, Zenon DEF TakeInOrder, FoldLeft, MapThenFoldSet
<1>10. \A s \in SUBSET (1 .. N) :
         h[s] = IF s = {} THEN [why |-> why, chosen |-> <<>>, used |-> 0]
                ELSE Taken(us, r, h[s \ {Max(s)}], order[Max(s)])
  BY <1>8, <1>1, Zenon
<1>11. h[{}] = start
  <2>1. {} \in SUBSET (1 .. N)
    OBVIOUS
  <2> QED
    BY <2>1, <1>5, <1>10, Zenon
<1>12. \A s \in SUBSET (1 .. N) :
         s # {} /\ h[s \ {Max(s)}] \in S => h[s] = step[h[s \ {Max(s)}]][Max(s)]
  <2>1. ASSUME NEW s \in SUBSET (1 .. N), s # {}, h[s \ {Max(s)}] \in S
        PROVE  h[s] = step[h[s \ {Max(s)}]][Max(s)]
    <3>1. PICK x \in S, n \in 1 .. N : x = h[s \ {Max(s)}] /\ n = Max(s)
      BY <2>1, MaxIn
    <3> QED
      BY <1>3, <1>10, <2>1, <3>1, Zenon
  <2> QED
    BY <2>1
<1> HIDE DEF IsFold
<1>13. PICK run : IsRunOf(run, h, S, N, start, step)
  <2>1. IsPlaceFold(h, S, N, start, step)
    BY <1>4, <1>11, <1>12 DEF IsPlaceFold
  <2> QED
    BY <2>1, FoldRun
<1>14. /\ run \in [0 .. N -> S] /\ run[0] = start /\ run[N] = h[1 .. N]
       /\ \A n \in 1 .. N : run[n] = step[run[n - 1]][n]
  BY <1>13 DEF IsRunOf
<1>15. ASSUME NEW n \in 1 .. N PROVE run[n] = Taken(us, r, run[n - 1], order[n])
  <2>1. PICK x \in S : x = run[n - 1]
    BY <1>14, FirstPlaces
  <2> QED
    BY <1>3, <1>14, <2>1, Zenon
<1> QED
  BY <1>5, <1>9, <1>14, <1>15 DEF IsTakenRun

(* What the loop over the ordered units can say.                           *)
Skips == {"budget", "max-chunks", "max-sources", "parent-not-selected"}
Verdicts == Judgements \cup Skips \cup {"selected"}
Selections(us) == [why : [DOMAIN us -> Verdicts], chosen : Seq(DOMAIN us), used : Nat]

(* The sources of what was chosen.                                         *)
SourcesOf(us, chosen) == {us[k].source : k \in ToSet(chosen)}

(* Why a unit is not taken, or "selected".                                 *)
Verdict(us, r, x, i) ==
  IF Len(x.chosen) >= r.maxChunks THEN "max-chunks"
  ELSE IF us[i].parent # None /\ us[i].parent \notin SourcesOf(us, x.chosen) THEN "parent-not-selected"
  ELSE IF us[i].source \notin SourcesOf(us, x.chosen)
          /\ Cardinality(SourcesOf(us, x.chosen)) >= r.maxSources THEN "max-sources"
  ELSE IF us[i].tokens > r.budget - x.used THEN "budget" ELSE "selected"

(* What was kept, in its order.                                            *)
InOrder(us, max, kept, order, M) ==
  /\ UnitsFit(us, max) /\ kept \in SUBSET DOMAIN us
  /\ \A i \in kept : us[i].issue = "none"
  /\ \A i, k \in kept : us[i].key = us[k].key => i = k
  /\ M \in Nat /\ order \in [1 .. M -> kept]
  /\ \A i \in kept : \E n \in 1 .. M : order[n] = i
  /\ \A n, m \in 1 .. M : order[n] = order[m] => n = m
  /\ \A n, m \in 1 .. M : us[order[n]].phase < us[order[m]].phase => n < m

(* What was chosen of the first n, and why the others of them were not.    *)
TakenSoFar(us, order, n, x) ==
  /\ \A m \in DOMAIN x.chosen : \E k \in 1 .. n : x.chosen[m] = order[k]
  /\ \A m, l \in DOMAIN x.chosen : x.chosen[m] = x.chosen[l] => m = l
  /\ \A m \in DOMAIN x.chosen : us[x.chosen[m]].parent # None =>
       \E l \in 1 .. m - 1 : us[x.chosen[l]].source = us[x.chosen[m]].parent

(* What was chosen keeps the limits.                                       *)
InLimits(us, r, x) ==
  /\ x.used = Total(us, ToSet(x.chosen)) /\ x.used <= r.budget
  /\ Len(x.chosen) <= r.maxChunks
  /\ IsFiniteSet(SourcesOf(us, x.chosen))
  /\ Cardinality(SourcesOf(us, x.chosen)) <= r.maxSources

(* A reason that was given is true of what has been chosen up to now.      *)
Stands(us, r, x, i) ==
  /\ x.why[i] \in Skips \cup {"selected"}
  /\ x.why[i] = "budget" => us[i].tokens > r.budget - x.used
  /\ x.why[i] = "max-chunks" => Len(x.chosen) = r.maxChunks
  /\ x.why[i] = "max-sources" => us[i].source \notin SourcesOf(us, x.chosen)
                                 /\ Cardinality(SourcesOf(us, x.chosen)) = r.maxSources
  /\ x.why[i] = "parent-not-selected" => us[i].parent # None
                                         /\ us[i].parent \notin SourcesOf(us, x.chosen)

(* The first n in the order have true reasons, what was not kept has its   *)
(* old one.                                                                *)
Explained(us, r, kept, order, why, n, x) ==
  /\ \A i \in DOMAIN us \ kept : x.why[i] = why[i]
  /\ \A k \in DOMAIN order : k <= n => Stands(us, r, x, order[k])

(* What the loop does with a unit: skips it for the reason, or takes it.   *)
LEMMA TakenIs ==
  ASSUME NEW us, NEW r, NEW x, NEW i
  PROVE  /\ Verdict(us, r, x, i) # "selected" =>
              Taken(us, r, x, i) = [x EXCEPT !.why[i] = Verdict(us, r, x, i)]
         /\ Verdict(us, r, x, i) = "selected" =>
              Taken(us, r, x, i) = [why |-> [x.why EXCEPT ![i] = "selected"],
                                    chosen |-> Append(x.chosen, i), used |-> x.used + us[i].tokens]
BY Zenon DEF Taken, Verdict, SourcesOf

(* One more.                                                               *)
LEMMA ChosenAppend ==
  ASSUME NEW us, NEW chosen \in Seq(DOMAIN us), NEW i \in DOMAIN us
  PROVE  /\ Append(chosen, i) \in Seq(DOMAIN us) /\ Len(Append(chosen, i)) = Len(chosen) + 1
         /\ ToSet(Append(chosen, i)) = ToSet(chosen) \cup {i}
         /\ SourcesOf(us, Append(chosen, i)) = SourcesOf(us, chosen) \cup {us[i].source}
         /\ \A m \in DOMAIN Append(chosen, i) :
              IF m = Len(chosen) + 1 THEN Append(chosen, i)[m] = i
              ELSE m \in DOMAIN chosen /\ Append(chosen, i)[m] = chosen[m]
         /\ \A m \in DOMAIN chosen : m \in DOMAIN Append(chosen, i) /\ m # Len(chosen) + 1
                                     /\ Append(chosen, i)[m] = chosen[m]
         /\ Len(chosen) + 1 \in DOMAIN Append(chosen, i) /\ Append(chosen, i)[Len(chosen) + 1] = i
<1>1. PICK D : D = DOMAIN us
  OBVIOUS
<1>2. PICK N \in Nat : N = Len(chosen) /\ DOMAIN chosen = 1 .. N /\ chosen \in Seq(D)
  BY <1>1
<1>3. PICK longer \in Seq(D) : longer = Append(chosen, i) /\ Len(longer) = N + 1
  <2>1. Append(chosen, i) \in Seq(D) /\ Len(Append(chosen, i)) = N + 1
    BY <1>1, <1>2
  <2> QED
    BY <2>1
<1>4. DOMAIN longer = 1 .. N + 1 /\ \A m \in 1 .. N + 1 : longer[m] = IF m = N + 1 THEN i ELSE chosen[m]
  BY <1>2, <1>3
<1>5. ToSet(longer) = ToSet(chosen) \cup {i}
  BY <1>2, <1>4 DEF ToSet
<1>6. SourcesOf(us, longer) = SourcesOf(us, chosen) \cup {us[i].source}
  BY <1>5 DEF SourcesOf
<1> QED
  BY <1>1, <1>2, <1>3, <1>4, <1>5, <1>6

(* What the loop needs of a request.                                       *)
IsBudget(r) == r.budget \in Nat /\ r.maxChunks \in Nat /\ r.maxSources \in Nat

(* The invariant of the loop over the ordered units, after n of them.      *)
LoopInv(us, r, kept, order, why, n, x) ==
  /\ TakenSoFar(us, order, n, x) /\ InLimits(us, r, x)
  /\ Explained(us, r, kept, order, why, n, x)

(* What a reason says of the selection at the moment it is given.          *)
LEMMA VerdictFacts ==
  ASSUME NEW us, NEW r, NEW x, NEW i, IsBudget(r), x.chosen \in Seq(DOMAIN us), InLimits(us, r, x)
  PROVE  /\ Verdict(us, r, x, i) \in Skips \cup {"selected"}
         /\ Verdict(us, r, x, i) = "budget" => us[i].tokens > r.budget - x.used
         /\ Verdict(us, r, x, i) = "max-chunks" => Len(x.chosen) = r.maxChunks
         /\ Verdict(us, r, x, i) = "max-sources" =>
              /\ us[i].source \notin SourcesOf(us, x.chosen)
              /\ Cardinality(SourcesOf(us, x.chosen)) = r.maxSources
         /\ Verdict(us, r, x, i) = "parent-not-selected" =>
              us[i].parent # None /\ us[i].parent \notin SourcesOf(us, x.chosen)
         /\ Verdict(us, r, x, i) = "selected" =>
              /\ Len(x.chosen) + 1 <= r.maxChunks
              /\ us[i].parent # None => us[i].parent \in SourcesOf(us, x.chosen)
              /\ us[i].source \in SourcesOf(us, x.chosen)
                 \/ Cardinality(SourcesOf(us, x.chosen)) + 1 <= r.maxSources
              /\ ~(us[i].tokens > r.budget - x.used)
<1>1. Len(x.chosen) \in Nat /\ Len(x.chosen) <= r.maxChunks /\ r.maxChunks \in Nat
  BY DEF InLimits, IsBudget
<1>2. /\ Cardinality(SourcesOf(us, x.chosen)) \in Nat /\ r.maxSources \in Nat
      /\ Cardinality(SourcesOf(us, x.chosen)) <= r.maxSources
  BY FS_CardinalityType DEF InLimits, IsBudget
<1> HIDE DEF None
<1> QED
  BY <1>1, <1>2 DEF Verdict, Skips

(* A unit that is skipped leaves the selection as it is, and its reason    *)
(* holds.                                                                  *)
LEMMA SkipKeeps ==
  ASSUME NEW us, NEW max, NEW kept, NEW order, NEW M, InOrder(us, max, kept, order, M),
         NEW r, IsBudget(r), NEW why, NEW n \in 1 .. M, NEW x \in Selections(us),
         LoopInv(us, r, kept, order, why, n - 1, x),
         Verdict(us, r, x, order[n]) # "selected"
  PROVE  LoopInv(us, r, kept, order, why, n, Taken(us, r, x, order[n]))
<1>1. PICK i \in kept : i = order[n] /\ i \in DOMAIN us
  BY DEF InOrder
<1>2. PICK v : v = Verdict(us, r, x, i)
  OBVIOUS
<1>3. PICK y : y = Taken(us, r, x, i) /\ y = [x EXCEPT !.why[i] = v]
  BY <1>1, <1>2, TakenIs
<1>4. x.why \in [DOMAIN us -> Verdicts] /\ x.chosen \in Seq(DOMAIN us) /\ x.used \in Nat
  BY DEF Selections
<1>5. /\ y.chosen = x.chosen /\ y.used = x.used
      /\ \A j \in DOMAIN us : y.why[j] = IF j = i THEN v ELSE x.why[j]
  <2>1. PICK w : w = x.why
    OBVIOUS
  <2>2. x = [why |-> w, chosen |-> x.chosen, used |-> x.used]
    BY <2>1 DEF Selections
  <2>3. y = [why |-> [w EXCEPT ![i] = v], chosen |-> x.chosen, used |-> x.used]
    BY <1>3, <2>1, <2>2
  <2> QED
    BY <1>4, <2>1, <2>3
<1>6. TakenSoFar(us, order, n, y)
  <2>1. \A m \in DOMAIN x.chosen : \E k \in 1 .. n : x.chosen[m] = order[k]
    BY DEF LoopInv, TakenSoFar
  <2> QED
    BY <1>5, <2>1 DEF LoopInv, TakenSoFar
<1>7. InLimits(us, r, y)
  BY <1>5 DEF LoopInv, InLimits
<1>8. Stands(us, r, y, i)
  <2>1. /\ v \in Skips \cup {"selected"}
        /\ v = "budget" => us[i].tokens > r.budget - x.used
        /\ v = "max-chunks" => Len(x.chosen) = r.maxChunks
        /\ v = "max-sources" => /\ us[i].source \notin SourcesOf(us, x.chosen)
                                /\ Cardinality(SourcesOf(us, x.chosen)) = r.maxSources
        /\ v = "parent-not-selected" =>
             us[i].parent # None /\ us[i].parent \notin SourcesOf(us, x.chosen)
    BY <1>2, <1>4, VerdictFacts DEF LoopInv
  <2>2. y.why[i] = v
    BY <1>1, <1>5
  <2> HIDE DEF None
  <2> QED
    BY <1>5, <2>1, <2>2 DEF Stands
<1>9. ASSUME NEW k \in DOMAIN order, k <= n PROVE Stands(us, r, y, order[k])
  <2>1. CASE k = n
    BY <1>1, <1>8, <2>1
  <2>2. CASE k # n
    <3>1. PICK j \in kept : j = order[k] /\ j \in DOMAIN us /\ j # i
      BY <1>1, <2>2 DEF InOrder
    <3>2. k <= n - 1
      BY <1>9, <2>2 DEF InOrder
    <3>3. Stands(us, r, x, j)
      BY <3>1, <3>2 DEF LoopInv, Explained
    <3>4. y.why[j] = x.why[j]
      BY <1>5, <3>1
    <3> QED
      BY <1>5, <3>1, <3>3, <3>4 DEF Stands
  <2> QED
    BY <2>1, <2>2
<1>10. \A j \in DOMAIN us \ kept : y.why[j] = why[j]
  BY <1>1, <1>5 DEF LoopInv, Explained
<1> QED
  BY <1>1, <1>3, <1>6, <1>7, <1>9, <1>10 DEF LoopInv, Explained

(* A unit that is taken leaves every earlier reason true. Less is left of  *)
(* the budget. The chunks were not full. A source that was one too many is *)
(* not this unit's, as only a source that is chosen already gets by full   *)
(* sources. And this unit is of no parent that was missed before, as units *)
(* come phase by phase.                                                    *)
LEMMA TakeKeeps ==
  ASSUME NEW us, NEW max, NEW kept, NEW order, NEW M, InOrder(us, max, kept, order, M),
         NEW r, IsBudget(r), NEW why, NEW n \in 1 .. M, NEW x \in Selections(us),
         LoopInv(us, r, kept, order, why, n - 1, x),
         Verdict(us, r, x, order[n]) = "selected"
  PROVE  LoopInv(us, r, kept, order, why, n, Taken(us, r, x, order[n]))
<1>1. PICK i \in kept : i = order[n] /\ i \in DOMAIN us
  BY DEF InOrder
<1>2. x.why \in [DOMAIN us -> Verdicts] /\ x.chosen \in Seq(DOMAIN us) /\ x.used \in Nat
  BY DEF Selections
<1>3. PICK chosen \in Seq(DOMAIN us) : chosen = x.chosen
  BY <1>2
<1>4. PICK longer \in Seq(DOMAIN us) : longer = Append(chosen, i)
  BY <1>1, ChosenAppend
<1>5. PICK y : y = Taken(us, r, x, i)
               /\ y = [why |-> [x.why EXCEPT ![i] = "selected"], chosen |-> longer,
                       used |-> x.used + us[i].tokens]
  BY <1>1, <1>3, <1>4, TakenIs
<1>6. /\ y.chosen = longer /\ y.used = x.used + us[i].tokens
      /\ \A j \in DOMAIN us : y.why[j] = IF j = i THEN "selected" ELSE x.why[j]
  BY <1>2, <1>5
<1>7. us[i].tokens \in Nat
  BY <1>1 DEF InOrder, UnitsFit, IsUnit
<1>8. /\ Len(chosen) + 1 <= r.maxChunks
      /\ us[i].parent # None => us[i].parent \in SourcesOf(us, chosen)
      /\ us[i].source \in SourcesOf(us, chosen)
         \/ Cardinality(SourcesOf(us, chosen)) + 1 <= r.maxSources
      /\ ~(us[i].tokens > r.budget - x.used)
  BY <1>1, <1>2, <1>3, VerdictFacts DEF LoopInv
<1>9. PICK N \in Nat : N = Len(chosen) /\ DOMAIN chosen = 1 .. N
  OBVIOUS
<1>10. /\ Len(longer) = N + 1 /\ DOMAIN longer = 1 .. N + 1
       /\ ToSet(longer) = ToSet(chosen) \cup {i}
       /\ SourcesOf(us, longer) = SourcesOf(us, chosen) \cup {us[i].source}
       /\ longer[N + 1] = i /\ \A m \in 1 .. N : longer[m] = chosen[m]
  BY <1>1, <1>4, <1>9, ChosenAppend
<1>11. \A m \in 1 .. N : \E k \in 1 .. n - 1 : chosen[m] = order[k]
  BY <1>3, <1>9 DEF LoopInv, TakenSoFar
<1>12. \A m \in 1 .. N : chosen[m] # i
  <2>1. ASSUME NEW m \in 1 .. N PROVE chosen[m] # i
    <3>1. PICK k \in 1 .. n - 1 : chosen[m] = order[k]
      BY <1>11
    <3>2. k \in 1 .. M /\ k # n
      BY DEF InOrder
    <3> QED
      BY <1>1, <3>1, <3>2 DEF InOrder
  <2> QED
    BY <2>1
<1>13. i \notin ToSet(chosen)
  BY <1>9, <1>12 DEF ToSet
<1>14. TakenSoFar(us, order, n, y)
  <2>1. ASSUME NEW m \in 1 .. N + 1 PROVE \E k \in 1 .. n : longer[m] = order[k]
    <3>1. CASE m = N + 1
      BY <1>1, <1>10, <3>1
    <3>2. CASE m # N + 1
      <4>1. m \in 1 .. N
        BY <3>2
      <4>2. PICK k \in 1 .. n - 1 : chosen[m] = order[k]
        BY <1>11, <4>1
      <4> QED
        BY <1>10, <4>1, <4>2
    <3> QED
      BY <3>1, <3>2
  <2>2. ASSUME NEW m \in 1 .. N + 1, NEW l \in 1 .. N + 1, longer[m] = longer[l] PROVE m = l
    <3>1. \A a, b \in 1 .. N : chosen[a] = chosen[b] => a = b
      BY <1>3, <1>9 DEF LoopInv, TakenSoFar
    <3> QED
      BY <1>10, <1>12, <2>2, <3>1
  <2>3. ASSUME NEW m \in 1 .. N + 1, us[longer[m]].parent # None
        PROVE  \E l \in 1 .. m - 1 : us[longer[l]].source = us[longer[m]].parent
    <3>1. CASE m = N + 1
      <4>1. us[i].parent \in SourcesOf(us, chosen)
        BY <1>8, <1>10, <2>3, <3>1
      <4>2. PICK k \in ToSet(chosen) : us[k].source = us[i].parent
        BY <4>1 DEF SourcesOf
      <4>3. PICK l \in 1 .. N : chosen[l] = k
        BY <1>9 DEF ToSet
      <4>4. l \in 1 .. m - 1 /\ longer[l] = k
        BY <1>10, <3>1, <4>3
      <4> QED
        BY <1>10, <3>1, <4>2, <4>4
    <3>2. CASE m # N + 1
      <4>1. m \in 1 .. N /\ longer[m] = chosen[m]
        BY <1>10, <3>2
      <4>2. PICK l \in 1 .. m - 1 : us[chosen[l]].source = us[chosen[m]].parent
        BY <1>3, <1>9, <2>3, <4>1 DEF LoopInv, TakenSoFar
      <4>3. l \in 1 .. N
        BY <4>1
      <4> QED
        BY <1>10, <4>1, <4>2, <4>3
    <3> QED
      BY <3>1, <3>2
  <2> QED
    BY <1>6, <1>10, <2>1, <2>2, <2>3 DEF TakenSoFar
<1>15. PICK S : S = SourcesOf(us, chosen)
  OBVIOUS
<1>16. IsFiniteSet(S) /\ Cardinality(S) \in Nat /\ Cardinality(S) <= r.maxSources /\ r.maxSources \in Nat
  BY <1>3, <1>15, FS_CardinalityType DEF LoopInv, InLimits, IsBudget
<1>17. InLimits(us, r, y)
  <2>1. y.used = Total(us, ToSet(longer))
    <3>1. x.used = Total(us, ToSet(chosen)) /\ ToSet(chosen) \in SUBSET DOMAIN us
      BY <1>3, <1>9 DEF LoopInv, InLimits, ToSet
    <3>2. PICK T \in SUBSET DOMAIN us : T = ToSet(chosen) /\ i \in DOMAIN us \ T
      BY <1>1, <1>13, <3>1
    <3>3. UnitsFit(us, max)
      BY DEF InOrder
    <3>4. Total(us, T \cup {i}) = Total(us, T) + us[i].tokens
      BY <3>2, <3>3, TotalAdds
    <3> QED
      BY <1>6, <1>10, <3>1, <3>2, <3>4
  <2>2. y.used <= r.budget
    BY <1>2, <1>6, <1>7, <1>8 DEF IsBudget
  <2>3. /\ IsFiniteSet(S \cup {us[i].source})
        /\ Cardinality(S \cup {us[i].source}) =
             IF us[i].source \in S THEN Cardinality(S) ELSE Cardinality(S) + 1
    BY <1>16, FS_AddElement
  <2>4. Cardinality(S \cup {us[i].source}) <= r.maxSources
    BY <1>8, <1>15, <1>16, <2>3
  <2> QED
    BY <1>6, <1>8, <1>9, <1>10, <1>15, <2>1, <2>2, <2>3, <2>4 DEF InLimits
<1>18. ASSUME NEW k \in DOMAIN order, k <= n PROVE Stands(us, r, y, order[k])
  <2>1. CASE k = n
    <3>1. y.why[i] = "selected"
      BY <1>1, <1>6
    <3> QED
      BY <1>1, <2>1, <3>1 DEF Stands
  <2>2. CASE k # n
    <3>1. PICK j \in kept : j = order[k] /\ j \in DOMAIN us /\ j # i
      BY <1>1, <2>2 DEF InOrder
    <3>2. k <= n - 1 /\ k \in 1 .. M
      BY <1>18, <2>2 DEF InOrder
    <3>3. Stands(us, r, x, j)
      BY <3>1, <3>2 DEF LoopInv, Explained
    <3>4. PICK w : w = x.why[j] /\ y.why[j] = w
      BY <1>6, <3>1
    <3>5. w = "budget" => us[j].tokens > r.budget - y.used
      <4>1. us[j].tokens \in Nat /\ r.budget \in Nat
        BY <3>1 DEF InOrder, UnitsFit, IsUnit, IsBudget
      <4> QED
        BY <1>2, <1>6, <1>7, <3>3, <3>4, <4>1 DEF Stands
    <3>6. w # "max-chunks"
      <4>1. w = "max-chunks" => N = r.maxChunks
        BY <1>3, <1>9, <3>3, <3>4 DEF Stands
      <4> QED
        BY <1>8, <1>9, <4>1 DEF IsBudget
    <3>7. w = "max-sources" => us[j].source \notin SourcesOf(us, longer)
                               /\ Cardinality(SourcesOf(us, longer)) = r.maxSources
      <4>1. SUFFICES ASSUME w = "max-sources"
                     PROVE  us[j].source \notin SourcesOf(us, longer)
                            /\ Cardinality(SourcesOf(us, longer)) = r.maxSources
        OBVIOUS
      <4>2. us[j].source \notin S /\ Cardinality(S) = r.maxSources
        BY <1>3, <1>15, <3>3, <3>4, <4>1 DEF Stands
      <4>3. us[i].source \in S
        BY <1>8, <1>15, <1>16, <4>2
      <4>4. SourcesOf(us, longer) = S
        BY <1>10, <1>15, <4>3
      <4> QED
        BY <4>2, <4>4
    <3>8. w = "parent-not-selected" => us[j].parent # None /\ us[j].parent \notin SourcesOf(us, longer)
      <4>1. SUFFICES ASSUME w = "parent-not-selected"
                     PROVE  us[j].parent # None /\ us[j].parent \notin SourcesOf(us, longer)
        OBVIOUS
      <4>2. us[j].parent # None /\ us[j].parent \notin S
        BY <1>3, <1>15, <3>3, <3>4, <4>1 DEF Stands
      <4>3. us[i].source # us[j].parent
        <5> SUFFICES ASSUME us[i].source = us[j].parent PROVE FALSE
          OBVIOUS
        <5>1. us[i].phase < us[j].phase
          BY <1>1, <3>1, <4>2 DEF InOrder, UnitsFit
        <5>2. n < k
          BY <1>1, <3>1, <3>2, <5>1 DEF InOrder
        <5> QED
          BY <3>2, <5>2
      <4> QED
        BY <1>10, <1>15, <4>2, <4>3
    <3>9. w \in Skips \cup {"selected"}
      BY <3>3, <3>4 DEF Stands
    <3> HIDE DEF None
    <3> QED
      BY <1>6, <3>1, <3>4, <3>5, <3>6, <3>7, <3>8, <3>9 DEF Stands
  <2> QED
    BY <2>1, <2>2
<1>19. \A j \in DOMAIN us \ kept : y.why[j] = why[j]
  BY <1>1, <1>6 DEF LoopInv, Explained
<1> QED
  BY <1>1, <1>5, <1>14, <1>17, <1>18, <1>19 DEF LoopInv, Explained

(* A selection stays one, whichever unit comes next.                       *)
LEMMA TakenTyped ==
  ASSUME NEW us, NEW max, UnitsFit(us, max), NEW r, NEW x \in Selections(us), NEW i \in DOMAIN us
  PROVE  Taken(us, r, x, i) \in Selections(us)
<1>1. PICK v : v = Verdict(us, r, x, i)
  OBVIOUS
<1>2. v \in Verdicts
  BY <1>1 DEF Verdict, Verdicts, Skips
<1>3. x.why \in [DOMAIN us -> Verdicts] /\ x.chosen \in Seq(DOMAIN us) /\ x.used \in Nat
  BY DEF Selections
<1>4. x = [why |-> x.why, chosen |-> x.chosen, used |-> x.used]
  BY DEF Selections
<1>5. CASE v # "selected"
  <2>1. Taken(us, r, x, i) = [x EXCEPT !.why[i] = v]
    BY <1>1, <1>5, TakenIs
  <2>2. PICK w \in [DOMAIN us -> Verdicts] : w = [x.why EXCEPT ![i] = v]
    BY <1>2, <1>3
  <2>3. [x EXCEPT !.why[i] = v] = [why |-> w, chosen |-> x.chosen, used |-> x.used]
    BY <1>4, <2>2
  <2> QED
    BY <1>3, <2>1, <2>3 DEF Selections
<1>6. CASE v = "selected"
  <2>1. PICK w \in [DOMAIN us -> Verdicts] : w = [x.why EXCEPT ![i] = "selected"]
    BY <1>2, <1>3, <1>6
  <2>2. PICK longer \in Seq(DOMAIN us) : longer = Append(x.chosen, i)
    BY <1>3, ChosenAppend
  <2>3. x.used + us[i].tokens \in Nat
    BY <1>3 DEF UnitsFit, IsUnit
  <2>4. Taken(us, r, x, i) = [why |-> w, chosen |-> longer, used |-> x.used + us[i].tokens]
    <3>1. Taken(us, r, x, i) = [why |-> [x.why EXCEPT ![i] = "selected"],
                                chosen |-> Append(x.chosen, i), used |-> x.used + us[i].tokens]
      <4>1. Verdict(us, r, x, i) = "selected"
        BY <1>1, <1>6
      <4> QED
        BY <4>1, TakenIs
    <3> QED
      BY <2>1, <2>2, <3>1, Zenon
  <2> QED
    BY <2>3, <2>4 DEF Selections
<1> QED
  BY <1>5, <1>6

(* After the whole loop: the limits are kept and every reason is still     *)
(* true.                                                                   *)
LEMMA LoopFacts ==
  ASSUME NEW us, NEW max, NEW kept, NEW order, NEW M, InOrder(us, max, kept, order, M),
         NEW r, IsBudget(r), NEW why \in [DOMAIN us -> Judgements]
  PROVE  /\ TakeInOrder(us, r, why, order) \in Selections(us)
         /\ LoopInv(us, r, kept, order, why, M, TakeInOrder(us, r, why, order))
<1>1. PICK S : S = Selections(us)
  OBVIOUS
<1>2. PICK start : start = [why |-> why, chosen |-> <<>>, used |-> 0]
  OBVIOUS
<1>3. /\ M \in Nat /\ DOMAIN order = 1 .. M /\ UnitsFit(us, max)
      /\ \A n \in 1 .. M : order[n] \in kept /\ order[n] \in DOMAIN us
  BY DEF InOrder
<1>4. start \in S
  <2>1. why \in [DOMAIN us -> Verdicts]
    BY DEF Verdicts
  <2>2. <<>> \in Seq(DOMAIN us)
    OBVIOUS
  <2> QED
    BY <1>1, <1>2, <2>1, <2>2 DEF Selections
<1>5. LoopInv(us, r, kept, order, why, 0, start)
  <2>1. start.why = why /\ start.chosen = <<>> /\ start.used = 0
    BY <1>2
  <2>2. ToSet(start.chosen) = {} /\ SourcesOf(us, start.chosen) = {} /\ Len(start.chosen) = 0
    BY <2>1 DEF ToSet, SourcesOf
  <2>3. Total(us, {}) = 0
    BY <1>3, TotalAdds
  <2>4. InLimits(us, r, start)
    <3>1. Total(us, ToSet(start.chosen)) = 0
      BY <2>2, <2>3, Zenon
    <3>2. /\ IsFiniteSet(SourcesOf(us, start.chosen))
          /\ Cardinality(SourcesOf(us, start.chosen)) = 0
      BY <2>2, FS_EmptySet, Zenon
    <3> QED
      BY <2>1, <2>2, <3>1, <3>2 DEF InLimits, IsBudget
  <2>5. TakenSoFar(us, order, 0, start)
    BY <2>1 DEF TakenSoFar
  <2>6. Explained(us, r, kept, order, why, 0, start)
    BY <1>3, <2>1 DEF Explained
  <2> QED
    BY <2>4, <2>5, <2>6 DEF LoopInv
<1>6. \A x \in S, n \in 1 .. M : Taken(us, r, x, order[n]) \in S
  BY <1>1, <1>3, TakenTyped
<1>7. PICK run : IsTakenRun(run, S, M, us, r, why, order)
  <2>1. [why |-> why, chosen |-> <<>>, used |-> 0] \in S
    BY <1>2, <1>4
  <2> QED
    BY <1>3, <1>6, <2>1, TakenRun
<1>8. /\ run \in [0 .. M -> S] /\ run[0] = start /\ run[M] = TakeInOrder(us, r, why, order)
      /\ \A n \in 1 .. M : run[n] = Taken(us, r, run[n - 1], order[n])
  BY <1>2, <1>7, Zenon DEF IsTakenRun
<1> DEFINE Good == {n \in 0 .. M : LoopInv(us, r, kept, order, why, n, run[n])}
<1>9. 0 \in Good
  BY <1>3, <1>5, <1>8
<1>10. ASSUME NEW n \in 1 .. M, n - 1 \in Good PROVE n \in Good
  <2>1. PICK x \in S : x = run[n - 1]
    BY <1>3, <1>8, FirstPlaces
  <2>2. LoopInv(us, r, kept, order, why, n - 1, x) /\ run[n] = Taken(us, r, x, order[n])
    BY <1>8, <1>10, <2>1
  <2>3. LoopInv(us, r, kept, order, why, n, Taken(us, r, x, order[n]))
    <3>1. x \in Selections(us)
      BY <1>1
    <3>2. CASE Verdict(us, r, x, order[n]) = "selected"
      BY <2>2, <3>1, <3>2, TakeKeeps
    <3>3. CASE Verdict(us, r, x, order[n]) # "selected"
      BY <2>2, <3>1, <3>3, SkipKeeps
    <3> QED
      BY <3>2, <3>3
  <2>4. n \in 0 .. M
    BY <1>3
  <2> QED
    BY <2>2, <2>3, <2>4
<1>11. M \in Good
  <2> HIDE DEF Good
  <2>1. \A n \in 0 .. M : n \in Good
    BY <1>3, <1>9, <1>10, PlacesInduction
  <2> QED
    BY <1>3, <2>1
<1> QED
  BY <1>1, <1>3, <1>8, <1>11

(* A selection is made of the units in their order.                        *)
LEMMA SelectionFacts ==
  ASSUME NEW r \in Requests, NEW sel, sel = Selection(r)
  PROVE  \E kept, order, M, why :
           /\ sel.done /\ sel.request = r
           /\ InOrder(sel.units, ChunkSize(r), kept, order, M)
           /\ why \in [DOMAIN sel.units -> Judgements]
           /\ \A i \in DOMAIN sel.units \ kept : why[i] # "pending"
           /\ \A i \in DOMAIN sel.units : why[i] = "duplicate" =>
                \E k \in kept : sel.units[k].key = sel.units[i].key /\ BetterDuplicate(sel.units, k, i)
           /\ LoopInv(sel.units, r, kept, order, why, M,
                      [why |-> sel.why, chosen |-> sel.chosen, used |-> sel.used])
           /\ sel.chosen \in Seq(DOMAIN sel.units) /\ IsBudget(r)
<1>1. PICK us : us = Units(r)
  OBVIOUS
<1>2. UnitsFit(us, ChunkSize(r))
  BY <1>1, UnitFacts
<1>3. PICK N \in Nat : DOMAIN us = 1 .. N
  BY <1>2 DEF UnitsFit
<1>4. PICK ded \in Meetings(us) : ded = Deduplicated(us, r.gate) /\ KeptAreBest(us, N, ded)
  BY <1>2, <1>3, DeduplicatedFacts
<1>5. ded.kept \in SUBSET DOMAIN us /\ ded.why \in [DOMAIN us -> Judgements]
  BY DEF Meetings
<1>6. PICK order : order = OrderedUnits(us, ded.kept, r.diverse)
  OBVIOUS
<1>7. Enumerates(order, us, ded.kept)
  BY <1>2, <1>5, <1>6, OrderFacts
<1>8. PICK M : InOrder(us, ChunkSize(r), ded.kept, order, M)
  <2>1. PICK M \in Nat :
          /\ order \in [1 .. M -> ded.kept]
          /\ \A i \in ded.kept : \E n \in 1 .. M : order[n] = i
          /\ \A n, m \in 1 .. M : order[n] = order[m] => n = m
          /\ \A n, m \in 1 .. M : us[order[n]].phase < us[order[m]].phase => n < m
    BY <1>7 DEF Enumerates
  <2>2. /\ \A i \in ded.kept : us[i].issue = "none"
        /\ \A i, k \in ded.kept : us[i].key = us[k].key => i = k
    BY <1>4 DEF KeptAreBest
  <2>3. InOrder(us, ChunkSize(r), ded.kept, order, M)
    BY <1>2, <1>5, <2>1, <2>2 DEF InOrder
  <2> QED
    BY <2>3
<1>9. IsBudget(r)
  BY ContextAssumption DEF IsBudget
<1>10. PICK end \in Selections(us) :
         /\ end = TakeInOrder(us, r, ded.why, order)
         /\ LoopInv(us, r, ded.kept, order, ded.why, M, end)
  BY <1>5, <1>8, <1>9, LoopFacts
<1>11. sel = [done |-> TRUE, request |-> r, units |-> us, why |-> end.why, chosen |-> end.chosen,
              used |-> end.used]
  BY <1>1, <1>4, <1>6, <1>10, Zenon DEF Selection
<1>12. end = [why |-> sel.why, chosen |-> sel.chosen, used |-> sel.used] /\ sel.units = us
       /\ sel.chosen \in Seq(DOMAIN us) /\ sel.done /\ sel.request = r
  BY <1>11 DEF Selections
<1>13. \A i \in DOMAIN us \ ded.kept : ded.why[i] # "pending"
  BY <1>3, <1>4 DEF KeptAreBest
<1>14. \A i \in DOMAIN us : ded.why[i] = "duplicate" =>
         \E k \in ded.kept : us[k].key = us[i].key /\ BetterDuplicate(us, k, i)
  BY <1>4 DEF KeptAreBest
<1> QED
  BY <1>5, <1>8, <1>9, <1>10, <1>12, <1>13, <1>14

(* What select returns for a request is justified.                         *)
LEMMA SelectionJustified ==
  ASSUME NEW r \in Requests, selection = Selection(r)
  PROVE  SelectionIsJustified
<1>1. PICK kept, order, M, why :
        /\ selection.done /\ selection.request = r
        /\ InOrder(selection.units, ChunkSize(r), kept, order, M)
        /\ why \in [DOMAIN selection.units -> Judgements]
        /\ \A i \in DOMAIN selection.units \ kept : why[i] # "pending"
        /\ \A i \in DOMAIN selection.units : why[i] = "duplicate" =>
             \E k \in kept : /\ selection.units[k].key = selection.units[i].key
                             /\ BetterDuplicate(selection.units, k, i)
        /\ LoopInv(selection.units, r, kept, order, why, M,
                   [why |-> selection.why, chosen |-> selection.chosen, used |-> selection.used])
        /\ selection.chosen \in Seq(DOMAIN selection.units) /\ IsBudget(r)
  BY SelectionFacts
<1>2. PICK us : us = selection.units
  OBVIOUS
<1>3. PICK x : x = [why |-> selection.why, chosen |-> selection.chosen, used |-> selection.used]
  OBVIOUS
<1>4. x.why = selection.why /\ x.chosen = selection.chosen /\ x.used = selection.used
  BY <1>3
<1>5. TakenSoFar(us, order, M, x) /\ InLimits(us, r, x) /\ Explained(us, r, kept, order, why, M, x)
  BY <1>1, <1>2, <1>3 DEF LoopInv
<1>6. PICK chosen \in Seq(DOMAIN us) : chosen = selection.chosen
  BY <1>1, <1>2
<1>7. PICK N \in Nat : N = Len(chosen) /\ DOMAIN chosen = 1 .. N
  OBVIOUS
<1>8. /\ M \in Nat /\ order \in [1 .. M -> kept] /\ kept \in SUBSET DOMAIN us
      /\ \A i \in kept : \E n \in 1 .. M : order[n] = i
      /\ \A i, k \in kept : us[i].key = us[k].key => i = k
      /\ UnitsFit(us, ChunkSize(r))
  BY <1>1, <1>2 DEF InOrder
<1>9. SourcesOf(us, chosen) = {selection.units[i].source : i \in ToSet(selection.chosen)}
  BY <1>2, <1>6 DEF SourcesOf
<1>10. WithinLimits
  <2>1. selection.used = Total(selection.units, ToSet(selection.chosen))
    BY <1>2, <1>4, <1>5 DEF InLimits
  <2>2. /\ selection.used <= r.budget /\ Len(selection.chosen) <= r.maxChunks
        /\ Cardinality({selection.units[i].source : i \in ToSet(selection.chosen)}) <= r.maxSources
    BY <1>4, <1>5, <1>6, <1>9 DEF InLimits
  <2> QED
    BY <1>1, <2>1, <2>2 DEF WithinLimits
<1>11. \A m \in 1 .. N : chosen[m] \in kept
  <2>1. ASSUME NEW m \in 1 .. N PROVE chosen[m] \in kept
    <3>1. PICK k \in 1 .. M : chosen[m] = order[k]
      BY <1>4, <1>5, <1>6, <1>7 DEF TakenSoFar
    <3> QED
      BY <1>8, <3>1
  <2> QED
    BY <2>1
<1>12. ChosenInContext
  <2>1. ASSUME NEW n \in 1 .. N
        PROVE  /\ us[chosen[n]].parent # None =>
                    \E m \in 1 .. n - 1 : us[chosen[m]].source = us[chosen[n]].parent
               /\ \A m \in 1 .. N \ {n} : us[chosen[m]].key # us[chosen[n]].key
               /\ us[chosen[n]].tokens <= ChunkSize(r)
    <3>1. us[chosen[n]].parent # None =>
            \E m \in 1 .. n - 1 : us[chosen[m]].source = us[chosen[n]].parent
      BY <1>4, <1>5, <1>6, <1>7 DEF TakenSoFar
    <3>2. \A m \in 1 .. N \ {n} : chosen[m] # chosen[n]
      BY <1>4, <1>5, <1>6, <1>7 DEF TakenSoFar
    <3>3. \A m \in 1 .. N \ {n} : us[chosen[m]].key # us[chosen[n]].key
      BY <1>8, <1>11, <3>2
    <3>4. us[chosen[n]].tokens <= ChunkSize(r)
      BY <1>8, <1>11 DEF UnitsFit, IsUnit
    <3> QED
      BY <3>1, <3>3, <3>4
  <2> QED
    BY <1>1, <1>2, <1>6, <1>7, <2>1 DEF ChosenInContext
<1>13. \A i \in kept : Stands(us, r, x, i)
  <2>1. ASSUME NEW i \in kept PROVE Stands(us, r, x, i)
    <3>1. PICK n \in 1 .. M : order[n] = i
      BY <1>8
    <3>2. n \in DOMAIN order /\ n <= M
      BY <1>8
    <3> QED
      BY <1>5, <3>1, <3>2 DEF Explained
  <2> QED
    BY <2>1
<1>14. \A id : SourceChosen(id) <=> id \in SourcesOf(us, chosen)
  BY <1>2, <1>6 DEF SourceChosen, SourcesOf
<1>15. ASSUME NEW i \in DOMAIN us, ~Chosen(i) PROVE StillStands(i)
  <2>1. CASE i \in kept
    <3>1. PICK w : w = selection.why[i]
      OBVIOUS
    <3>2. /\ w \in Skips
          /\ w = "budget" => us[i].tokens > r.budget - selection.used
          /\ w = "max-chunks" => Len(selection.chosen) = r.maxChunks
          /\ w = "max-sources" => ~SourceChosen(us[i].source)
          /\ w = "parent-not-selected" => ~SourceChosen(us[i].parent)
      BY <1>4, <1>6, <1>13, <1>14, <1>15, <2>1, <3>1 DEF Stands, Chosen
    <3> QED
      BY <1>1, <1>2, <3>1, <3>2 DEF StillStands, Skips
  <2>2. CASE i \notin kept
    <3>1. selection.why[i] = why[i] /\ why[i] \in Judgements /\ why[i] # "pending"
      BY <1>1, <1>2, <1>4, <1>5, <2>2 DEF Explained
    <3>2. CASE why[i] = "duplicate"
      <4>1. PICK k \in kept : us[k].key = us[i].key /\ BetterDuplicate(us, k, i)
        BY <1>1, <1>2, <3>2
      <4>2. k \in DOMAIN us /\ selection.why[k] # "duplicate"
        BY <1>4, <1>8, <1>13 DEF Stands, Skips
      <4> QED
        BY <1>2, <3>1, <3>2, <4>1, <4>2 DEF StillStands
    <3>3. CASE why[i] \in GateReasons
      BY <3>1, <3>3 DEF StillStands, GateReasons, Issues
    <3> QED
      BY <3>1, <3>2, <3>3 DEF Judgements
  <2> QED
    BY <2>1, <2>2
<1> QED
  BY <1>2, <1>10, <1>12, <1>15 DEF SelectionIsJustified

(* What was returned is what select computes for a request.                *)
SelectionInv == selection = Idle \/ \E r \in Requests : selection = Selection(r)

(* Every omission is justified, whatever is asked for.                     *)
THEOREM SelectionIsJustifiedHolds == SelectSpec => []SelectionIsJustified
<1>1. SelectInit => SelectionInv
  BY DEF SelectInit, SelectionInv
<1>2. SelectionInv /\ [SelectNext]_selection => SelectionInv'
  BY DEF SelectionInv, SelectNext, Select, Idle, Selection
<1>3. SelectionInv => SelectionIsJustified
  <2>1. selection = Idle => SelectionIsJustified
    BY DEF Idle, SelectionIsJustified
  <2>2. ASSUME NEW r \in Requests, selection = Selection(r) PROVE SelectionIsJustified
    BY <2>2, SelectionJustified
  <2> QED
    BY <2>1, <2>2 DEF SelectionInv
<1> QED
  BY <1>1, <1>2, <1>3, PTL DEF SelectSpec

=============================================================================
