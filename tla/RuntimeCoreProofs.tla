----------------------- MODULE RuntimeCoreProofs ----------------------------
(***************************************************************************)
(* Two components of PremiseRuntime, without bounds on their data.         *)
(*                                                                         *)
(* Ordered event streams, for every set of events, pages and bursts of any *)
(* length.  A page or a burst is applied event by event, so what is proved *)
(* of one event is carried along the list by induction; the induction      *)
(* rests on the least element of a set of naturals.                        *)
(*                                                                         *)
(* Whom a signal reaches, for every finite set of memories, all sources,   *)
(* record graphs and snapshots: the indexes hold exactly the entries of    *)
(* the stored records, and the walk over them ends with exactly the        *)
(* memories the change concerns.                                           *)
(***************************************************************************)
EXTENDS StreamContinuity, RuntimeIndex, FiniteSetTheorems, WellFoundedInduction, TLAPS

(* A set of naturals has a least element. *)
LEMMA LeastNat ==
  ASSUME NEW T \in SUBSET Nat, T # {}
  PROVE  \E x \in T : \A y \in T : x <= y
<1>1. PICK R : R = OpToRel(<, Nat)
  OBVIOUS
<1>2. IsWellFoundedOn(R, Nat)
  BY <1>1, NatLessThanWellFounded
<1>3. \A x, y \in Nat : y < x => <<y, x>> \in R
  BY <1>1 DEF OpToRel
<1>4. PICK x \in T : \A y \in T : ~(<<y, x>> \in R)
  BY <1>2, WFMin
<1>5. ASSUME NEW y \in T PROVE x <= y
  <2>1. ~(<<y, x>> \in R)
    BY <1>4
  <2>2. ~(y < x)
    BY <2>1, <1>3
  <2> QED
    BY <2>2
<1> QED
  BY <1>5

(* Induction over the naturals, for a set in place of a predicate. *)
LEMMA InductionOverNat ==
  ASSUME NEW S, 0 \in S, \A n \in Nat : n \in S => n + 1 \in S
  PROVE  Nat \subseteq S
<1>1. PICK bad : bad = Nat \ S
  OBVIOUS
<1> SUFFICES ASSUME bad # {} PROVE FALSE
  BY <1>1
<1>2. PICK x \in bad : \A y \in bad : x <= y
  BY <1>1, LeastNat
<1>3. x # 0 /\ x - 1 \in Nat /\ x - 1 \notin bad
  BY <1>1, <1>2
<1>4. (x - 1) + 1 \in S
  BY <1>1, <1>3
<1> QED
  BY <1>1, <1>3, <1>4
-----------------------------------------------------------------------------
(* The states AppliedAll passes through on a list of events. *)
Starting(s) == [s EXCEPT !.result = "APPLIED"]
Passes(x, e) == IF x.result \in Breaks THEN x ELSE Applied(x, e)

IsRun(g, s, events, n) ==
  g = [i \in 0 .. n |-> IF i = 0 THEN Starting(s) ELSE Passes(g[i - 1], events[i])]

Run(s, events) == CHOOSE g : IsRun(g, s, events, Len(events))

LEMMA RunExists ==
  ASSUME NEW s, NEW events, NEW n \in Nat
  PROVE  \E g : IsRun(g, s, events, n)
<1> DEFINE S == {m \in Nat : \E g : IsRun(g, s, events, m)}
<1>1. 0 \in S
  <2>1. PICK g : g = [i \in 0 .. 0 |-> Starting(s)]
    OBVIOUS
  <2>2. IsRun(g, s, events, 0)
    BY <2>1 DEF IsRun
  <2> QED
    BY <2>2
<1>2. ASSUME NEW m \in Nat, m \in S PROVE m + 1 \in S
  <2>1. PICK g : IsRun(g, s, events, m)
    BY <1>2
  <2>2. PICK f : f = [i \in 0 .. (m + 1) |->
                        IF i <= m THEN g[i] ELSE Passes(g[m], events[m + 1])]
    OBVIOUS
  <2>3. ASSUME NEW i \in 0 .. (m + 1)
        PROVE  f[i] = IF i = 0 THEN Starting(s) ELSE Passes(f[i - 1], events[i])
    <3>1. CASE i = m + 1
      <4>1. f[i] = Passes(g[m], events[m + 1]) /\ f[i - 1] = g[m]
        BY <3>1, <2>2
      <4> QED
        BY <3>1, <4>1
    <3>2. CASE i = 0
      BY <3>2, <2>1, <2>2 DEF IsRun
    <3>3. CASE i \in 1 .. m
      <4>1. f[i] = g[i] /\ f[i - 1] = g[i - 1] /\ i # 0
        BY <3>3, <2>2
      <4>2. g[i] = Passes(g[i - 1], events[i])
        BY <3>3, <2>1 DEF IsRun
      <4> QED
        BY <4>1, <4>2
    <3> QED
      BY <3>1, <3>2, <3>3
  <2>4. IsRun(f, s, events, m + 1)
    BY <2>2, <2>3 DEF IsRun
  <2> QED
    BY <2>4
<1> HIDE DEF S
<1>3. Nat \subseteq S
  BY <1>1, <1>2, InductionOverNat
<1> QED
  BY <1>3 DEF S

LEMMA RunSteps ==
  ASSUME NEW s, NEW events \in Seq(Events)
  PROVE  /\ Run(s, events)[0] = Starting(s)
         /\ \A i \in 1 .. Len(events) :
              Run(s, events)[i] = Passes(Run(s, events)[i - 1], events[i])
         /\ AppliedAll(s, events) = Run(s, events)[Len(events)]
<1>1. Len(events) \in Nat
  OBVIOUS
<1>2. \E g : IsRun(g, s, events, Len(events))
  BY <1>1, RunExists
<1>3. PICK g : g = Run(s, events)
  OBVIOUS
<1>4. IsRun(g, s, events, Len(events))
  BY <1>2, <1>3 DEF Run
<1>5. AppliedAll(s, events) = Run(s, events)[Len(events)]
  BY DEF AppliedAll, Run, IsRun, Starting, Passes
<1>6. g[0] = Starting(s)
  BY <1>1, <1>4 DEF IsRun
<1>7. \A i \in 1 .. Len(events) : g[i] = Passes(g[i - 1], events[i])
  BY <1>1, <1>4 DEF IsRun
<1> QED
  BY <1>3, <1>5, <1>6, <1>7
-----------------------------------------------------------------------------
StreamType == [nextSequence : Nat, seen : SUBSET Events, hasSnapshot : BOOLEAN]
StoreType == [Keys -> Bodies \cup {"absent", "released"}]
Outcomes == Breaks \cup {"NONE", "APPLIED", "DUPLICATE", "REPAIRED", "FAILED"}
StateType == [stream : StreamType, store : StoreType, result : Outcomes]

(* What was ever stored once a store st is reached from what p remembers.  *)
Kept(p, st) ==
  [k \in Keys |-> IF p[k] = "absent" /\ st[k] # "released" THEN st[k] ELSE p[k]]

(* The store holds what it was given, or only its key. *)
Remembers(st, p) ==
  \A k \in Keys : /\ st[k] = "absent" <=> p[k] = "absent"
                  /\ st[k] = p[k] \/ st[k] = "released"

RunsFrom(first, str, p) ==
  /\ first.kind = "SNAPSHOT"
  /\ \A n \in first.seq .. (str.nextSequence - 1) : \E e \in str.seen : e.seq = n
  /\ \A e \in str.seen :
       /\ e.seq \in first.seq .. (str.nextSequence - 1)
       /\ p[e.key] = e.body
       /\ \A q \in str.seen : q.seq = e.seq => q = e

NoHoles(str, p) ==
  IF ~str.hasSnapshot THEN str.seen = {} ELSE \E first \in str.seen : RunsFrom(first, str, p)

Sound(s, p) ==
  /\ s \in StateType
  /\ Remembers(s.store, Kept(p, s.store))
  /\ NoHoles(s.stream, Kept(p, s.store))

StreamInv ==
  /\ stream \in StreamType /\ store \in StoreType
  /\ persisted \in [Keys -> Bodies \cup {"absent"}]
  /\ compactions \in 0 .. MaxCompactions
  /\ Remembers(store, persisted)
  /\ NoHoles(stream, persisted)

LEMMA EventFacts ==
  ASSUME NEW e \in Events
  PROVE  /\ e.seq \in Nat /\ e.key \in Keys /\ e.body \in Bodies
         /\ e.body # "absent" /\ e.body # "released"
BY StreamAssumption DEF Keys, Bodies

(* What applyStreamEvent can do: recognise the event, distrust the stream, *)
(* or advance it.                                                          *)
Advances(s, e) ==
  /\ \A p \in s.stream.seen : p.seq # e.seq
  /\ e.seq = s.stream.nextSequence
  /\ s.stream.hasSnapshot \/ e.kind = "SNAPSHOT"
  /\ StoreAgrees(s, e)

StoredWith(s, e) ==
  [s.store EXCEPT ![e.key] = IF s.store[e.key] = "absent" THEN e.body ELSE s.store[e.key]]

LEMMA AppliedAdvances ==
  ASSUME NEW s, NEW e, Advances(s, e)
  PROVE  \E r \in {"APPLIED", "DUPLICATE"} :
           Applied(s, e) = State(Advanced(s, e), StoredWith(s, e), r)
<1>1. /\ e \notin s.stream.seen /\ ~\E p \in s.stream.seen : p.seq = e.seq
      /\ ~OutOfOrder(s, e) /\ ~(~s.stream.hasSnapshot /\ e.kind # "SNAPSHOT")
      /\ StoreAgrees(s, e)
  BY DEF Advances, OutOfOrder
<1>2. Applied(s, e) = State(Advanced(s, e), StoredWith(s, e),
                            IF s.store[e.key] = "absent" THEN "APPLIED" ELSE "DUPLICATE")
  BY <1>1 DEF Applied, StoredWith
<1> QED
  BY <1>2

LEMMA AppliedCases ==
  ASSUME NEW s, NEW e
  PROVE  \/ e \in s.stream.seen /\ Applied(s, e) = [s EXCEPT !.result = "DUPLICATE"]
         \/ \E r \in Breaks : Applied(s, e) = RepairRequired(s, e, r)
         \/ Advances(s, e)
<1>1. CASE e \in s.stream.seen
  BY <1>1 DEF Applied
<1>2. CASE e \notin s.stream.seen /\ \E p \in s.stream.seen : p.seq = e.seq
  BY <1>2 DEF Applied, Breaks
<1>3. CASE (\A p \in s.stream.seen : p.seq # e.seq) /\ OutOfOrder(s, e)
  <2>1. Applied(s, e) = RepairRequired(s, e, IF e.seq < s.stream.nextSequence
                                              THEN "REORDERED" ELSE "GAP")
    BY <1>3 DEF Applied
  <2> QED
    BY <2>1 DEF Breaks
<1>4. CASE /\ e \notin s.stream.seen /\ \A p \in s.stream.seen : p.seq # e.seq
           /\ ~OutOfOrder(s, e)
  <2>1. CASE ~s.stream.hasSnapshot /\ e.kind # "SNAPSHOT"
    BY <1>4, <2>1 DEF Applied, Breaks
  <2>2. CASE ~(~s.stream.hasSnapshot /\ e.kind # "SNAPSHOT") /\ ~StoreAgrees(s, e)
    BY <1>4, <2>2 DEF Applied, Breaks
  <2>3. CASE ~(~s.stream.hasSnapshot /\ e.kind # "SNAPSHOT") /\ StoreAgrees(s, e)
    BY <1>4, <2>3 DEF Advances, OutOfOrder
  <2> QED
    BY <2>1, <2>2, <2>3
<1> QED
  BY <1>1, <1>2, <1>3, <1>4

(* What a state looks like once an event advanced its stream. *)
LEMMA AdvancedState ==
  ASSUME NEW s \in StateType, NEW e \in Events, Advances(s, e), NEW t, t = Applied(s, e)
  PROVE  /\ t \in StateType
         /\ t.stream.nextSequence = s.stream.nextSequence + 1
         /\ t.stream.seen = s.stream.seen \cup {e}
         /\ t.stream.hasSnapshot
         /\ t.store = [s.store EXCEPT ![e.key] = e.body]
         /\ t.result \in {"APPLIED", "DUPLICATE"}
<1>1. PICK r \in {"APPLIED", "DUPLICATE"} : t = State(Advanced(s, e), StoredWith(s, e), r)
  BY AppliedAdvances
<1>2. PICK a : a = Advanced(s, e)
  OBVIOUS
<1>3. PICK st : st = StoredWith(s, e)
  OBVIOUS
<1>4. s.stream \in StreamType /\ s.store \in StoreType
  BY DEF StateType
<1>5. e.seq = s.stream.nextSequence /\ s.stream.nextSequence \in Nat
  BY <1>4 DEF Advances, StreamType
<1>6. a = [nextSequence |-> e.seq + 1, seen |-> s.stream.seen \cup {e},
           hasSnapshot |-> s.stream.hasSnapshot \/ e.kind = "SNAPSHOT"]
  BY <1>2 DEF Advanced
<1>7. s.stream.hasSnapshot \/ e.kind = "SNAPSHOT"
  BY DEF Advances
<1>8. a \in StreamType
  BY <1>4, <1>5, <1>6 DEF StreamType
<1>9. /\ a.nextSequence = s.stream.nextSequence + 1 /\ a.seen = s.stream.seen \cup {e}
      /\ a.hasSnapshot
  BY <1>5, <1>6, <1>7
<1>10. st = [s.store EXCEPT ![e.key] = e.body]
  <2>1. s.store[e.key] = "absent" \/ s.store[e.key] = e.body
    BY DEF Advances, StoreAgrees
  <2>2. (IF s.store[e.key] = "absent" THEN e.body ELSE s.store[e.key]) = e.body
    BY <2>1
  <2> QED
    BY <2>2, <1>3 DEF StoredWith
<1>11. st \in StoreType
  BY <1>4, <1>10, EventFacts DEF StoreType
<1>12. t = [stream |-> a, store |-> st, result |-> r]
  BY <1>1, <1>2, <1>3 DEF State
<1>13. t \in StateType /\ t.stream = a /\ t.store = st /\ t.result = r
  BY <1>8, <1>11, <1>12 DEF StateType, Outcomes
<1> QED
  BY <1>9, <1>10, <1>13

LEMMA DistrustedState ==
  ASSUME NEW s \in StateType, NEW n \in Nat, NEW r \in Outcomes,
         NEW t, t = State(FencedAt(n), s.store, r)
  PROVE  /\ t \in StateType /\ t.store = s.store /\ t.result = r
         /\ t.stream.nextSequence = n /\ t.stream.seen = {} /\ ~t.stream.hasSnapshot
<1>1. PICK a : a = FencedAt(n)
  OBVIOUS
<1>2. a \in StreamType /\ a.nextSequence = n /\ a.seen = {}
  BY <1>1 DEF FencedAt, StreamType
<1>3. ~a.hasSnapshot
  BY <1>1 DEF FencedAt
<1>4. t = [stream |-> a, store |-> s.store, result |-> r]
  BY <1>1 DEF State
<1>5. s.store \in StoreType
  BY DEF StateType
<1>6. t \in StateType /\ t.stream = a /\ t.store = s.store /\ t.result = r
  BY <1>2, <1>4, <1>5 DEF StateType
<1> QED
  BY <1>2, <1>3, <1>6

LEMMA RelabelledState ==
  ASSUME NEW s \in StateType, NEW r \in Outcomes, NEW t, t = [s EXCEPT !.result = r]
  PROVE  t \in StateType /\ t.stream = s.stream /\ t.store = s.store /\ t.result = r
BY DEF StateType
-----------------------------------------------------------------------------
(* A stream that is not trusted is sound whatever the store holds. *)
LEMMA DistrustIsSound ==
  ASSUME NEW p, NEW s, Sound(s, p), NEW n \in Nat, NEW r \in Outcomes
  PROVE  Sound(State(FencedAt(n), s.store, r), p)
<1>1. PICK t : t = State(FencedAt(n), s.store, r)
  OBVIOUS
<1>2. s \in StateType
  BY DEF Sound
<1>3. t \in StateType /\ t.store = s.store /\ t.stream.seen = {} /\ ~t.stream.hasSnapshot
  BY <1>1, <1>2, DistrustedState
<1>4. Sound(t, p)
  BY <1>3 DEF Sound, NoHoles
<1> QED
  BY <1>1, <1>4

LEMMA RelabelIsSound ==
  ASSUME NEW p, NEW s, Sound(s, p), NEW r \in Outcomes
  PROVE  Sound([s EXCEPT !.result = r], p)
<1>1. PICK t : t = [s EXCEPT !.result = r]
  OBVIOUS
<1>2. s \in StateType
  BY DEF Sound
<1>3. t \in StateType /\ t.store = s.store /\ t.stream = s.stream
  BY <1>1, <1>2, RelabelledState
<1>4. Sound(t, p)
  BY <1>3 DEF Sound
<1> QED
  BY <1>1, <1>4

LEMMA AdvanceIsSound ==
  ASSUME NEW p, NEW s, Sound(s, p), NEW e \in Events, Advances(s, e)
  PROVE  Sound(Applied(s, e), p)
<1>1. PICK t : t = Applied(s, e)
  OBVIOUS
<1>2. PICK q : q = Kept(p, s.store)
  OBVIOUS
<1>3. PICK q2 : q2 = Kept(p, t.store)
  OBVIOUS
<1>4. s \in StateType /\ Remembers(s.store, q) /\ NoHoles(s.stream, q)
  BY <1>2 DEF Sound
<1>5. /\ t \in StateType
      /\ t.stream.nextSequence = s.stream.nextSequence + 1
      /\ t.stream.seen = s.stream.seen \cup {e}
      /\ t.stream.hasSnapshot
      /\ t.store = [s.store EXCEPT ![e.key] = e.body]
  BY <1>1, <1>4, AdvancedState
<1>6. e.seq \in Nat /\ e.key \in Keys /\ e.body # "absent" /\ e.body # "released"
  BY EventFacts
<1>7. t.store[e.key] = e.body /\ \A k \in Keys : k # e.key => t.store[k] = s.store[k]
  BY <1>4, <1>5, <1>6 DEF StateType, StoreType
<1>8. \A k \in Keys : k # e.key => q2[k] = q[k]
  BY <1>2, <1>3, <1>7 DEF Kept
<1>9. q2[e.key] = e.body
  <2>1. CASE p[e.key] = "absent"
    BY <2>1, <1>3, <1>6, <1>7 DEF Kept
  <2>2. CASE p[e.key] # "absent"
    <3>1. q2[e.key] = p[e.key] /\ q[e.key] = p[e.key]
      BY <2>2, <1>2, <1>3, <1>6 DEF Kept
    <3>2. s.store[e.key] = "absent" \/ s.store[e.key] = e.body
      BY DEF Advances, StoreAgrees
    <3>3. s.store[e.key] # "absent"
      BY <2>2, <3>1, <1>4, <1>6 DEF Remembers
    <3> QED
      BY <3>1, <3>2, <3>3, <1>4, <1>6 DEF Remembers
  <2> QED
    BY <2>1, <2>2
<1>10. Remembers(t.store, q2)
  BY <1>4, <1>6, <1>7, <1>8, <1>9 DEF Remembers
<1>11. e.seq = s.stream.nextSequence
  BY DEF Advances
<1>12. s.stream.seen \subseteq Events
  BY <1>4 DEF StateType, StreamType
<1>13. NoHoles(t.stream, q2)
  <2>1. CASE ~s.stream.hasSnapshot
    <3>1. s.stream.seen = {} /\ e.kind = "SNAPSHOT"
      BY <2>1, <1>4 DEF NoHoles, Advances
    <3>2. t.stream.seen = {e} /\ t.stream.nextSequence - 1 = e.seq
      BY <3>1, <1>5, <1>6, <1>11
    <3>3. RunsFrom(e, t.stream, q2)
      BY <3>1, <3>2, <1>6, <1>9 DEF RunsFrom
    <3> QED
      BY <3>2, <3>3, <1>5 DEF NoHoles
  <2>2. CASE s.stream.hasSnapshot
    <3>1. PICK first \in s.stream.seen : RunsFrom(first, s.stream, q)
      BY <2>2, <1>4 DEF NoHoles
    <3>2. first.seq \in Nat /\ first.seq <= e.seq
      BY <3>1, <1>6, <1>11, <1>12, EventFacts DEF RunsFrom
    <3>3. \A x \in s.stream.seen : x.seq # e.seq
      BY DEF Advances
    <3>4. first.seq .. (t.stream.nextSequence - 1) =
            (first.seq .. (s.stream.nextSequence - 1)) \cup {e.seq}
      BY <3>2, <1>5, <1>6, <1>11
    <3>5. \A n \in first.seq .. (t.stream.nextSequence - 1) :
            \E x \in t.stream.seen : x.seq = n
      BY <3>1, <3>4, <1>5 DEF RunsFrom
    <3>6. ASSUME NEW x \in t.stream.seen
          PROVE  /\ x.seq \in first.seq .. (t.stream.nextSequence - 1)
                 /\ q2[x.key] = x.body
                 /\ \A y \in t.stream.seen : y.seq = x.seq => y = x
      <4>1. x.seq \in first.seq .. (t.stream.nextSequence - 1)
        BY <3>1, <3>4, <1>5 DEF RunsFrom
      <4>2. \A y \in t.stream.seen : y.seq = x.seq => y = x
        BY <3>1, <3>3, <1>5 DEF RunsFrom
      <4>3. q2[x.key] = x.body
        <5>1. CASE x = e
          BY <5>1, <1>9
        <5>2. CASE x # e
          <6>1. x \in s.stream.seen /\ x \in Events
            BY <5>2, <1>5, <1>12
          <6>2. q[x.key] = x.body /\ x.key \in Keys
            BY <6>1, <3>1, EventFacts DEF RunsFrom
          <6>3. x.key # e.key => q2[x.key] = q[x.key]
            BY <6>2, <1>8
          <6>4. x.key = e.key => x.body = e.body
            <7> SUFFICES ASSUME x.key = e.key PROVE x.body = e.body
              OBVIOUS
            <7>1. q[e.key] = x.body /\ x.body # "absent"
              BY <6>1, <6>2, EventFacts
            <7>2. s.store[e.key] # "absent"
              BY <7>1, <1>4, <1>6 DEF Remembers
            <7>3. s.store[e.key] = e.body
              BY <7>2 DEF Advances, StoreAgrees
            <7> QED
              BY <7>1, <7>3, <1>4, <1>6 DEF Remembers
          <6> QED
            BY <6>2, <6>3, <6>4, <1>9
        <5> QED
          BY <5>1, <5>2
      <4> QED
        BY <4>1, <4>2, <4>3
    <3>7. RunsFrom(first, t.stream, q2)
      BY <3>1, <3>5, <3>6 DEF RunsFrom
    <3> QED
      BY <3>1, <3>7, <1>5 DEF NoHoles
  <2> QED
    BY <2>1, <2>2
<1> QED
  BY <1>1, <1>3, <1>5, <1>10, <1>13 DEF Sound

LEMMA AppliedIsSound ==
  ASSUME NEW p, NEW s, Sound(s, p), NEW e \in Events
  PROVE  Sound(Applied(s, e), p)
<1>1. CASE Applied(s, e) = [s EXCEPT !.result = "DUPLICATE"]
  BY <1>1, RelabelIsSound DEF Outcomes
<1>2. ASSUME NEW r \in Breaks, Applied(s, e) = RepairRequired(s, e, r)
      PROVE  Sound(Applied(s, e), p)
  <2>1. e.seq \in Nat /\ r \in Outcomes
    BY EventFacts DEF Outcomes
  <2> QED
    BY <2>1, <1>2, DistrustIsSound DEF RepairRequired
<1>3. CASE Advances(s, e)
  BY <1>3, AdvanceIsSound
<1> QED
  BY <1>1, <1>2, <1>3, AppliedCases

(* A property of states that every event keeps holds all along a list. *)
LEMMA RunIsSound ==
  ASSUME NEW p, NEW s, Sound(s, p), NEW events \in Seq(Events)
  PROVE  /\ \A i \in 0 .. Len(events) : Sound(Run(s, events)[i], p)
         /\ Sound(AppliedAll(s, events), p)
<1>1. PICK g : g = Run(s, events)
  OBVIOUS
<1>2. PICK n : n = Len(events)
  OBVIOUS
<1>3. /\ g[0] = Starting(s) /\ AppliedAll(s, events) = g[n]
      /\ \A i \in 1 .. n : g[i] = Passes(g[i - 1], events[i])
  BY <1>1, <1>2, RunSteps
<1>4. PICK S : S = {i \in Nat : i <= n => Sound(g[i], p)}
  OBVIOUS
<1>5. 0 \in S
  <2>1. Sound(Starting(s), p)
    BY RelabelIsSound DEF Starting, Outcomes
  <2> QED
    BY <2>1, <1>3, <1>4
<1>6. ASSUME NEW i \in Nat, i \in S PROVE i + 1 \in S
  <2> SUFFICES ASSUME i + 1 <= n PROVE Sound(g[i + 1], p)
    BY <1>4
  <2>1. Sound(g[i], p) /\ i + 1 \in 1 .. n /\ (i + 1) - 1 = i
    BY <1>2, <1>4, <1>6
  <2>2. g[i + 1] = Passes(g[i], events[i + 1])
    BY <2>1, <1>3
  <2>3. events[i + 1] \in Events
    BY <2>1, <1>2
  <2>4. Sound(Applied(g[i], events[i + 1]), p)
    BY <2>1, <2>3, AppliedIsSound
  <2> QED
    BY <2>1, <2>2, <2>4 DEF Passes
<1>7. Nat \subseteq S
  BY <1>5, <1>6, InductionOverNat
<1>8. \A i \in 0 .. n : Sound(g[i], p)
  BY <1>2, <1>4, <1>7
<1> QED
  BY <1>1, <1>2, <1>3, <1>8
-----------------------------------------------------------------------------
LEMMA FencedIsSound ==
  ASSUME NEW p, NEW s, Sound(s, p), NEW n \in Nat
  PROVE  Sound([s EXCEPT !.stream = FencedAt(n)], p)
<1>1. s \in StateType
  BY DEF Sound
<1>2. s.result \in Outcomes
  BY <1>1 DEF StateType
<1>3. [s EXCEPT !.stream = FencedAt(n)] = State(FencedAt(n), s.store, s.result)
  BY <1>1 DEF StateType, State
<1> QED
  BY <1>2, <1>3, DistrustIsSound

LEMMA RepairIsSound ==
  ASSUME NEW p, NEW s, Sound(s, p), NEW page \in Seq(Events), page # <<>>
  PROVE  /\ Sound(Repaired(s, page), p)
         /\ \A n \in 0 .. Len(page) : Sound(RepairFails(s, page, n), p)
<1>1. page[1] \in Events
  OBVIOUS
<1>2. page[1].seq \in Nat
  BY <1>1, EventFacts
<1>3. PICK f : f = [s EXCEPT !.stream = FencedAt(page[1].seq)]
  OBVIOUS
<1>4. Sound(f, p)
  BY <1>2, <1>3, FencedIsSound
<1>5. PICK done : done = AppliedAll(f, page)
  OBVIOUS
<1>6. Sound(done, p)
  BY <1>4, <1>5, RunIsSound
<1>7. "FAILED" \in Outcomes /\ "REPAIRED" \in Outcomes
  BY DEF Outcomes
<1>8. Sound(State(FencedAt(page[1].seq), done.store, "FAILED"), p)
  BY <1>2, <1>6, <1>7, DistrustIsSound
<1>9. Sound([done EXCEPT !.result = "REPAIRED"], p)
  BY <1>6, <1>7, RelabelIsSound
<1>10. Sound(Repaired(s, page), p)
  BY <1>3, <1>5, <1>8, <1>9 DEF Repaired
<1>11. ASSUME NEW n \in 0 .. Len(page) PROVE Sound(RepairFails(s, page, n), p)
  <2>1. SubSeq(page, 1, n) \in Seq(Events)
    OBVIOUS
  <2>2. Sound(AppliedAll(f, SubSeq(page, 1, n)), p)
    BY <2>1, <1>4, RunIsSound
  <2> QED
    BY <2>2, <1>2, <1>3, <1>7, DistrustIsSound DEF RepairFails
<1> QED
  BY <1>10, <1>11

(* The last snapshot of a list that has one. *)
LEMMA LastSnapshotFacts ==
  ASSUME NEW events \in Seq(Events), LastSnapshot(events) # 0
  PROVE  /\ LastSnapshot(events) \in 1 .. Len(events)
         /\ events[LastSnapshot(events)].kind = "SNAPSHOT"
<1>1. PICK T : T = {i \in 1 .. Len(events) : events[i].kind = "SNAPSHOT"}
  OBVIOUS
<1>2. T # {}
  BY <1>1 DEF LastSnapshot
<1>3. PICK D : D = {Len(events) - i : i \in T}
  OBVIOUS
<1>4. D \in SUBSET Nat /\ D # {}
  BY <1>1, <1>2, <1>3
<1>5. PICK d \in D : \A y \in D : d <= y
  BY <1>4, LeastNat
<1>6. PICK i \in T : d = Len(events) - i
  BY <1>3, <1>5
<1>7. \A j \in T : j <= i
  <2> SUFFICES ASSUME NEW j \in T PROVE j <= i
    OBVIOUS
  <2>1. d <= Len(events) - j
    BY <1>3, <1>5
  <2> QED
    BY <2>1, <1>1, <1>6
<1>8. LastSnapshot(events) \in T
  BY <1>1, <1>2, <1>6, <1>7 DEF LastSnapshot
<1> QED
  BY <1>1, <1>8

LEMMA SuffixFacts ==
  ASSUME NEW events \in Seq(Events), LastSnapshot(events) # 0, NEW l, l = LastSnapshot(events)
  PROVE  /\ l \in 1 .. Len(events)
         /\ Suffix(events) \in Seq(Events) /\ Suffix(events) # <<>>
         /\ Len(Suffix(events)) = Len(events) - l + 1
         /\ \A i \in 1 .. Len(Suffix(events)) : Suffix(events)[i] = events[l - 1 + i]
         /\ Suffix(events)[1].kind = "SNAPSHOT"
<1>1. l \in 1 .. Len(events) /\ events[l].kind = "SNAPSHOT"
  BY LastSnapshotFacts
<1>2. PICK x : x = SubSeq(events, l, Len(events))
  OBVIOUS
<1>3. x \in Seq(Events) /\ Len(x) = Len(events) - l + 1
  BY <1>1, <1>2
<1>4. \A i \in 1 .. Len(x) : x[i] = events[l - 1 + i]
  BY <1>1, <1>2, <1>3
<1>5. x # <<>> /\ x[1] = events[l]
  BY <1>1, <1>3, <1>4
<1>6. Suffix(events) = x
  BY <1>2 DEF Suffix
<1> QED
  BY <1>1, <1>3, <1>4, <1>5, <1>6

LEMMA CurrentIsSound ==
  ASSUME StreamInv
  PROVE  Sound(Current, persisted)
<1>1. Current \in StateType /\ Current.store = store /\ Current.stream = stream
  BY DEF Current, State, StateType, Outcomes, StreamInv
<1>2. Kept(persisted, store) = persisted
  <2>1. \A k \in Keys : persisted[k] = "absent" => store[k] = "absent"
    BY DEF StreamInv, Remembers
  <2> QED
    BY <2>1 DEF Kept, StreamInv
<1> QED
  BY <1>1, <1>2 DEF StreamInv, Sound

LEMMA BecomesSound ==
  ASSUME StreamInv, NEW s, Sound(s, persisted), Becomes(s)
  PROVE  StreamInv'
<1>1. /\ stream' = s.stream /\ store' = s.store /\ UNCHANGED compactions
      /\ persisted' = Kept(persisted, s.store)
  BY DEF Becomes, Kept
<1>2. stream' \in StreamType /\ store' \in StoreType
  BY <1>1 DEF Sound, StateType
<1>3. persisted' \in [Keys -> Bodies \cup {"absent"}]
  BY <1>1, <1>2 DEF StreamInv, Kept, StoreType
<1>4. Remembers(store', persisted') /\ NoHoles(stream', persisted')
  BY <1>1 DEF Sound
<1> QED
  BY <1>1, <1>2, <1>3, <1>4 DEF StreamInv, Remembers, NoHoles, RunsFrom

LEMMA StreamInit == Init => StreamInv
BY StreamAssumption DEF Init, StreamInv, NoStream, StreamType, StoreType, Remembers, NoHoles

LEMMA StreamStep == StreamInv /\ [Next]_vars => StreamInv'
<1> SUFFICES ASSUME StreamInv, [Next]_vars PROVE StreamInv'
  OBVIOUS
<1>s. Sound(Current, persisted)
  BY CurrentIsSound
<1>1. ASSUME NEW e \in Events, ApplyStreamEvent(e)
      PROVE  StreamInv'
  <2>1. Sound(Applied(Current, e), persisted)
    BY <1>s, AppliedIsSound
  <2> QED
    BY <2>1, <1>1, BecomesSound DEF ApplyStreamEvent
<1>2. ASSUME NEW page \in Pages, RepairStreamFromSnapshot(page)
      PROVE  StreamInv'
  <2>1. page \in Seq(Events) /\ page # <<>>
    BY <1>2, StreamAssumption DEF RepairStreamFromSnapshot, ValidPage
  <2>2. /\ Sound(Repaired(Current, page), persisted)
        /\ \A n \in 0 .. Len(page) : Sound(RepairFails(Current, page, n), persisted)
    BY <2>1, <1>s, RepairIsSound
  <2>3. CASE Becomes(Repaired(Current, page))
    BY <2>2, <2>3, BecomesSound
  <2>4. ASSUME NEW n \in 0 .. (Len(page) - 1), Becomes(RepairFails(Current, page, n))
        PROVE  StreamInv'
    <3>1. n \in 0 .. Len(page)
      BY <2>1
    <3>2. Sound(RepairFails(Current, page, n), persisted)
      BY <3>1, <2>2
    <3> QED
      BY <3>2, <2>4, BecomesSound
  <2> QED
    BY <2>3, <2>4, <1>2 DEF RepairStreamFromSnapshot
<1>3. ASSUME NEW events \in Bursts, NEW caps \in Capabilities, ApplyStreamBurst(events, caps)
      PROVE  StreamInv'
  <2>1. events \in Seq(Events)
    BY StreamAssumption
  <2>2. CASE ~Coalesces(events, caps)
    <3>1. CASE Becomes(Burst(Current, events, caps))
      <4>1. Becomes(AppliedAll(Current, events))
        BY <2>2, <3>1 DEF Burst
      <4> QED
        BY <4>1, <2>1, <1>s, RunIsSound, BecomesSound
    <3>2. ASSUME NEW n \in 0 .. (Len(events) - 1),
                 Becomes(AppliedAll(Current, SubSeq(events, 1, n)))
          PROVE  StreamInv'
      <4>1. SubSeq(events, 1, n) \in Seq(Events)
        BY <2>1
      <4> QED
        BY <4>1, <3>2, <1>s, RunIsSound, BecomesSound
    <3> QED
      BY <2>2, <3>1, <3>2, <1>3 DEF ApplyStreamBurst
  <2>3. CASE Coalesces(events, caps)
    <3>1. PICK x : x = Suffix(events)
      OBVIOUS
    <3>2. x \in Seq(Events) /\ x # <<>>
      BY <2>1, <2>3, <3>1, SuffixFacts DEF Coalesces
    <3>3. /\ Sound(Repaired(Current, x), persisted)
          /\ \A n \in 0 .. Len(x) : Sound(RepairFails(Current, x, n), persisted)
      BY <3>2, <1>s, RepairIsSound
    <3>4. CASE Becomes(Burst(Current, events, caps))
      <4>1. Becomes(Repaired(Current, x))
        BY <2>3, <3>1, <3>4 DEF Burst
      <4> QED
        BY <4>1, <3>3, BecomesSound
    <3>5. ASSUME NEW n \in 0 .. (Len(events) - 1), n < Len(x),
                 Becomes(RepairFails(Current, x, n))
          PROVE  StreamInv'
      <4>1. n \in 0 .. Len(x)
        BY <2>1, <3>2, <3>5
      <4>2. Sound(RepairFails(Current, x, n), persisted)
        BY <4>1, <3>3
      <4> QED
        BY <4>2, <3>5, BecomesSound
    <3> QED
      BY <2>3, <3>1, <3>4, <3>5, <1>3 DEF ApplyStreamBurst
  <2> QED
    BY <2>2, <2>3
<1>4. CASE Restart
  BY <1>4 DEF Restart, StreamInv, NoStream, StreamType, Remembers, NoHoles
<1>5. ASSUME NEW K \in SUBSET Keys, CompactOperational(K)
      PROVE  StreamInv'
  <2>1. compactions' \in 0 .. MaxCompactions
    BY <1>5, StreamAssumption DEF StreamInv, CompactOperational
  <2>2. store' \in StoreType
    BY <1>5 DEF StreamInv, StoreType, CompactOperational
  <2>3. Remembers(store', persisted)
    BY <1>5 DEF StreamInv, Remembers, CompactOperational
  <2> QED
    BY <1>5, <2>1, <2>2, <2>3 DEF StreamInv, Remembers, NoHoles, RunsFrom, CompactOperational
<1>6. CASE UNCHANGED vars
  BY <1>6 DEF vars, StreamInv, Remembers, NoHoles, RunsFrom
<1> QED
  BY <1>1, <1>2, <1>3, <1>4, <1>5, <1>6 DEF Next

(* What the store holds under a key is what it was first given, or nothing  *)
(* but the key once it was compacted, and the stream is free of holes with  *)
(* respect to it, through duplicates, late events, failing repairs and      *)
(* restarts (applyStreamEvent, compactOperational).                         *)
THEOREM StreamInvariance == Spec => []StreamInv
BY StreamInit, StreamStep, PTL DEF Spec

(* A trusted stream runs from a snapshot to the event before nextSequence   *)
(* without a gap or a second opinion, each event stored with that content,  *)
(* for lists of events of any length (applyStreamEvent,                     *)
(* repairStreamFromSnapshot, applyStreamBurst).                             *)
THEOREM TrustedStreamHasNoHolesTheorem == Spec => []TrustedStreamHasNoHoles
<1>1. StreamInv => TrustedStreamHasNoHoles
  BY DEF StreamInv, NoHoles, RunsFrom, TrustedStreamHasNoHoles
<1> QED
  BY <1>1, StreamInvariance, PTL
-----------------------------------------------------------------------------
(* Lists without a gap, applied where the stream expects them. *)
LEMMA ContiguousSequences ==
  ASSUME NEW events \in Seq(Events), Contiguous(events), events # <<>>
  PROVE  \A i \in 1 .. Len(events) : events[i].seq = events[1].seq + i - 1
<1>1. PICK S : S = {i \in Nat : i + 1 <= Len(events) => events[i + 1].seq = events[1].seq + i}
  OBVIOUS
<1>2. \A i \in 1 .. Len(events) : events[i].seq \in Nat
  BY EventFacts
<1>3. 0 \in S
  BY <1>1, <1>2
<1>4. ASSUME NEW i \in Nat, i \in S PROVE i + 1 \in S
  <2> SUFFICES ASSUME i + 2 <= Len(events)
               PROVE  events[i + 2].seq = events[1].seq + (i + 1)
    BY <1>1
  <2>1. events[i + 1].seq = events[1].seq + i /\ events[1].seq \in Nat
    BY <1>1, <1>2, <1>4
  <2>2. i + 2 \in 2 .. Len(events) /\ (i + 2) - 1 = i + 1
    OBVIOUS
  <2>3. events[i + 2].seq = events[i + 1].seq + 1
    BY <2>2 DEF Contiguous
  <2> QED
    BY <2>1, <2>3
<1>5. Nat \subseteq S
  BY <1>3, <1>4, InductionOverNat
<1> SUFFICES ASSUME NEW i \in 1 .. Len(events) PROVE events[i].seq = events[1].seq + i - 1
  OBVIOUS
<1>6. i - 1 \in Nat /\ (i - 1) + 1 = i
  OBVIOUS
<1>7. i - 1 \in S
  BY <1>5, <1>6
<1>8. events[i].seq = events[1].seq + (i - 1) /\ events[1].seq \in Nat
  BY <1>1, <1>2, <1>6, <1>7
<1> QED
  BY <1>8

(* The stream expects this event and has seen only earlier ones. *)
Expects(s, n) == s.stream.nextSequence = n /\ \A x \in s.stream.seen : x.seq < n

LEMMA SoundSeesEarlier ==
  ASSUME NEW p, NEW s, Sound(s, p)
  PROVE  Expects(s, s.stream.nextSequence)
<1>1. s.stream.nextSequence \in Nat /\ s.stream.seen \subseteq Events
  BY DEF Sound, StateType, StreamType
<1>2. CASE ~s.stream.hasSnapshot
  BY <1>2 DEF Sound, NoHoles, Expects
<1>3. CASE s.stream.hasSnapshot
  <2>1. PICK first \in s.stream.seen : RunsFrom(first, s.stream, Kept(p, s.store))
    BY <1>3 DEF Sound, NoHoles
  <2>2. first.seq \in Nat
    BY <1>1, EventFacts
  <2>3. \A x \in s.stream.seen : x.seq \in first.seq .. (s.stream.nextSequence - 1)
    BY <2>1 DEF RunsFrom
  <2> QED
    BY <1>1, <2>2, <2>3 DEF Expects
<1> QED
  BY <1>2, <1>3

LEMMA AdvanceExpectsNext ==
  ASSUME NEW s \in StateType, NEW e \in Events, Expects(s, e.seq), Advances(s, e)
  PROVE  Expects(Applied(s, e), e.seq + 1)
<1>1. PICK t : t = Applied(s, e)
  OBVIOUS
<1>2. /\ t.stream.nextSequence = s.stream.nextSequence + 1
      /\ t.stream.seen = s.stream.seen \cup {e}
  BY <1>1, AdvancedState
<1>3. \A x \in s.stream.seen : x.seq \in Nat /\ x.seq < e.seq
  BY EventFacts DEF Expects, StateType, StreamType
<1>4. e.seq \in Nat
  BY EventFacts
<1>5. \A x \in t.stream.seen : x.seq < e.seq + 1
  BY <1>2, <1>3, <1>4
<1> QED
  BY <1>1, <1>2, <1>5 DEF Expects

(* An event that is expected and does not break the stream advances it. *)
LEMMA ExpectedAdvances ==
  ASSUME NEW s \in StateType, NEW e \in Events, Expects(s, e.seq),
         Applied(s, e).result \notin Breaks
  PROVE  Advances(s, e)
<1>1. e \notin s.stream.seen
  BY EventFacts DEF Expects
<1>2. ASSUME NEW r \in Breaks, Applied(s, e) = RepairRequired(s, e, r)
      PROVE  FALSE
  <2>1. Applied(s, e).result = r
    BY <1>2 DEF RepairRequired, State
  <2> QED
    BY <2>1
<1> QED
  BY <1>1, <1>2, AppliedCases

(* What the store of t holds beyond that of s are bodies of the first n    *)
(* events.                                                                 *)
Grown(s, t, events, n) ==
  \A k \in Keys : \/ t.store[k] = s.store[k]
                  \/ \E j \in 1 .. n : events[j].key = k /\ t.store[k] = events[j].body

(* A page without gaps whose events agree with the store and with each     *)
(* other is accepted to its end.                                           *)
LEMMA PageAccepted ==
  ASSUME NEW s \in StateType, NEW page \in Seq(Events), page # <<>>, Contiguous(page),
         Expects(s, page[1].seq), page[1].kind = "SNAPSHOT",
         \A i \in 1 .. Len(page) : s.store[page[i].key] \in {"absent", page[i].body},
         \A i, j \in 1 .. Len(page) : page[i].key = page[j].key => page[i].body = page[j].body
  PROVE  /\ AppliedAll(s, page) \in StateType
         /\ AppliedAll(s, page).result \notin Breaks
         /\ AppliedAll(s, page).stream.nextSequence = page[1].seq + Len(page)
         /\ AppliedAll(s, page).stream.hasSnapshot
<1>1. PICK g : g = Run(s, page)
  OBVIOUS
<1>2. PICK n : n = Len(page)
  OBVIOUS
<1>3. /\ g[0] = Starting(s) /\ AppliedAll(s, page) = g[n]
      /\ \A i \in 1 .. n : g[i] = Passes(g[i - 1], page[i])
  BY <1>1, <1>2, RunSteps
<1>4. n \in Nat /\ n >= 1 /\ page[1].seq \in Nat
  BY <1>2, EventFacts
<1> DEFINE Fine(x, i) == /\ x \in StateType /\ x.result \in {"APPLIED", "DUPLICATE"}
                         /\ Expects(x, page[1].seq + i)
                         /\ i > 0 => x.stream.hasSnapshot
                         /\ Grown(s, x, page, i)
<1>5. PICK S : S = {i \in Nat : i <= n => Fine(g[i], i)}
  OBVIOUS
<1>6. 0 \in S
  <2>1. /\ g[0] \in StateType /\ g[0].stream = s.stream /\ g[0].store = s.store
        /\ g[0].result = "APPLIED"
    <3>1. g[0] = [s EXCEPT !.result = "APPLIED"]
      BY <1>3 DEF Starting
    <3>2. "APPLIED" \in Outcomes
      BY DEF Outcomes
    <3> QED
      BY <3>1, <3>2, RelabelledState
  <2>2. Fine(g[0], 0)
    BY <2>1, <1>4 DEF Expects, Grown
  <2> QED
    BY <2>2, <1>5
<1>7. ASSUME NEW i \in Nat, i \in S PROVE i + 1 \in S
  <2> SUFFICES ASSUME i + 1 <= n PROVE Fine(g[i + 1], i + 1)
    BY <1>5
  <2>1. Fine(g[i], i) /\ i + 1 \in 1 .. n /\ (i + 1) - 1 = i
    BY <1>4, <1>5, <1>7
  <2>2. PICK x : x = g[i]
    OBVIOUS
  <2>3. PICK e : e = page[i + 1]
    OBVIOUS
  <2>4. e \in Events /\ e.key \in Keys /\ e.body # "absent"
    BY <2>1, <2>3, <1>2, EventFacts
  <2>5. e.seq = page[1].seq + i
    BY <2>1, <2>3, <1>2, <1>4, ContiguousSequences
  <2>6. x \in StateType /\ Expects(x, e.seq) /\ x.result \notin Breaks /\ Grown(s, x, page, i)
    BY <2>1, <2>2, <2>5 DEF Breaks
  <2>7. x.stream.hasSnapshot \/ e.kind = "SNAPSHOT"
    BY <2>1, <2>2, <2>3
  <2>8. StoreAgrees(x, e)
    <3>1. x.store[e.key] = s.store[e.key]
            \/ \E j \in 1 .. i : page[j].key = e.key /\ x.store[e.key] = page[j].body
      BY <2>4, <2>6 DEF Grown
    <3>2. s.store[e.key] \in {"absent", e.body}
      BY <2>1, <2>3, <1>2
    <3>3. \A j \in 1 .. i : page[j].key = e.key => page[j].body = e.body
      <4> SUFFICES ASSUME NEW j \in 1 .. i, page[j].key = e.key PROVE page[j].body = e.body
        OBVIOUS
      <4>1. j \in 1 .. Len(page) /\ i + 1 \in 1 .. Len(page)
        BY <2>1, <1>2, <1>4
      <4> QED
        BY <4>1, <2>3
    <3> QED
      BY <3>1, <3>2, <3>3 DEF StoreAgrees
  <2>9. Advances(x, e)
    <3>1. \A y \in x.stream.seen : y.seq # e.seq
      BY <2>4, <2>6, EventFacts DEF Expects
    <3> QED
      BY <3>1, <2>6, <2>7, <2>8 DEF Advances, Expects
  <2>10. PICK t : t = Applied(x, e)
    OBVIOUS
  <2>11. g[i + 1] = t
    BY <2>1, <2>2, <2>3, <2>6, <2>10, <1>3 DEF Passes
  <2>12. /\ t \in StateType /\ t.stream.hasSnapshot
         /\ t.store = [x.store EXCEPT ![e.key] = e.body]
         /\ t.result \in {"APPLIED", "DUPLICATE"}
    BY <2>4, <2>6, <2>9, <2>10, AdvancedState
  <2>13. Expects(t, page[1].seq + (i + 1))
    <3>1. Expects(t, e.seq + 1)
      BY <2>4, <2>6, <2>9, <2>10, AdvanceExpectsNext
    <3>2. e.seq + 1 = page[1].seq + (i + 1)
      BY <2>5, <1>4
    <3> QED
      BY <3>1, <3>2
  <2>14. Grown(s, t, page, i + 1)
    <3> SUFFICES ASSUME NEW k \in Keys
                 PROVE  \/ t.store[k] = s.store[k]
                        \/ \E j \in 1 .. (i + 1) : page[j].key = k /\ t.store[k] = page[j].body
      BY DEF Grown
    <3>1. x.store \in StoreType
      BY <2>6 DEF StateType
    <3>2. CASE k = e.key
      <4>1. t.store[k] = e.body
        BY <3>1, <3>2, <2>12 DEF StoreType
      <4> QED
        BY <4>1, <3>2, <2>1, <2>3
    <3>3. CASE k # e.key
      <4>1. t.store[k] = x.store[k]
        BY <3>1, <3>3, <2>12 DEF StoreType
      <4>2. \A j \in 1 .. i : j \in 1 .. (i + 1)
        OBVIOUS
      <4> QED
        BY <4>1, <4>2, <2>6 DEF Grown
    <3> QED
      BY <3>2, <3>3
  <2> QED
    BY <2>11, <2>12, <2>13, <2>14
<1> HIDE DEF Fine
<1>8. Nat \subseteq S
  BY <1>6, <1>7, InductionOverNat
<1>9. Fine(g[n], n)
  BY <1>4, <1>5, <1>8
<1> QED
  BY <1>2, <1>3, <1>4, <1>9 DEF Fine, Expects, Breaks

(* A repair with such a page succeeds. *)
LEMMA PageRepairs ==
  ASSUME NEW s \in StateType, NEW page \in Seq(Events), ValidPage(page),
         \A i \in 1 .. Len(page) : s.store[page[i].key] \in {"absent", page[i].body},
         \A i, j \in 1 .. Len(page) : page[i].key = page[j].key => page[i].body = page[j].body
  PROVE  /\ Repaired(s, page).result = "REPAIRED"
         /\ Repaired(s, page).stream.nextSequence = page[1].seq + Len(page)
         /\ Repaired(s, page).stream.hasSnapshot
<1>1. page # <<>> /\ page[1].kind = "SNAPSHOT" /\ Contiguous(page)
  BY DEF ValidPage
<1>2. page[1].seq \in Nat
  BY <1>1, EventFacts
<1>3. PICK f : f = [s EXCEPT !.stream = FencedAt(page[1].seq)]
  OBVIOUS
<1>4. f = State(FencedAt(page[1].seq), s.store, s.result) /\ s.result \in Outcomes
  BY <1>3 DEF StateType, State
<1>5. /\ f \in StateType /\ f.store = s.store
      /\ f.stream.nextSequence = page[1].seq /\ f.stream.seen = {}
  <2>1. PICK n \in Nat : n = page[1].seq
    BY <1>2
  <2>2. PICK r \in Outcomes : r = s.result
    BY <1>4
  <2>3. f = State(FencedAt(n), s.store, r)
    BY <1>4, <2>1, <2>2
  <2>4. PICK a : a = FencedAt(n)
    OBVIOUS
  <2>5. a \in StreamType /\ a.nextSequence = n /\ a.seen = {}
    BY <2>4 DEF FencedAt, StreamType
  <2>6. f = [stream |-> a, store |-> s.store, result |-> r]
    BY <2>3, <2>4 DEF State
  <2>7. s.store \in StoreType
    BY DEF StateType
  <2>8. f \in StateType /\ f.stream = a /\ f.store = s.store
    BY <2>5, <2>6, <2>7 DEF StateType
  <2> QED
    BY <2>1, <2>5, <2>8
<1>6. Expects(f, page[1].seq)
  BY <1>5 DEF Expects
<1>7. PICK done : done = AppliedAll(f, page)
  OBVIOUS
<1>8. \A i \in 1 .. Len(page) : f.store[page[i].key] \in {"absent", page[i].body}
  BY <1>5
<1>9. /\ done \in StateType /\ done.result \notin Breaks
      /\ done.stream.nextSequence = page[1].seq + Len(page) /\ done.stream.hasSnapshot
  BY <1>1, <1>5, <1>6, <1>7, <1>8, PageAccepted
<1>10. Repaired(s, page) = [done EXCEPT !.result = "REPAIRED"]
  BY <1>3, <1>7, <1>9 DEF Repaired
<1>11. "REPAIRED" \in Outcomes
  BY DEF Outcomes
<1>12. /\ Repaired(s, page).stream = done.stream
       /\ Repaired(s, page).result = "REPAIRED"
  BY <1>9, <1>10, <1>11, RelabelledState
<1> QED
  BY <1>9, <1>12

LEMMA PersistedPages == StreamInv => PersistedPageRepairs
<1> SUFFICES ASSUME StreamInv, NEW page \in Pages, Replayable(page),
                    \A i \in 1 .. Len(page) : store[page[i].key] # "released"
             PROVE  Repaired(Current, page).result = "REPAIRED"
  BY DEF PersistedPageRepairs
<1>1. page \in Seq(Events) /\ ValidPage(page)
  BY StreamAssumption DEF Replayable
<1>2. Current \in StateType /\ Current.store = store
  BY DEF Current, State, StateType, Outcomes, StreamInv
<1>3. ASSUME NEW i \in 1 .. Len(page)
      PROVE  page[i].key \in Keys /\ persisted[page[i].key] = page[i].body
  BY <1>1, EventFacts DEF Replayable
<1>4. \A i \in 1 .. Len(page) : Current.store[page[i].key] \in {"absent", page[i].body}
  BY <1>2, <1>3 DEF StreamInv, Remembers
<1>5. \A i, j \in 1 .. Len(page) : page[i].key = page[j].key => page[i].body = page[j].body
  BY <1>3
<1> QED
  BY <1>1, <1>2, <1>4, <1>5, PageRepairs

(* A page of events that were stored exactly so before repairs the stream,  *)
(* whatever its length, after a restart, a conflict or a repair that failed *)
(* half way, as long as compaction has left the events in the store         *)
(* (repairStreamFromSnapshot).                                              *)
THEOREM PersistedPageRepairsTheorem == Spec => []PersistedPageRepairs
BY PersistedPages, StreamInvariance, PTL
-----------------------------------------------------------------------------
(* A list whose last event does not break the stream has none that does.   *)
LEMMA BreakStays ==
  ASSUME NEW s, NEW events \in Seq(Events),
         NEW g, g = Run(s, events), g[Len(events)].result \notin Breaks,
         NEW i \in 0 .. Len(events)
  PROVE  g[i].result \notin Breaks
<1> SUFFICES ASSUME g[i].result \in Breaks PROVE FALSE
  OBVIOUS
<1>1. \A j \in 1 .. Len(events) : g[j] = Passes(g[j - 1], events[j])
  BY RunSteps
<1>2. PICK S : S = {m \in Nat : i + m <= Len(events) => g[i + m] = g[i]}
  OBVIOUS
<1>3. 0 \in S
  BY <1>2
<1>4. ASSUME NEW m \in Nat, m \in S PROVE m + 1 \in S
  <2> SUFFICES ASSUME i + (m + 1) <= Len(events) PROVE g[i + (m + 1)] = g[i]
    BY <1>2
  <2>1. g[i + m] = g[i] /\ i + (m + 1) \in 1 .. Len(events) /\ (i + (m + 1)) - 1 = i + m
    BY <1>2, <1>4
  <2>2. g[i + (m + 1)] = Passes(g[i + m], events[i + (m + 1)])
    BY <2>1, <1>1
  <2> QED
    BY <2>1, <2>2 DEF Passes
<1>5. Nat \subseteq S
  BY <1>3, <1>4, InductionOverNat
<1>6. Len(events) - i \in S /\ i + (Len(events) - i) = Len(events)
  BY <1>5
<1> QED
  BY <1>2, <1>6

(* A list that starts where the stream expects it and breaks nothing       *)
(* leaves a trusted stream.                                                *)
LEMMA AcceptedIsTrusted ==
  ASSUME NEW p, NEW s, Sound(s, p), NEW events \in Seq(Events), events # <<>>,
         events[1].seq = s.stream.nextSequence, AppliedAll(s, events).result \notin Breaks
  PROVE  /\ AppliedAll(s, events).result \in {"APPLIED", "DUPLICATE"}
         /\ AppliedAll(s, events).stream.hasSnapshot
<1>1. PICK g : g = Run(s, events)
  OBVIOUS
<1>2. PICK n : n = Len(events)
  OBVIOUS
<1>3. /\ g[0] = Starting(s) /\ AppliedAll(s, events) = g[n]
      /\ \A i \in 1 .. n : g[i] = Passes(g[i - 1], events[i])
  BY <1>1, <1>2, RunSteps
<1>4. n \in Nat /\ n >= 1
  BY <1>2
<1>5. \A i \in 0 .. n : Sound(g[i], p) /\ g[i].result \notin Breaks
  BY <1>1, <1>2, <1>3, RunIsSound, BreakStays
<1>6. PICK S : S = {i \in Nat : i + 1 <= n =>
                      g[i + 1].result \in {"APPLIED", "DUPLICATE"} /\ g[i + 1].stream.hasSnapshot}
  OBVIOUS
<1>7. ASSUME NEW i \in Nat, i + 1 <= n, i = 0 \/ g[i].stream.hasSnapshot
      PROVE  g[i + 1].result \in {"APPLIED", "DUPLICATE"} /\ g[i + 1].stream.hasSnapshot
  <2>1. PICK x : x = g[i]
    OBVIOUS
  <2>2. PICK e : e = events[i + 1]
    OBVIOUS
  <2>3. i \in 0 .. n /\ i + 1 \in 0 .. n /\ i + 1 \in 1 .. n /\ (i + 1) - 1 = i
    BY <1>4, <1>7
  <2>4. e \in Events /\ Sound(x, p) /\ x \in StateType /\ x.result \notin Breaks
    BY <2>1, <2>2, <2>3, <1>2, <1>5 DEF Sound
  <2>5. g[i + 1] = Applied(x, e) /\ Applied(x, e).result \notin Breaks
    BY <2>1, <2>2, <2>3, <2>4, <1>3, <1>5 DEF Passes
  <2>6. CASE e \in x.stream.seen /\ Applied(x, e) = [x EXCEPT !.result = "DUPLICATE"]
    <3>1. i # 0
      <4> SUFFICES ASSUME i = 0 PROVE FALSE
        OBVIOUS
      <4>1. s \in StateType /\ "APPLIED" \in Outcomes
        BY DEF Sound, Outcomes
      <4>2. x.stream = s.stream
        BY <4>1, <2>1, <1>3, RelabelledState DEF Starting
      <4>3. Expects(s, s.stream.nextSequence)
        BY SoundSeesEarlier
      <4>4. e.seq < e.seq /\ e.seq \in Nat
        BY <4>2, <4>3, <2>2, <2>4, <2>6, EventFacts DEF Expects
      <4> QED
        BY <4>4
    <3>2. "DUPLICATE" \in Outcomes
      BY DEF Outcomes
    <3>3. g[i + 1].stream = x.stream /\ g[i + 1].result = "DUPLICATE"
      BY <3>2, <2>4, <2>5, <2>6, RelabelledState
    <3> QED
      BY <3>1, <3>3, <2>1, <1>7
  <2>7. ASSUME NEW r \in Breaks, Applied(x, e) = RepairRequired(x, e, r)
        PROVE  FALSE
    <3>1. Applied(x, e).result = r
      BY <2>7 DEF RepairRequired, State
    <3> QED
      BY <3>1, <2>5
  <2>8. CASE Advances(x, e)
    BY <2>4, <2>5, <2>8, AdvancedState
  <2> QED
    BY <2>6, <2>7, <2>8, AppliedCases
<1>8. 0 \in S
  BY <1>4, <1>6, <1>7
<1>9. ASSUME NEW i \in Nat, i \in S PROVE i + 1 \in S
  <2> SUFFICES ASSUME (i + 1) + 1 <= n
               PROVE  /\ g[(i + 1) + 1].result \in {"APPLIED", "DUPLICATE"}
                      /\ g[(i + 1) + 1].stream.hasSnapshot
    BY <1>6
  <2>1. g[i + 1].stream.hasSnapshot /\ i + 1 \in Nat
    BY <1>4, <1>6, <1>9
  <2> QED
    BY <2>1, <1>7
<1>10. n - 1 \in S /\ (n - 1) + 1 = n
  BY <1>4, <1>8, <1>9, InductionOverNat
<1> QED
  BY <1>3, <1>4, <1>6, <1>10

(* A list without gaps that was accepted agrees with the store it met and  *)
(* with itself, and moves the stream by its length.                        *)
LEMMA AcceptedAgrees ==
  ASSUME NEW p, NEW s, Sound(s, p), NEW events \in Seq(Events), events # <<>>,
         Contiguous(events), events[1].seq = s.stream.nextSequence,
         AppliedAll(s, events).result \notin Breaks
  PROVE  /\ AppliedAll(s, events).stream.nextSequence = events[1].seq + Len(events)
         /\ \A i \in 1 .. Len(events) : s.store[events[i].key] \in {"absent", events[i].body}
         /\ \A i, j \in 1 .. Len(events) :
              events[i].key = events[j].key => events[i].body = events[j].body
<1>1. PICK g : g = Run(s, events)
  OBVIOUS
<1>2. PICK n : n = Len(events)
  OBVIOUS
<1>3. /\ g[0] = Starting(s) /\ AppliedAll(s, events) = g[n]
      /\ \A i \in 1 .. n : g[i] = Passes(g[i - 1], events[i])
  BY <1>1, <1>2, RunSteps
<1>4. n \in Nat /\ n >= 1 /\ events[1].seq \in Nat
  BY <1>2, EventFacts
<1>5. \A i \in 0 .. n : g[i].result \notin Breaks
  BY <1>1, <1>2, <1>3, BreakStays
<1>6. s \in StateType /\ Expects(s, events[1].seq)
  BY SoundSeesEarlier DEF Sound
<1> DEFINE Fine(x, i) ==
             /\ x \in StateType
             /\ Expects(x, events[1].seq + i)
             /\ \A k \in Keys : s.store[k] = "absent" \/ x.store[k] = s.store[k]
             /\ \A j \in 1 .. i : x.store[events[j].key] = events[j].body
<1>7. PICK S : S = {i \in Nat : i <= n => Fine(g[i], i)}
  OBVIOUS
<1>8. 0 \in S
  <2>1. g[0] = [s EXCEPT !.result = "APPLIED"] /\ "APPLIED" \in Outcomes
    BY <1>3 DEF Starting, Outcomes
  <2>2. g[0] \in StateType /\ g[0].stream = s.stream /\ g[0].store = s.store
    BY <2>1, <1>6, RelabelledState
  <2>3. Fine(g[0], 0)
    BY <2>2, <1>4, <1>6 DEF Expects
  <2> QED
    BY <2>3, <1>7
<1>9. ASSUME NEW i \in Nat, i \in S PROVE i + 1 \in S
  <2> SUFFICES ASSUME i + 1 <= n PROVE Fine(g[i + 1], i + 1)
    BY <1>7
  <2>1. Fine(g[i], i) /\ i + 1 \in 1 .. n /\ i \in 0 .. n /\ i + 1 \in 0 .. n /\ (i + 1) - 1 = i
    BY <1>4, <1>7, <1>9
  <2>2. PICK x : x = g[i]
    OBVIOUS
  <2>3. PICK e : e = events[i + 1]
    OBVIOUS
  <2>4. e \in Events /\ e.key \in Keys /\ e.body # "absent"
    BY <2>1, <2>3, <1>2, EventFacts
  <2>5. e.seq = events[1].seq + i
    BY <2>1, <2>3, <1>2, <1>4, ContiguousSequences
  <2>6. x \in StateType /\ Expects(x, e.seq) /\ x.result \notin Breaks
    BY <2>1, <2>2, <2>5, <1>5
  <2>7. PICK t : t = Applied(x, e)
    OBVIOUS
  <2>8. g[i + 1] = t /\ t.result \notin Breaks
    BY <2>1, <2>2, <2>3, <2>6, <2>7, <1>3, <1>5 DEF Passes
  <2>9. Advances(x, e)
    BY <2>4, <2>6, <2>7, <2>8, ExpectedAdvances
  <2>10. t \in StateType /\ t.store = [x.store EXCEPT ![e.key] = e.body]
    BY <2>4, <2>6, <2>7, <2>9, AdvancedState
  <2>11. Expects(t, events[1].seq + (i + 1))
    <3>1. Expects(t, e.seq + 1)
      BY <2>4, <2>6, <2>7, <2>9, AdvanceExpectsNext
    <3>2. e.seq + 1 = events[1].seq + (i + 1)
      BY <2>5, <1>4
    <3> QED
      BY <3>1, <3>2
  <2>12. /\ t.store[e.key] = e.body
         /\ \A k \in Keys : k # e.key => t.store[k] = x.store[k]
         /\ x.store[e.key] \in {"absent", e.body}
    BY <2>4, <2>6, <2>9, <2>10 DEF StateType, StoreType, Advances, StoreAgrees
  <2>13. \A k \in Keys : x.store[k] = "absent" \/ t.store[k] = x.store[k]
    BY <2>4, <2>12
  <2>14. \A k \in Keys : s.store[k] = "absent" \/ t.store[k] = s.store[k]
    BY <2>1, <2>2, <2>13
  <2>15. \A j \in 1 .. (i + 1) : t.store[events[j].key] = events[j].body
    <3> SUFFICES ASSUME NEW j \in 1 .. (i + 1)
                 PROVE  t.store[events[j].key] = events[j].body
      OBVIOUS
    <3>1. CASE j = i + 1
      BY <3>1, <2>3, <2>12
    <3>2. CASE j \in 1 .. i
      <4>1. j \in 1 .. Len(events)
        BY <3>2, <2>1, <1>2, <1>4
      <4>2. events[j] \in Events
        BY <4>1
      <4>3. events[j].key \in Keys /\ events[j].body # "absent"
        BY <4>2, EventFacts
      <4>4. x.store[events[j].key] = events[j].body
        BY <3>2, <2>1, <2>2
      <4> QED
        BY <4>3, <4>4, <2>13
    <3> QED
      BY <3>1, <3>2
  <2> QED
    BY <2>8, <2>10, <2>11, <2>14, <2>15
<1> HIDE DEF Fine
<1>10. Nat \subseteq S
  BY <1>8, <1>9, InductionOverNat
<1>11. Fine(g[n], n)
  BY <1>4, <1>7, <1>10
<1>12. g[n].stream.nextSequence = events[1].seq + n
  BY <1>11 DEF Fine, Expects
<1>13. \A i \in 1 .. n : events[i].key \in Keys /\ g[n].store[events[i].key] = events[i].body
  BY <1>2, <1>11, EventFacts DEF Fine
<1>14. \A i \in 1 .. n : s.store[events[i].key] \in {"absent", events[i].body}
  BY <1>11, <1>13 DEF Fine
<1> QED
  BY <1>2, <1>3, <1>12, <1>13, <1>14

LEMMA BurstsAreTransparent == StreamInv => CoalescingIsTransparent
<1> SUFFICES ASSUME StreamInv, NEW events \in Bursts, NEW caps \in Capabilities,
                    events # <<>>, events[1].seq = stream.nextSequence,
                    AppliedAll(Current, events).result \notin Breaks
             PROVE  LET burst == Burst(Current, events, caps)
                    IN /\ burst.result \notin Breaks \cup {"FAILED"}
                       /\ burst.stream.nextSequence =
                            AppliedAll(Current, events).stream.nextSequence
                       /\ burst.stream.hasSnapshot
  BY DEF CoalescingIsTransparent
<1>1. events \in Seq(Events)
  BY StreamAssumption
<1>2. Sound(Current, persisted) /\ Current \in StateType /\ Current.stream = stream
  BY CurrentIsSound DEF Sound, Current, State
<1>3. events[1].seq = Current.stream.nextSequence
  BY <1>2
<1>4. CASE ~Coalesces(events, caps)
  <2>1. Burst(Current, events, caps) = AppliedAll(Current, events)
    BY <1>4 DEF Burst
  <2>2. /\ AppliedAll(Current, events).result \in {"APPLIED", "DUPLICATE"}
        /\ AppliedAll(Current, events).stream.hasSnapshot
    BY <1>1, <1>2, <1>3, AcceptedIsTrusted
  <2> QED
    BY <2>1, <2>2 DEF Breaks
<1>5. CASE Coalesces(events, caps)
  <2>1. PICK x : x = Suffix(events)
    OBVIOUS
  <2>2. PICK l : l = LastSnapshot(events)
    OBVIOUS
  <2>3. Contiguous(events) /\ l # 0
    BY <1>5, <2>2 DEF Coalesces
  <2>4. /\ l \in 1 .. Len(events) /\ x \in Seq(Events) /\ x # <<>>
        /\ Len(x) = Len(events) - l + 1 /\ x[1].kind = "SNAPSHOT"
        /\ \A i \in 1 .. Len(x) : x[i] = events[l - 1 + i]
    BY <2>1, <2>2, <2>3, <1>1, SuffixFacts
  <2>5. /\ AppliedAll(Current, events).stream.nextSequence = events[1].seq + Len(events)
        /\ \A i \in 1 .. Len(events) :
             Current.store[events[i].key] \in {"absent", events[i].body}
        /\ \A i, j \in 1 .. Len(events) :
             events[i].key = events[j].key => events[i].body = events[j].body
    BY <2>3, <1>1, <1>2, <1>3, AcceptedAgrees
  <2>6. \A i \in 1 .. Len(x) : l - 1 + i \in 1 .. Len(events)
    BY <2>4, <1>1
  <2>7. Contiguous(x)
    <3> SUFFICES ASSUME NEW i \in 2 .. Len(x) PROVE x[i].seq = x[i - 1].seq + 1
      BY DEF Contiguous
    <3>1. i \in 1 .. Len(x) /\ i - 1 \in 1 .. Len(x)
      BY <2>4
    <3>2. x[i] = events[l - 1 + i] /\ x[i - 1] = events[l - 1 + (i - 1)]
      BY <3>1, <2>4
    <3>3. l - 1 + i \in 2 .. Len(events) /\ l - 1 + (i - 1) = (l - 1 + i) - 1
      BY <2>4, <1>1
    <3> QED
      BY <3>2, <3>3, <2>3 DEF Contiguous
  <2>8. ValidPage(x)
    BY <2>4, <2>7 DEF ValidPage
  <2>9. \A i \in 1 .. Len(x) : Current.store[x[i].key] \in {"absent", x[i].body}
    BY <2>4, <2>5, <2>6
  <2>10. \A i, j \in 1 .. Len(x) : x[i].key = x[j].key => x[i].body = x[j].body
    <3> SUFFICES ASSUME NEW i \in 1 .. Len(x), NEW j \in 1 .. Len(x), x[i].key = x[j].key
                 PROVE  x[i].body = x[j].body
      OBVIOUS
    <3>1. x[i] = events[l - 1 + i] /\ x[j] = events[l - 1 + j]
      BY <2>4
    <3>2. l - 1 + i \in 1 .. Len(events) /\ l - 1 + j \in 1 .. Len(events)
      BY <2>6
    <3> QED
      BY <3>1, <3>2, <2>5
  <2>11. /\ Repaired(Current, x).result = "REPAIRED"
         /\ Repaired(Current, x).stream.nextSequence = x[1].seq + Len(x)
         /\ Repaired(Current, x).stream.hasSnapshot
    BY <2>4, <2>8, <2>9, <2>10, <1>2, PageRepairs
  <2>12. x[1].seq + Len(x) = events[1].seq + Len(events)
    <3>1. x[1] = events[l] /\ events[l].seq = events[1].seq + l - 1
      BY <2>3, <2>4, <1>1, ContiguousSequences
    <3>2. events[1].seq \in Nat /\ Len(events) \in Nat
      BY <1>1, EventFacts
    <3>3. x[1].seq = events[1].seq + l - 1
      BY <3>1
    <3>4. l \in Nat /\ Len(x) = Len(events) - l + 1
      BY <2>4
    <3> QED
      BY <3>2, <3>3, <3>4
  <2>13. Burst(Current, events, caps) = Repaired(Current, x)
    BY <1>5, <2>1 DEF Burst
  <2> QED
    BY <2>5, <2>11, <2>12, <2>13 DEF Breaks
<1> QED
  BY <1>4, <1>5

(* A burst that continues the stream ends at the same sequence whether its  *)
(* prefix is skipped or applied, and the stream is trusted either way,      *)
(* for bursts of any length (planRuntimeStreamBurst, applyStreamBurst).     *)
THEOREM CoalescingIsTransparentTheorem == Spec => []CoalescingIsTransparent
BY BurstsAreTransparent, StreamInvariance, PTL
-----------------------------------------------------------------------------
(***************************************************************************)
(* Records and their reverse indexes.                                      *)
(***************************************************************************)
(* Entries of different memories differ: an entry names its memory. *)
LEMMA EntryNamesMemory ==
  ASSUME NEW m, NEW r, NEW x
  PROVE  /\ x \in SourceEntries(m, r) => x[2] = m
         /\ x \in DependencyEntries(m, r) => x[2] = m
  BY DEF SourceEntries, DependencyEntries

(* Reindex keeps pace with a write: replacing the entries of the record    *)
(* written is the same as building the index of the new records.           *)
LEMMA SourceUpdate ==
  ASSUME NEW R, NEW m \in Memories, NEW r, DOMAIN R = Memories
  PROVE  SourceIndexOf([R EXCEPT ![m] = r])
           = (SourceIndexOf(R) \ SourceEntries(m, R[m])) \cup SourceEntries(m, r)
<1> DEFINE T == [R EXCEPT ![m] = r]
<1>1. T[m] = r /\ \A n \in Memories : n # m => T[n] = R[n]
  OBVIOUS
<1>2. ASSUME NEW x
      PROVE  x \in SourceIndexOf(T) <=> \E n \in Memories : x \in SourceEntries(n, T[n])
  BY DEF SourceIndexOf
<1>3. ASSUME NEW x
      PROVE  x \in SourceIndexOf(R) <=> \E n \in Memories : x \in SourceEntries(n, R[n])
  BY DEF SourceIndexOf
<1> HIDE DEF T
<1>4. ASSUME NEW x
      PROVE  x \in SourceIndexOf(T)
               <=> x \in (SourceIndexOf(R) \ SourceEntries(m, R[m])) \cup SourceEntries(m, r)
  BY <1>1, <1>2, <1>3, EntryNamesMemory
<1>5. QED
  BY <1>4 DEF T

LEMMA DependencyUpdate ==
  ASSUME NEW R, NEW m \in Memories, NEW r, DOMAIN R = Memories
  PROVE  DependencyIndexOf([R EXCEPT ![m] = r])
           = (DependencyIndexOf(R) \ DependencyEntries(m, R[m])) \cup DependencyEntries(m, r)
<1> DEFINE T == [R EXCEPT ![m] = r]
<1>1. T[m] = r /\ \A n \in Memories : n # m => T[n] = R[n]
  OBVIOUS
<1>2. ASSUME NEW x
      PROVE  x \in DependencyIndexOf(T)
               <=> \E n \in Memories : x \in DependencyEntries(n, T[n])
  BY DEF DependencyIndexOf
<1>3. ASSUME NEW x
      PROVE  x \in DependencyIndexOf(R)
               <=> \E n \in Memories : x \in DependencyEntries(n, R[n])
  BY DEF DependencyIndexOf
<1> HIDE DEF T
<1>4. ASSUME NEW x
      PROVE  x \in DependencyIndexOf(T)
               <=> x \in (DependencyIndexOf(R) \ DependencyEntries(m, R[m]))
                           \cup DependencyEntries(m, r)
  BY <1>1, <1>2, <1>3, EntryNamesMemory
<1>5. QED
  BY <1>4 DEF T

(* The indexes depend on sources and dependencies only: writing statuses   *)
(* leaves them as they are.                                                *)
SameEntries(R, T) ==
  \A n \in Memories : /\ SourceEntries(n, R[n]) = SourceEntries(n, T[n])
                      /\ DependencyEntries(n, R[n]) = DependencyEntries(n, T[n])

LEMMA SameEntriesSameIndex ==
  ASSUME NEW R, NEW T, SameEntries(R, T)
  PROVE  /\ SourceIndexOf(R) = SourceIndexOf(T)
         /\ DependencyIndexOf(R) = DependencyIndexOf(T)
  BY DEF SameEntries, SourceIndexOf, DependencyIndexOf

(* A status change keeps the entries of an envelope. *)
LEMMA StatusKeepsEntries ==
  ASSUME NEW n, NEW r \in Envelopes, NEW status \in Statuses
  PROVE  /\ [r EXCEPT !.status = status] \in Envelopes
         /\ SourceEntries(n, [r EXCEPT !.status = status]) = SourceEntries(n, r)
         /\ DependencyEntries(n, [r EXCEPT !.status = status]) = DependencyEntries(n, r)
<1> DEFINE t == [r EXCEPT !.status = status]
<1>1. t \in Envelopes /\ t.src = r.src /\ t.deps = r.deps
  BY DEF Envelopes
<1>2. t.status # "ABSENT" /\ r.status # "ABSENT"
  BY <1>1 DEF Envelopes, Statuses
<1>3. t # Absent /\ r # Absent
  BY <1>2 DEF Absent
<1>4. QED
  BY <1>1, <1>3 DEF SourceEntries, DependencyEntries

-----------------------------------------------------------------------------
(* What is proved inductive; it needs no bound on the closure a signal     *)
(* walks, only that signals write statuses.                                *)
IndexInv ==
  /\ records \in [Memories -> Records]
  /\ indexed \in BOOLEAN /\ masked \in BOOLEAN
  /\ IndexesMatchRecords

LEMMA InitIndexInv == IndexInit => IndexInv
<1> SUFFICES ASSUME IndexInit PROVE IndexInv
  OBVIOUS
<1>1. records \in [Memories -> Records]
  BY DEF IndexInit, Records
<1>2. SourceIndexOf(records) = {} /\ DependencyIndexOf(records) = {}
  BY DEF IndexInit, SourceIndexOf, DependencyIndexOf, SourceEntries, DependencyEntries
<1>3. QED
  BY <1>1, <1>2 DEF IndexInit, IndexInv, IndexesMatchRecords

-----------------------------------------------------------------------------
(* A write through the runtime that replaces the entries of its record. *)
LEMMA WriteStep ==
  ASSUME IndexInv, NEW m \in Memories, NEW r \in Envelopes,
         Writes(m, r), Reindex(m, records[m], r)
  PROVE  IndexInv'
<1>1. DOMAIN records = Memories
  BY DEF IndexInv
<1>2. records' = [records EXCEPT ![m] = r] /\ records' \in [Memories -> Records]
  BY DEF Writes, IndexInv, Records
<1>3. ASSUME indexed', ~masked'
      PROVE  /\ sourceMemoryIds' = SourceIndexOf(records')
             /\ dependentsByDependency' = DependencyIndexOf(records')
  <2>1. indexed /\ ~masked
    BY <1>3 DEF Writes, IndexInv
  <2>2. /\ sourceMemoryIds = SourceIndexOf(records)
        /\ dependentsByDependency = DependencyIndexOf(records)
    BY <2>1 DEF IndexInv, IndexesMatchRecords
  <2>3. sourceMemoryIds' = SourceIndexOf(records')
    BY <1>1, <1>2, <2>2, SourceUpdate DEF Reindex
  <2>4. dependentsByDependency' = DependencyIndexOf(records')
    BY <1>1, <1>2, <2>2, DependencyUpdate DEF Reindex
  <2>5. QED
    BY <2>3, <2>4
<1>4. QED
  BY <1>2, <1>3 DEF IndexInv, IndexesMatchRecords, Writes, SourceIndexOf,
                    DependencyIndexOf

(* A step that leaves the indexes and every record's entries alone. *)
LEMMA StatusStep ==
  ASSUME IndexInv, records' \in [Memories -> Records], SameEntries(records, records'),
         UNCHANGED indexes, indexed' = TRUE, masked' = (masked \/ ~indexed)
  PROVE  IndexInv'
<1>1. /\ SourceIndexOf(records) = SourceIndexOf(records')
      /\ DependencyIndexOf(records) = DependencyIndexOf(records')
  BY SameEntriesSameIndex
<1>2. ASSUME ~masked'
      PROVE  /\ sourceMemoryIds' = SourceIndexOf(records')
             /\ dependentsByDependency' = DependencyIndexOf(records')
  BY <1>1, <1>2 DEF IndexInv, IndexesMatchRecords, indexes
<1>3. QED
  BY <1>2 DEF IndexInv, IndexesMatchRecords, SourceIndexOf, DependencyIndexOf

(* A validation writes a status. *)
LEMMA ValidationStep ==
  ASSUME IndexInv, NEW m \in Memories, NEW status \in Statuses, ApplyValidation(m, status)
  PROVE  IndexInv'
<1> DEFINE t == [records[m] EXCEPT !.status = status]
<1>1. records[m] \in Envelopes
  BY DEF ApplyValidation, Stored, IndexInv, Records
<1>2. records' = [records EXCEPT ![m] = t] /\ records' \in [Memories -> Records]
  BY <1>1, StatusKeepsEntries DEF ApplyValidation, Writes, IndexInv, Records
<1>3. SameEntries(records, records')
  <2>1. /\ SourceEntries(m, t) = SourceEntries(m, records[m])
        /\ DependencyEntries(m, t) = DependencyEntries(m, records[m])
    BY <1>1, StatusKeepsEntries
  <2>2. records'[m] = t /\ \A n \in Memories : n # m => records'[n] = records[n]
    BY <1>2 DEF IndexInv
  <2>3. ASSUME NEW n \in Memories
        PROVE  /\ SourceEntries(n, records[n]) = SourceEntries(n, records'[n])
               /\ DependencyEntries(n, records[n]) = DependencyEntries(n, records'[n])
    <3>1. CASE n = m
      BY <3>1, <2>1, <2>2
    <3>2. CASE n # m
      BY <3>2, <2>2
    <3>3. QED
      BY <3>1, <3>2
  <2>4. QED
    BY <2>3 DEF SameEntries
<1>4. QED
  BY <1>2, <1>3, StatusStep DEF ApplyValidation, Writes

(* A signal may rebuild the indexes and writes statuses. *)
LEMMA SignalStep ==
  ASSUME IndexInv, NEW S, SignalSourcesChanged(S)
  PROVE  IndexInv'
<1>1. PICK affected :
        records' = [m \in Memories |->
                      IF m \in affected /\ BecomesStale(records[m])
                      THEN [records[m] EXCEPT !.status = "STALE"] ELSE records[m]]
  BY DEF SignalSourcesChanged
<1>2. ASSUME NEW n \in Memories
      PROVE  /\ records'[n] \in Records
             /\ SourceEntries(n, records[n]) = SourceEntries(n, records'[n])
             /\ DependencyEntries(n, records[n]) = DependencyEntries(n, records'[n])
  <2>1. CASE n \in affected /\ BecomesStale(records[n])
    <3>1. records[n] \in Envelopes
      <4>1. records[n] # Absent
        BY <2>1 DEF BecomesStale, Absent
      <4>2. QED
        BY <4>1 DEF IndexInv, Records
    <3>2. records'[n] = [records[n] EXCEPT !.status = "STALE"]
      BY <1>1, <2>1
    <3>3. "STALE" \in Statuses
      BY DEF Statuses
    <3>4. QED
      BY <3>1, <3>2, <3>3, StatusKeepsEntries DEF Records
  <2>2. CASE ~(n \in affected /\ BecomesStale(records[n]))
    BY <1>1, <2>2 DEF IndexInv
  <2>3. QED
    BY <2>1, <2>2
<1>3. records' \in [Memories -> Records] /\ SameEntries(records, records')
  BY <1>1, <1>2 DEF SameEntries
<1>4. ASSUME ~masked'
      PROVE  /\ sourceMemoryIds' = SourceIndexOf(records')
             /\ dependentsByDependency' = DependencyIndexOf(records')
  <2>1. /\ sourceMemoryIds' = SourceIndexOf(records)
        /\ dependentsByDependency' = DependencyIndexOf(records)
    BY <1>4 DEF SignalSourcesChanged, IndexesAreCurrent, IndexInv, IndexesMatchRecords
  <2>2. QED
    BY <1>3, <2>1, SameEntriesSameIndex
<1>5. indexed' = TRUE /\ masked' \in BOOLEAN
  BY DEF SignalSourcesChanged, IndexInv
<1>6. QED
  BY <1>3, <1>4, <1>5 DEF IndexInv, IndexesMatchRecords, SourceIndexOf, DependencyIndexOf

-----------------------------------------------------------------------------
LEMMA NextIndexInv == IndexInv /\ [IndexNext]_indexVars => IndexInv'
<1> SUFFICES ASSUME IndexInv, [IndexNext]_indexVars PROVE IndexInv'
  OBVIOUS
<1>1. /\ \A r \in Inputs : r \in Envelopes
      /\ \A r \in OutsideInputs : r \in Envelopes
  BY IndexAssumption
<1>2. ASSUME NEW m \in Memories, NEW r \in Inputs, Register(m, r) \/ Derive(m, r)
      PROVE  IndexInv'
  <2>1. records[m] = Absent /\ Writes(m, r) /\ Reindex(m, records[m], r)
    BY <1>2 DEF Register, Derive, Stored
  <2>2. QED
    BY <1>1, <2>1, WriteStep
<1>3. ASSUME NEW m \in Memories, NEW r \in Inputs, Replace(m, r)
      PROVE  IndexInv'
  BY <1>1, <1>3, WriteStep DEF Replace
<1>4. ASSUME NEW m \in Memories, NEW r \in OutsideInputs, StorePut(m, r)
      PROVE  IndexInv'
  <2>1. records' \in [Memories -> Records]
    BY <1>1, <1>4 DEF StorePut, IndexInv, Records
  <2>2. indexed' = FALSE /\ masked' \in BOOLEAN
    BY <1>4 DEF StorePut, IndexInv
  <2>3. QED
    BY <2>1, <2>2 DEF IndexInv, IndexesMatchRecords
<1>5. ASSUME NEW m \in Memories, NEW status \in {"FRESH", "INVALID", "UNKNOWN"},
             ApplyValidation(m, status)
      PROVE  IndexInv'
  BY <1>5, ValidationStep DEF Statuses
<1>6. ASSUME NEW R \in Snapshots, Restore(R)
      PROVE  IndexInv'
  BY <1>6, IndexAssumption DEF Restore, IndexInv, IndexesMatchRecords, SourceIndexOf,
                               DependencyIndexOf
<1>7. ASSUME NEW S \in SUBSET Sources, SignalSourcesChanged(S)
      PROVE  IndexInv'
  BY <1>7, SignalStep
<1>8. CASE UNCHANGED indexVars
  BY <1>8 DEF indexVars, IndexInv, IndexesMatchRecords, SourceIndexOf, DependencyIndexOf
<1>9. QED
  BY <1>2, <1>3, <1>4, <1>5, <1>6, <1>7, <1>8 DEF IndexNext

(* Whenever the runtime takes its reverse indexes for current and no write *)
(* of its own masked somebody else's, they hold the entries of the stored  *)
(* records and no other: what the incremental upkeep in register, derive,  *)
(* replace and restore amounts to.                                         *)
THEOREM IndexesMatchTheorem == IndexSpec => []IndexesMatchRecords
<1>1. IndexInv => IndexesMatchRecords
  BY DEF IndexInv
<1>2. QED
  BY InitIndexInv, NextIndexInv, <1>1, PTL DEF IndexSpec
-----------------------------------------------------------------------------
(***************************************************************************)
(* The walk of a signal.  A round adds what the index reaches from the one *)
(* before; while a round is not closed it has more members than rounds     *)
(* have passed, so after as many rounds as there are memories it is.  The  *)
(* induction over the rounds rests on the least element of a set of        *)
(* naturals.                                                               *)
(***************************************************************************)
Reached(index, X) == {e[2] : e \in {x \in index : x[1] \in X}}

Round(index, X) == X \cup Reached(index, X)

AreRounds(g, index, seeds, n) ==
  g = [i \in 0 .. n |-> IF i = 0 THEN seeds ELSE Round(index, g[i - 1])]

Rounds(index, seeds) == CHOOSE g : AreRounds(g, index, seeds, Cardinality(Memories))

LEMMA RoundsExist ==
  ASSUME NEW index, NEW seeds, NEW n \in Nat
  PROVE  \E g : AreRounds(g, index, seeds, n)
<1> DEFINE S == {m \in Nat : \E g : AreRounds(g, index, seeds, m)}
<1>1. 0 \in S
  <2>1. PICK g : g = [i \in 0 .. 0 |-> seeds]
    OBVIOUS
  <2>2. AreRounds(g, index, seeds, 0)
    BY <2>1 DEF AreRounds
  <2> QED
    BY <2>2
<1>2. ASSUME NEW m \in Nat, m \in S PROVE m + 1 \in S
  <2>1. PICK g : AreRounds(g, index, seeds, m)
    BY <1>2
  <2>2. PICK f : f = [i \in 0 .. (m + 1) |->
                        IF i <= m THEN g[i] ELSE Round(index, g[m])]
    OBVIOUS
  <2>3. ASSUME NEW i \in 0 .. (m + 1)
        PROVE  f[i] = IF i = 0 THEN seeds ELSE Round(index, f[i - 1])
    <3>1. CASE i = m + 1
      <4>1. f[i] = Round(index, g[m]) /\ f[i - 1] = g[m] /\ i # 0
        BY <3>1, <2>2
      <4> QED
        BY <4>1
    <3>2. CASE i = 0
      BY <3>2, <2>1, <2>2 DEF AreRounds
    <3>3. CASE i \in 1 .. m
      <4>1. f[i] = g[i] /\ f[i - 1] = g[i - 1] /\ i # 0
        BY <3>3, <2>2
      <4>2. g[i] = Round(index, g[i - 1])
        BY <3>3, <2>1 DEF AreRounds
      <4> QED
        BY <4>1, <4>2
    <3> QED
      BY <3>1, <3>2, <3>3
  <2>4. AreRounds(f, index, seeds, m + 1)
    BY <2>2, <2>3 DEF AreRounds
  <2> QED
    BY <2>4
<1> HIDE DEF S
<1>3. Nat \subseteq S
  BY <1>1, <1>2, InductionOverNat
<1> QED
  BY <1>3 DEF S

LEMMA RoundsStep ==
  ASSUME NEW index, NEW seeds
  PROVE  /\ Rounds(index, seeds)[0] = seeds
         /\ \A i \in 1 .. Cardinality(Memories) :
              Rounds(index, seeds)[i] =
                Round(index, Rounds(index, seeds)[i - 1])
         /\ DependentClosure(index, seeds) = Rounds(index, seeds)[Cardinality(Memories)]
<1>1. PICK n \in Nat : n = Cardinality(Memories)
  BY IndexAssumption, FS_CardinalityType
<1>2. \E g : AreRounds(g, index, seeds, n)
  BY <1>1, RoundsExist
<1>3. PICK g : g = Rounds(index, seeds)
  OBVIOUS
<1>4. AreRounds(g, index, seeds, n)
  BY <1>1, <1>2, <1>3 DEF Rounds
<1>5. DependentClosure(index, seeds) = Rounds(index, seeds)[Cardinality(Memories)]
  BY DEF DependentClosure, Rounds, AreRounds, Round, Reached
<1>6. g[0] = seeds
  BY <1>1, <1>4 DEF AreRounds
<1>7. \A i \in 1 .. n : g[i] = Round(index, g[i - 1])
  BY <1>1, <1>4 DEF AreRounds
<1> QED
  BY <1>1, <1>3, <1>5, <1>6, <1>7

(* dependentClosure is the least set with the seeds that is closed. *)
LEMMA ClosureIsLeast ==
  ASSUME NEW index \in SUBSET (Memories \X Memories), NEW seeds \in SUBSET Memories
  PROVE  /\ DependentClosure(index, seeds) \in SUBSET Memories
         /\ seeds \subseteq DependentClosure(index, seeds)
         /\ Reached(index, DependentClosure(index, seeds)) \subseteq DependentClosure(index, seeds)
         /\ \A X \in SUBSET Memories : seeds \subseteq X /\ Reached(index, X) \subseteq X
                                        => DependentClosure(index, seeds) \subseteq X
<1>1. PICK N \in Nat : N = Cardinality(Memories)
  BY IndexAssumption, FS_CardinalityType
<1>2. PICK g : g = Rounds(index, seeds)
  OBVIOUS
<1>3. /\ g[0] = seeds
      /\ \A n \in Nat : n + 1 <= N => g[n + 1] = g[n] \cup Reached(index, g[n])
      /\ DependentClosure(index, seeds) = g[N]
  <2>1. /\ g[0] = seeds /\ DependentClosure(index, seeds) = g[N]
        /\ \A i \in 1 .. N : g[i] = Round(index, g[i - 1])
    BY <1>1, <1>2, RoundsStep
  <2>2. ASSUME NEW n \in Nat, n + 1 <= N
        PROVE  g[n + 1] = g[n] \cup Reached(index, g[n])
    <3>1. n + 1 \in 1 .. N /\ (n + 1) - 1 = n
      BY <2>2
    <3> QED
      BY <2>1, <3>1 DEF Round
  <2> QED
    BY <2>1, <2>2
<1>4. \A X : Reached(index, X) \subseteq Memories
  BY DEF Reached
<1>5. \A X, Y : X \subseteq Y => Reached(index, X) \subseteq Reached(index, Y)
  BY DEF Reached
<1>6. ASSUME NEW X, seeds \subseteq X, Reached(index, X) \subseteq X
      PROVE  \A n \in Nat : n <= N => g[n] \subseteq X /\ seeds \subseteq g[n]
  <2> DEFINE T == {n \in Nat : n <= N => g[n] \subseteq X /\ seeds \subseteq g[n]}
  <2>1. 0 \in T
    BY <1>3, <1>6
  <2>2. ASSUME NEW n \in Nat, n \in T PROVE n + 1 \in T
    <3> SUFFICES ASSUME n + 1 <= N PROVE g[n + 1] \subseteq X /\ seeds \subseteq g[n + 1]
      OBVIOUS
    <3>1. g[n] \subseteq X /\ seeds \subseteq g[n]
      BY <2>2
    <3>2. g[n + 1] = g[n] \cup Reached(index, g[n])
      BY <1>3
    <3>3. Reached(index, g[n]) \subseteq X
      BY <3>1, <1>5, <1>6
    <3> QED
      BY <3>1, <3>2, <3>3
  <2> HIDE DEF T
  <2>3. Nat \subseteq T
    BY <2>1, <2>2, InductionOverNat
  <2> QED
    BY <2>3 DEF T
<1>7. \A n \in Nat : n <= N => /\ g[n] \subseteq Memories /\ seeds \subseteq g[n]
                              /\ IsFiniteSet(g[n]) /\ Cardinality(g[n]) \in Nat
                              /\ Cardinality(g[n]) <= N
  <2>1. \A n \in Nat : n <= N => g[n] \subseteq Memories /\ seeds \subseteq g[n]
    BY <1>4, <1>6
  <2> QED
    BY <2>1, <1>1, IndexAssumption, FS_Subset, FS_CardinalityType
<1>8. \A n \in Nat : n <= N => Reached(index, g[n]) \subseteq g[n] \/ Cardinality(g[n]) >= n + 1
  <2> DEFINE T == {n \in Nat : n <= N => \/ Reached(index, g[n]) \subseteq g[n]
                                       \/ Cardinality(g[n]) >= n + 1}
  <2>1. 0 \in T
    <3>1. CASE seeds = {}
      BY <3>1, <1>3 DEF Reached
    <3>2. CASE seeds # {}
      <4>1. IsFiniteSet(g[0]) /\ Cardinality(g[0]) \in Nat /\ g[0] # {}
        BY <3>2, <1>3, <1>7
      <4>2. Cardinality(g[0]) # 0
        BY <4>1, FS_EmptySet
      <4> QED
        BY <4>1, <4>2
    <3> QED
      BY <3>1, <3>2
  <2>2. ASSUME NEW n \in Nat, n \in T PROVE n + 1 \in T
    <3> SUFFICES ASSUME n + 1 <= N
                 PROVE  \/ Reached(index, g[n + 1]) \subseteq g[n + 1]
                        \/ Cardinality(g[n + 1]) >= (n + 1) + 1
      OBVIOUS
    <3>1. g[n + 1] = g[n] \cup Reached(index, g[n])
      BY <1>3
    <3>2. CASE Reached(index, g[n]) \subseteq g[n]
      <4>1. g[n + 1] = g[n]
        BY <3>1, <3>2
      <4> QED
        BY <3>2, <4>1
    <3>3. CASE ~(Reached(index, g[n]) \subseteq g[n])
      <4>1. Cardinality(g[n]) >= n + 1
        BY <2>2, <3>3
      <4>2. g[n] \subseteq g[n + 1] /\ g[n] # g[n + 1]
        BY <3>1, <3>3
      <4>3. IsFiniteSet(g[n + 1]) /\ Cardinality(g[n + 1]) \in Nat /\ Cardinality(g[n]) \in Nat
        BY <1>7
      <4>4. Cardinality(g[n]) <= Cardinality(g[n + 1]) /\ Cardinality(g[n]) # Cardinality(g[n + 1])
        BY <4>2, <4>3, FS_Subset
      <4> QED
        BY <4>1, <4>3, <4>4
    <3> QED
      BY <3>2, <3>3
  <2> HIDE DEF T
  <2>3. Nat \subseteq T
    BY <2>1, <2>2, InductionOverNat
  <2> QED
    BY <2>3 DEF T
<1>9. Reached(index, g[N]) \subseteq g[N]
  <2>1. Cardinality(g[N]) \in Nat /\ Cardinality(g[N]) <= N
    BY <1>7
  <2> QED
    BY <2>1, <1>8
<1> QED
  BY <1>3, <1>6, <1>7, <1>9

(* What y has to do with a change of S, if X is concerned. *)
Touches(R, S, X, y) == R[y] # Absent /\ (R[y].src \cap S # {} \/ R[y].deps \cap X # {})

ConcernedOf(R, S) ==
  {m \in Memories : \A X \in SUBSET Memories :
     (\A y \in Memories : Touches(R, S, X, y) => y \in X) => m \in X}

Direct(R, S) == {e[2] : e \in {x \in SourceIndexOf(R) : x[1] \in S}}

(* On the indexes of the records, the walk ends with what is concerned. *)
LEMMA ClosureIsConcerned ==
  ASSUME NEW R \in [Memories -> Records], NEW S
  PROVE  /\ DependentClosure(DependencyIndexOf(R), Direct(R, S)) = ConcernedOf(R, S)
         /\ \A m \in ConcernedOf(R, S) : R[m] # Absent
<1> DEFINE D == DependencyIndexOf(R)
           C == DependentClosure(D, Direct(R, S))
<1>1. ASSUME NEW x
      PROVE  /\ x \in SourceIndexOf(R) <=>
                  \E y \in Memories : R[y] # Absent /\ \E s \in R[y].src : x = <<s, y>>
             /\ x \in D <=>
                  \E y \in Memories : R[y] # Absent /\ \E d \in R[y].deps : x = <<d, y>>
  BY DEF SourceIndexOf, DependencyIndexOf, SourceEntries, DependencyEntries
<1>2. \A y : y \in Direct(R, S) <=> y \in Memories /\ R[y] # Absent /\ R[y].src \cap S # {}
  <2>1. ASSUME NEW y, y \in Direct(R, S)
        PROVE  y \in Memories /\ R[y] # Absent /\ R[y].src \cap S # {}
    <3>1. PICK x \in SourceIndexOf(R) : x[1] \in S /\ y = x[2]
      BY <2>1 DEF Direct
    <3> QED
      BY <3>1, <1>1
  <2>2. ASSUME NEW y, y \in Memories, R[y] # Absent, R[y].src \cap S # {}
        PROVE  y \in Direct(R, S)
    <3>1. PICK s \in R[y].src : s \in S
      BY <2>2
    <3>2. <<s, y>> \in SourceIndexOf(R)
      BY <2>2, <3>1, <1>1
    <3> QED
      BY <3>1, <3>2 DEF Direct
  <2> QED
    BY <2>1, <2>2
<1>3. \A X, y : y \in Reached(D, X) <=> y \in Memories /\ R[y] # Absent /\ R[y].deps \cap X # {}
  <2>1. ASSUME NEW X, NEW y, y \in Reached(D, X)
        PROVE  y \in Memories /\ R[y] # Absent /\ R[y].deps \cap X # {}
    <3>1. PICK x \in D : x[1] \in X /\ y = x[2]
      BY <2>1 DEF Reached
    <3> QED
      BY <3>1, <1>1
  <2>2. ASSUME NEW X, NEW y, y \in Memories, R[y] # Absent, R[y].deps \cap X # {}
        PROVE  y \in Reached(D, X)
    <3>1. PICK d \in R[y].deps : d \in X
      BY <2>2
    <3>2. <<d, y>> \in D
      BY <2>2, <3>1, <1>1
    <3> QED
      BY <3>1, <3>2 DEF Reached
  <2> QED
    BY <2>1, <2>2
<1>4. D \in SUBSET (Memories \X Memories)
  <2>1. \A y \in Memories : R[y] # Absent => R[y].deps \subseteq Memories
    BY DEF Records, Envelopes
  <2> QED
    BY <1>1, <2>1
<1>5. Direct(R, S) \in SUBSET Memories
  BY <1>2
<1> HIDE DEF D
<1>6. /\ C \in SUBSET Memories /\ Direct(R, S) \subseteq C /\ Reached(D, C) \subseteq C
      /\ \A X \in SUBSET Memories :
           Direct(R, S) \subseteq X /\ Reached(D, X) \subseteq X => C \subseteq X
  BY <1>4, <1>5, ClosureIsLeast
<1> HIDE DEF C
<1>7. \A X \in SUBSET Memories :
        (\A y \in Memories : Touches(R, S, X, y) => y \in X)
          <=> Direct(R, S) \subseteq X /\ Reached(D, X) \subseteq X
  BY <1>2, <1>3 DEF Touches
<1>8. C = ConcernedOf(R, S)
  BY <1>6, <1>7 DEF ConcernedOf
<1>9. C \subseteq {m \in Memories : R[m] # Absent}
  BY <1>2, <1>3, <1>6
<1> QED
  BY <1>8, <1>9 DEF C, D

(* After a signal on indexes that match the records, exactly the memories  *)
(* it concerns were reached and none of them is usable.                    *)
LEMMA SignalReaches ==
  ASSUME IndexInv, NEW S, SignalSourcesChanged(S), ~masked'
  PROVE  ReachedExactly(S)' /\ signalled'.sources = S
<1>1. PICK affected :
        /\ affected = DependentClosure(DependencyIndexOf(records), Direct(records, S))
        /\ records' = [m \in Memories |->
                         IF m \in affected /\ BecomesStale(records[m])
                         THEN [records[m] EXCEPT !.status = "STALE"] ELSE records[m]]
        /\ signalled' = [sources |-> S, affected |-> affected]
  <2>1. /\ IndexesAreCurrent => sourceMemoryIds = SourceIndexOf(records)
        /\ IndexesAreCurrent => dependentsByDependency = DependencyIndexOf(records)
    BY DEF SignalSourcesChanged, IndexesAreCurrent, IndexInv, IndexesMatchRecords
  <2> QED
    BY <2>1 DEF SignalSourcesChanged, Direct
<1>2. records \in [Memories -> Records]
  BY DEF IndexInv
<1>3. affected = ConcernedOf(records, S) /\ \A m \in affected : records[m] # Absent
  BY <1>1, <1>2, ClosureIsConcerned
<1>4. affected \subseteq Memories
  BY <1>3 DEF ConcernedOf
<1>5. ASSUME NEW m \in Memories
      PROVE  /\ records'[m] = Absent <=> records[m] = Absent
             /\ records[m] # Absent =>
                  /\ records'[m].src = records[m].src /\ records'[m].deps = records[m].deps
                  /\ m \in affected => records'[m].status \in {"STALE", "INVALID"}
  <2>1. CASE records[m] = Absent
    <3>1. ~BecomesStale(records[m])
      BY <2>1 DEF BecomesStale, Absent
    <3> QED
      BY <1>1, <2>1, <3>1
  <2>2. CASE records[m] # Absent
    <3>1. records[m] \in Envelopes
      BY <1>2, <2>2 DEF Records
    <3>2. CASE m \in affected /\ BecomesStale(records[m])
      <4>1. records'[m] = [records[m] EXCEPT !.status = "STALE"]
        BY <1>1, <3>2
      <4>2. /\ records'[m].src = records[m].src /\ records'[m].deps = records[m].deps
            /\ records'[m].status = "STALE"
        BY <3>1, <4>1 DEF Envelopes
      <4>3. records'[m] # Absent
        BY <4>2 DEF Absent
      <4> QED
        BY <2>2, <4>2, <4>3
    <3>3. CASE ~(m \in affected /\ BecomesStale(records[m]))
      <4>1. records'[m] = records[m]
        BY <1>1, <3>3
      <4>2. m \in affected => records[m].status \in {"STALE", "INVALID"}
        BY <3>1, <3>3 DEF BecomesStale, Envelopes, Statuses
      <4> QED
        BY <2>2, <4>1, <4>2
    <3> QED
      BY <3>2, <3>3
  <2> QED
    BY <2>1, <2>2
<1>6. ConcernedOf(records', S) = ConcernedOf(records, S)
  <2>1. \A X, y : y \in Memories => (Touches(records', S, X, y) <=> Touches(records, S, X, y))
    BY <1>5 DEF Touches
  <2> QED
    BY <2>1 DEF ConcernedOf
<1>7. Concerned(S)' = affected
  BY <1>3, <1>6 DEF Concerned, ConcernedOf, Touches, Stored
<1>8. {m \in affected : Stored(m)'} = affected
  BY <1>3, <1>4, <1>5 DEF Stored
<1>9. \A m \in affected : records'[m].status \in {"STALE", "INVALID"}
  BY <1>3, <1>4, <1>5
<1>10. signalled'.affected = affected /\ signalled'.sources = S
  BY <1>1
<1> QED
  BY <1>7, <1>8, <1>9, <1>10 DEF ReachedExactly

LEMMA NextReaches ==
  IndexInv /\ SignalReachesConcerned /\ [IndexNext]_indexVars => SignalReachesConcerned'
<1> SUFFICES ASSUME IndexInv, SignalReachesConcerned, [IndexNext]_indexVars
             PROVE  SignalReachesConcerned'
  OBVIOUS
<1>1. CASE signalled' = NoSignal
  BY <1>1 DEF NoSignal, SignalReachesConcerned
<1>2. ASSUME NEW S, SignalSourcesChanged(S) PROVE SignalReachesConcerned'
  <2>1. CASE masked'
    BY <2>1 DEF SignalReachesConcerned
  <2>2. CASE ~masked'
    BY <1>2, <2>2, SignalReaches DEF SignalReachesConcerned
  <2> QED
    BY <2>1, <2>2
<1>3. CASE UNCHANGED indexVars
  BY <1>3 DEF indexVars, SignalReachesConcerned, ReachedExactly, Concerned, Stored
<1> QED
  BY <1>1, <1>2, <1>3 DEF IndexNext, Register, Derive, Replace, ApplyValidation, Writes, Restore,
                          StorePut

(* After a signal exactly the memories the change concerns were reached,   *)
(* however often records were re-pointed before, dependency cycles and     *)
(* other writers' records included, and none of them is usable, unless a   *)
(* write of the runtime came between another writer's put and the signal   *)
(* (signalSourcesChanged, dependentClosure, refreshIndexesIfStoreChanged). *)
THEOREM SignalReachesConcernedTheorem == IndexSpec => []SignalReachesConcerned
<1>1. IndexInit => SignalReachesConcerned
  BY DEF IndexInit, NoSignal, SignalReachesConcerned
<1>2. QED
  BY InitIndexInv, NextIndexInv, NextReaches, <1>1, PTL DEF IndexSpec
=============================================================================
