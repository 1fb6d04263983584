------------------------- MODULE RevalidationProofs --------------------------
(***************************************************************************)
(* Revalidations of one runtime, for every graph of memories and sources,  *)
(* every number of concurrent calls and every way the runtime is built.    *)
(***************************************************************************)
EXTENDS Revalidation, TLAPS

(* The sources some memory has evidence of: flights and receipts are about *)
(* these only, so a signal for one of them always reaches a memory and     *)
(* moves the generation.                                                   *)
EvidenceSources == {s \in Sources : \E m \in Memories : s \in SourcesOf(m)}

CallType ==
  [mems : Seq(Memories), fresh : SUBSET Memories, todo : Seq(EvidenceSources),
   wait : SUBSET Waiting, got : SUBSET Answers, changed : SUBSET Memories, moved : BOOLEAN]

FlightType ==
  [key : Keys, src : EvidenceSources, res : Results \cup {"none"},
   late : BOOLEAN, fenced : BOOLEAN]

(* A call whose records changed has seen the store's revision move. *)
CallOK(k) ==
  /\ k \in CallType
  /\ k.changed \cup k.fresh \subseteq MemsOf(k.mems)
  /\ k.changed # {} => CasStore \/ k.moved

StateInv ==
  /\ mode \in Modes
  /\ status \in [Memories -> Statuses]
  /\ settled \in [asked : SUBSET Memories, applied : SUBSET Memories]
  /\ disturbances \in 0 .. MaxDisturbances

CallsInv == calls \in [Calls -> CallType] /\ \A c \in Calls : CallOK(calls[c])

(* A flight that observed its source before a signal has been fenced. *)
FlightsInv ==
  /\ flights \subseteq FlightType
  /\ \A f, g \in flights : f.key = g.key => f = g
  /\ \A f \in flights : Sharing /\ f.late => f.fenced

WaitsInv == \A c \in Calls : \A w \in calls[c].wait : \E f \in flights : f.key = w.key

ReceiptsInv ==
  /\ receipts \in [Sources -> {"none", "current"}]
  /\ \A s \in Sources : receipts[s] # "none" =>
       Sharing /\ s \in EvidenceSources /\ "UNCHANGED" \in Results

RevalidationInv ==
  StateInv /\ CallsInv /\ FlightsInv /\ WaitsInv /\ ReceiptsInv /\ BatchAllOrNothing

(* Sequences and the evidence of a memory. *)
LEMMA MemsOfType ==
  ASSUME NEW mems \in Seq(Memories)
  PROVE  MemsOf(mems) \subseteq Memories
BY DEF MemsOf

LEMMA EvidenceIsKnown ==
  ASSUME NEW m \in Memories
  PROVE  /\ EvidenceOf[m] \in Seq(EvidenceSources)
         /\ SourcesOf(m) \subseteq EvidenceSources
<1>1. EvidenceOf[m] \in Seq(Sources)
  BY GraphAssumption
<1>2. SourcesOf(m) \subseteq EvidenceSources
  BY <1>1 DEF SourcesOf, EvidenceSources
<1>3. \A i \in 1 .. Len(EvidenceOf[m]) : EvidenceOf[m][i] \in EvidenceSources
  BY <1>2 DEF SourcesOf
<1> QED
  BY <1>1, <1>2, <1>3

LEMMA IdleOK == CallOK(Idle) /\ Idle.wait = {} /\ Idle.mems = <<>>
<1>1. Idle \in CallType
  BY DEF Idle, CallType
<1>2. Idle.changed = {} /\ Idle.fresh = {} /\ Idle.wait = {} /\ Idle.mems = <<>>
  BY DEF Idle
<1> QED
  BY <1>1, <1>2 DEF CallOK

LEMMA RevalidationInit == Init => RevalidationInv
<1> SUFFICES ASSUME Init PROVE RevalidationInv
  OBVIOUS
<1>1. StateInv /\ BatchAllOrNothing
  BY GraphAssumption DEF Init, StateInv, BatchAllOrNothing, NothingSettled
<1>2. CallsInv /\ WaitsInv
  BY IdleOK DEF Init, CallsInv, WaitsInv, CallOK
<1>3. FlightsInv
  BY DEF Init, FlightsInv
<1>4. ReceiptsInv
  BY DEF Init, ReceiptsInv
<1> QED
  BY <1>1, <1>2, <1>3, <1>4 DEF RevalidationInv

(* A call that read its records keeps its part when they are written.      *)
LEMMA AfterWriteOK ==
  ASSUME mode \in Modes, NEW cs \in [Calls -> CallType], \A c \in Calls : CallOK(cs[c]),
         NEW W \in SUBSET Memories
  PROVE  /\ AfterWrite(cs, W) \in [Calls -> CallType]
         /\ \A c \in Calls : /\ CallOK(AfterWrite(cs, W)[c])
                             /\ AfterWrite(cs, W)[c].wait = cs[c].wait
                             /\ AfterWrite(cs, W)[c].mems = cs[c].mems
<1>1. ASSUME NEW c \in Calls
      PROVE  /\ CallOK(AfterWrite(cs, W)[c])
             /\ AfterWrite(cs, W)[c].wait = cs[c].wait
             /\ AfterWrite(cs, W)[c].mems = cs[c].mems
  <2> PICK k : k = cs[c]
    OBVIOUS
  <2> PICK W1 : W1 = W \cap MemsOf(k.mems)
    OBVIOUS
  <2> PICK b : b = ~CasStore
    OBVIOUS
  <2>1. k \in CallType /\ CallOK(k) /\ b \in BOOLEAN /\ W1 \subseteq Memories
    OBVIOUS
  <2>2. CASE k.mems = <<>> \/ W = {}
    <3>1. AfterWrite(cs, W)[c] = k
      BY <2>2 DEF AfterWrite
    <3> QED
      BY <2>1, <3>1
  <2>3. CASE ~(k.mems = <<>> \/ W = {})
    <3> PICK n : n = [k EXCEPT !.changed = k.changed \cup W1, !.moved = b]
      OBVIOUS
    <3>1. AfterWrite(cs, W)[c] = n
      BY <2>3 DEF AfterWrite
    <3>2. /\ n \in CallType /\ n.changed = k.changed \cup W1 /\ n.moved = b
          /\ n.fresh = k.fresh /\ n.mems = k.mems /\ n.wait = k.wait
      BY <2>1 DEF CallType
    <3>3. n.changed \cup n.fresh \subseteq MemsOf(n.mems)
      BY <2>1, <3>2 DEF CallOK
    <3>4. CasStore \/ n.moved
      BY <3>2
    <3> QED
      BY <3>1, <3>2, <3>3, <3>4 DEF CallOK
  <2> QED
    BY <2>2, <2>3
<1>2. \A c \in Calls : AfterWrite(cs, W)[c] \in CallType
  BY <1>1 DEF CallOK
<1>3. AfterWrite(cs, W) \in [Calls -> CallType]
  BY <1>2 DEF AfterWrite
<1> QED
  BY <1>1, <1>3

(* Fencing changes nothing else of a flight. *)
LEMMA FencedFlight ==
  ASSUME NEW f \in FlightType
  PROVE  /\ [f EXCEPT !.fenced = TRUE] \in FlightType
         /\ [f EXCEPT !.fenced = TRUE].key = f.key
         /\ [f EXCEPT !.fenced = TRUE].fenced
BY DEF FlightType

LEMMA FencedFlights ==
  ASSUME NEW fs \in SUBSET FlightType, NEW M
  PROVE  /\ Fenced(fs, M) \subseteq FlightType
         /\ \A f \in fs : \E g \in Fenced(fs, M) : g.key = f.key
<1>1. CASE BumpsGeneration(M)
  <2>1. Fenced(fs, M) = {[f EXCEPT !.fenced = TRUE] : f \in fs}
    BY <1>1 DEF Fenced
  <2> QED
    BY <2>1, FencedFlight
<1>2. CASE ~BumpsGeneration(M)
  BY <1>2 DEF Fenced
<1> QED
  BY <1>1, <1>2

LEMMA FencedByGeneration ==
  ASSUME NEW fs \in SUBSET FlightType, NEW M, BumpsGeneration(M), NEW g \in Fenced(fs, M)
  PROVE  g.fenced
<1>1. PICK f \in fs : g = [f EXCEPT !.fenced = TRUE]
  BY DEF Fenced
<1> QED
  BY <1>1, FencedFlight

LEMMA FencedUnique ==
  ASSUME NEW fs \in SUBSET FlightType, NEW M, \A f, g \in fs : f.key = g.key => f = g
  PROVE  \A f, g \in Fenced(fs, M) : f.key = g.key => f = g
<1>1. \A f \in fs : [f EXCEPT !.fenced = TRUE].key = f.key
  BY DEF FlightType
<1>2. CASE BumpsGeneration(M)
  <2>1. Fenced(fs, M) = {[f EXCEPT !.fenced = TRUE] : f \in fs}
    BY <1>2 DEF Fenced
  <2> SUFFICES ASSUME NEW f \in fs, NEW g \in fs,
                      [f EXCEPT !.fenced = TRUE].key = [g EXCEPT !.fenced = TRUE].key
               PROVE  [f EXCEPT !.fenced = TRUE] = [g EXCEPT !.fenced = TRUE]
    BY <2>1
  <2>2. f = g
    BY <1>1
  <2> QED
    BY <2>2
<1>3. CASE ~BumpsGeneration(M)
  BY <1>3 DEF Fenced
<1> QED
  BY <1>2, <1>3

(* A key names its source. *)
LEMMA KeyFacts ==
  ASSUME NEW c \in Calls, NEW p \in Memories \X EvidenceSources
  PROVE  /\ p[1] \in Memories /\ p[2] \in EvidenceSources /\ p[2] \in Sources
         /\ Key(c, p[1], p[2]) \in Keys
         /\ \A q \in Memories \X EvidenceSources :
              Key(c, p[1], p[2]) = Key(c, q[1], q[2]) => p[2] = q[2]
<1>1. p[1] \in Memories /\ p[2] \in EvidenceSources /\ p[2] \in Sources
  BY DEF EvidenceSources
<1>2. Key(c, p[1], p[2]) \in Keys
  BY <1>1 DEF Key, Keys
<1>3. \A q \in Memories \X EvidenceSources :
        Key(c, p[1], p[2]) = Key(c, q[1], q[2]) => p[2] = q[2]
  BY DEF Key
<1> QED
  BY <1>1, <1>2, <1>3

(* The part of the invariant that a step without writes keeps. *)
LEMMA QuietStep ==
  ASSUME RevalidationInv, UNCHANGED <<mode, status, disturbances>>,
         settled' = NothingSettled
  PROVE  StateInv' /\ BatchAllOrNothing' /\ UNCHANGED <<Sharing, CasStore>>
BY DEF RevalidationInv, StateInv, BatchAllOrNothing, NothingSettled, Sharing, CasStore

(* The evidence of a call is asked for: it hits the cache, joins a flight  *)
(* or starts one.                                                          *)
LEMMA AskingStep ==
  ASSUME RevalidationInv, NEW c \in Calls, NEW call, CallOK(call), call.wait = {},
         NEW P \in SUBSET (Memories \X EvidenceSources), Asking(c, call, P),
         UNCHANGED <<mode, status, receipts, disturbances>>, settled' = NothingSettled
  PROVE  RevalidationInv'
<1> PICK hits : hits = {p \in P : Cached(call, p[1], p[2])}
  OBVIOUS
<1> PICK flying : flying = P \ hits
  OBVIOUS
<1> PICK led : led = {p \in flying : ~\E f \in flights : f.key = Key(c, p[1], p[2])}
  OBVIOUS
<1> DEFINE answer(p) == [mem |-> p[1], src |-> p[2], res |-> "UNCHANGED",
                         late |-> receipts[p[2]] = "late"]
           waits(p) == [mem |-> p[1], src |-> p[2], key |-> Key(c, p[1], p[2])]
           started(p) == [key |-> Key(c, p[1], p[2]), src |-> p[2], res |-> "none",
                          late |-> FALSE, fenced |-> FALSE]
<1>1. PICK A : A = {answer(p) : p \in hits}
  OBVIOUS
<1>2. PICK W : W = {waits(p) : p \in flying}
  OBVIOUS
<1>3. PICK N : N = {started(p) : p \in led}
  OBVIOUS
<1>4. PICK k : k = [call EXCEPT !.got = call.got \cup A, !.wait = call.wait \cup W]
  OBVIOUS
<1>5. calls' = [calls EXCEPT ![c] = k] /\ flights' = flights \cup N
  BY <1>1, <1>2, <1>3, <1>4 DEF Asking
<1>6. A \subseteq Answers
  <2> SUFFICES ASSUME NEW p \in hits PROVE answer(p) \in Answers
    BY <1>1
  <2>1. p \in Memories \X EvidenceSources /\ receipts[p[2]] # "none"
    BY DEF Cached
  <2>2. p[1] \in Memories /\ p[2] \in Sources
    BY <2>1, KeyFacts
  <2>3. "UNCHANGED" \in Results
    BY <2>1, <2>2 DEF RevalidationInv, ReceiptsInv
  <2> QED
    BY <2>2, <2>3 DEF Answers
<1>7. W \subseteq Waiting
  <2> SUFFICES ASSUME NEW p \in flying PROVE waits(p) \in Waiting
    BY <1>2
  <2> QED
    BY KeyFacts DEF Waiting
<1>8. ASSUME NEW p \in led
      PROVE  /\ started(p) \in FlightType /\ started(p).key = Key(c, p[1], p[2])
             /\ started(p).src = p[2]
  <2>1. p \in Memories \X EvidenceSources
    OBVIOUS
  <2>2. Key(c, p[1], p[2]) \in Keys /\ p[2] \in EvidenceSources
    BY <2>1, KeyFacts
  <2> QED
    BY <2>2 DEF FlightType
<1>9. ASSUME NEW p \in led PROVE ~started(p).late
  OBVIOUS
<1>10. ASSUME NEW p \in led, NEW q \in led, started(p).key = started(q).key
       PROVE  started(p) = started(q)
  <2>1. p[2] = q[2] /\ Key(c, p[1], p[2]) = Key(c, q[1], q[2])
    BY <1>10, KeyFacts
  <2> QED
    BY <2>1
<1>11. \A p \in flying : waits(p).key = Key(c, p[1], p[2])
  OBVIOUS
<1> HIDE DEF answer, waits, started
<1>12. /\ k \in CallType /\ k.wait = W /\ k.mems = call.mems /\ k.fresh = call.fresh
       /\ k.changed = call.changed /\ k.moved = call.moved
  <2>1. call \in CallType
    BY DEF CallOK
  <2> QED
    BY <2>1, <1>4, <1>6, <1>7 DEF CallType
<1>13. StateInv' /\ BatchAllOrNothing' /\ UNCHANGED <<Sharing, CasStore>>
  BY QuietStep
<1>14. CallsInv'
  <2>1. CallOK(k)
    BY <1>12 DEF CallOK
  <2>2. \A d \in Calls : CallOK(calls'[d])
    BY <2>1, <1>5 DEF RevalidationInv, CallsInv
  <2>3. \A d \in Calls : CallOK(calls[d])'
    BY <2>2 DEF CallOK, CasStore
  <2> QED
    BY <2>3, <1>5, <1>12 DEF RevalidationInv, CallsInv
<1>15. FlightsInv'
  <2>1. flights' \subseteq FlightType
    BY <1>3, <1>5, <1>8 DEF RevalidationInv, FlightsInv
  <2>2. \A g \in N : \E p \in led : g = started(p)
    BY <1>3
  <2>3. \A f \in flights, g \in N : f.key # g.key
    BY <2>2, <1>8
  <2>4. \A f, g \in flights' : f.key = g.key => f = g
    BY <2>2, <2>3, <1>5, <1>10 DEF RevalidationInv, FlightsInv
  <2>5. ASSUME NEW f \in flights', Sharing, f.late PROVE f.fenced
    <3>1. f \in flights
      BY <2>2, <2>5, <1>5, <1>9
    <3> QED
      BY <3>1, <2>5 DEF RevalidationInv, FlightsInv
  <2> QED
    BY <2>1, <2>4, <2>5, <1>13 DEF FlightsInv
<1>16. WaitsInv'
  <2> SUFFICES ASSUME NEW d \in Calls, NEW w \in calls'[d].wait
               PROVE  \E f \in flights' : f.key = w.key
    BY DEF WaitsInv
  <2>1. CASE d # c
    BY <2>1, <1>5 DEF RevalidationInv, CallsInv, WaitsInv
  <2>2. CASE d = c
    <3>1. PICK p \in flying : w = waits(p)
      BY <2>2, <1>2, <1>5, <1>12 DEF RevalidationInv, CallsInv
    <3>2. CASE p \in led
      BY <3>1, <3>2, <1>3, <1>5, <1>8, <1>11
    <3>3. CASE p \notin led
      BY <3>1, <3>3, <1>5, <1>11
    <3> QED
      BY <3>2, <3>3
  <2> QED
    BY <2>1, <2>2
<1>17. ReceiptsInv'
  BY <1>13 DEF RevalidationInv, ReceiptsInv
<1> QED
  BY <1>13, <1>14, <1>15, <1>16, <1>17 DEF RevalidationInv

LEMMA ReadingOK ==
  ASSUME NEW mems \in Seq(Memories)
  PROVE  CallOK(Reading(mems)) /\ Reading(mems).wait = {} /\ Reading(mems).mems = mems
<1> PICK F : F = {m \in MemsOf(mems) : status[m] = "FRESH"}
  OBVIOUS
<1>1. F \subseteq Memories /\ F \subseteq MemsOf(mems)
  BY MemsOfType
<1>2. Reading(mems) = [Idle EXCEPT !.mems = mems, !.fresh = F]
  BY DEF Reading
<1>3. Idle \in CallType /\ Idle.wait = {} /\ Idle.changed = {}
  BY IdleOK DEF CallOK, Idle
<1>4. /\ Reading(mems) \in CallType /\ Reading(mems).wait = {} /\ Reading(mems).changed = {}
      /\ Reading(mems).mems = mems /\ Reading(mems).fresh = F
  BY <1>1, <1>2, <1>3 DEF CallType
<1> QED
  BY <1>1, <1>4 DEF CallOK

(* What is still to ask for does not matter to the rest of a call. *)
LEMMA TodoOK ==
  ASSUME NEW k, CallOK(k), NEW todo \in Seq(EvidenceSources),
         NEW n, n = [k EXCEPT !.todo = todo]
  PROVE  CallOK(n) /\ n.wait = k.wait /\ n.mems = k.mems
<1>1. k \in CallType
  BY DEF CallOK
<1>2. /\ n \in CallType /\ n.wait = k.wait /\ n.mems = k.mems /\ n.fresh = k.fresh
      /\ n.changed = k.changed /\ n.moved = k.moved
  BY <1>1 DEF CallType
<1> QED
  BY <1>2 DEF CallOK

LEMMA HeadAndTail ==
  ASSUME NEW S, NEW q \in Seq(S), q # <<>>
  PROVE  Head(q) \in S /\ Tail(q) \in Seq(S)
OBVIOUS

LEMMA RevalidateStep ==
  ASSUME RevalidationInv, NEW c \in Calls, NEW m \in Memories, Revalidate(c, m)
  PROVE  RevalidationInv'
<1>1. EvidenceOf[m] \in Seq(EvidenceSources) /\ EvidenceOf[m] # <<>>
  BY EvidenceIsKnown DEF Revalidate
<1>2. Head(EvidenceOf[m]) \in EvidenceSources /\ Tail(EvidenceOf[m]) \in Seq(EvidenceSources)
  BY <1>1, HeadAndTail
<1>3. <<m>> \in Seq(Memories)
  OBVIOUS
<1>4. PICK call : call = [Reading(<<m>>) EXCEPT !.todo = Tail(EvidenceOf[m])]
  OBVIOUS
<1>5. CallOK(call) /\ call.wait = {}
  <2>1. PICK k : k = Reading(<<m>>)
    OBVIOUS
  <2>2. CallOK(k) /\ k.wait = {}
    BY <2>1, <1>3, ReadingOK
  <2>3. call = [k EXCEPT !.todo = Tail(EvidenceOf[m])]
    BY <2>1, <1>4
  <2> QED
    BY <2>2, <2>3, <1>2, TodoOK
<1>6. PICK P : P = {<<m, Head(EvidenceOf[m])>>}
  OBVIOUS
<1>7. P \in SUBSET (Memories \X EvidenceSources)
  BY <1>2, <1>6
<1>8. /\ Asking(c, call, P) /\ settled' = NothingSettled
      /\ UNCHANGED <<mode, status, receipts, disturbances>>
  BY <1>4, <1>6 DEF Revalidate
<1> QED
  BY <1>5, <1>7, <1>8, AskingStep

LEMMA RevalidateManyStep ==
  ASSUME RevalidationInv, NEW c \in Calls, NEW mems \in Batches, RevalidateMany(c, mems)
  PROVE  RevalidationInv'
<1>1. mems \in Seq(Memories)
  BY GraphAssumption
<1>2. PICK call : call = Reading(mems)
  OBVIOUS
<1>3. CallOK(call) /\ call.wait = {}
  BY <1>1, <1>2, ReadingOK
<1>4. PICK P : P = {p \in MemsOf(mems) \X Sources : p[2] \in SourcesOf(p[1])}
  OBVIOUS
<1>5. P \in SUBSET (Memories \X EvidenceSources)
  <2> SUFFICES ASSUME NEW p \in P PROVE p \in Memories \X EvidenceSources
    OBVIOUS
  <2>1. p \in MemsOf(mems) \X Sources /\ p[1] \in MemsOf(mems) /\ p[2] \in SourcesOf(p[1])
    BY <1>4
  <2>2. p[1] \in Memories
    BY <2>1, <1>1, MemsOfType
  <2>3. p[2] \in EvidenceSources
    BY <2>1, <2>2, EvidenceIsKnown
  <2>4. p = <<p[1], p[2]>>
    BY <2>1
  <2> QED
    BY <2>2, <2>3, <2>4
<1>6. /\ Asking(c, call, P) /\ settled' = NothingSettled
      /\ UNCHANGED <<mode, status, receipts, disturbances>>
  BY <1>2, <1>4 DEF RevalidateMany
<1> QED
  BY <1>3, <1>5, <1>6, AskingStep

LEMMA NextEvidenceStep ==
  ASSUME RevalidationInv, NEW c \in Calls, NextEvidence(c)
  PROVE  RevalidationInv'
<1>1. PICK k : k = calls[c]
  OBVIOUS
<1>2. k.mems # <<>> /\ k.wait = {} /\ k.todo # <<>>
  BY <1>1 DEF NextEvidence, IsIdle
<1>3. CallOK(k) /\ k.mems \in Seq(Memories) /\ k.todo \in Seq(EvidenceSources)
  BY <1>1 DEF RevalidationInv, CallsInv, CallType
<1>4. Head(k.todo) \in EvidenceSources /\ Tail(k.todo) \in Seq(EvidenceSources)
  BY <1>2, <1>3, HeadAndTail
<1>5. k.mems[1] \in Memories
  BY <1>2, <1>3
<1>6. PICK call : call = [k EXCEPT !.todo = Tail(k.todo)]
  OBVIOUS
<1>7. CallOK(call) /\ call.wait = {}
  BY <1>2, <1>3, <1>4, <1>6, TodoOK
<1>8. PICK P : P = {<<k.mems[1], Head(k.todo)>>}
  OBVIOUS
<1>9. P \in SUBSET (Memories \X EvidenceSources)
  BY <1>4, <1>5, <1>8
<1>10. /\ Asking(c, call, P) /\ settled' = NothingSettled
       /\ UNCHANGED <<mode, status, receipts, disturbances>>
  BY <1>1, <1>6, <1>8 DEF NextEvidence
<1> QED
  BY <1>7, <1>9, <1>10, AskingStep

LEMMA ValidatorObservesStep ==
  ASSUME RevalidationInv, NEW f \in flights, ValidatorObserves(f)
  PROVE  RevalidationInv'
<1>1. PICK r \in Results : flights' = (flights \ {f}) \cup {[f EXCEPT !.res = r]}
  BY DEF ValidatorObserves
<1>2. PICK g : g = [f EXCEPT !.res = r]
  OBVIOUS
<1>3. f \in FlightType
  BY DEF RevalidationInv, FlightsInv
<1>4. g \in FlightType /\ g.key = f.key /\ g.late = f.late /\ g.fenced = f.fenced
  BY <1>2, <1>3 DEF FlightType
<1>5. flights' = (flights \ {f}) \cup {g}
  BY <1>1, <1>2
<1>6. /\ UNCHANGED <<mode, status, calls, receipts, disturbances>>
      /\ settled' = NothingSettled
  BY DEF ValidatorObserves
<1>7. StateInv' /\ BatchAllOrNothing'
  BY <1>6, QuietStep
<1>8. FlightsInv'
  <2>1. \A h, k \in flights' : h.key = k.key => h = k
    BY <1>4, <1>5 DEF RevalidationInv, FlightsInv
  <2>2. Sharing /\ g.late => g.fenced
    BY <1>4 DEF RevalidationInv, FlightsInv
  <2>3. \A h \in flights' : Sharing /\ h.late => h.fenced
    BY <2>2, <1>5 DEF RevalidationInv, FlightsInv
  <2> QED
    BY <2>1, <2>3, <1>4, <1>5, <1>6 DEF RevalidationInv, FlightsInv, Sharing
<1>9. CallsInv' /\ ReceiptsInv'
  BY <1>6 DEF RevalidationInv, CallsInv, CallOK, ReceiptsInv, Sharing, CasStore
<1>10. WaitsInv'
  <2>1. \A h \in flights : \E k \in flights' : k.key = h.key
    BY <1>4, <1>5
  <2> QED
    BY <2>1, <1>6 DEF RevalidationInv, WaitsInv
<1> QED
  BY <1>7, <1>8, <1>9, <1>10 DEF RevalidationInv

LEMMA FlightSettlesStep ==
  ASSUME RevalidationInv, NEW f \in flights, FlightSettles(f)
  PROVE  RevalidationInv'
<1>1. /\ f.res # "none" /\ flights' = flights \ {f} /\ calls' = Delivered(f)
      /\ settled' = NothingSettled /\ UNCHANGED <<mode, status, disturbances>>
  BY DEF FlightSettles
<1>2. f \in FlightType /\ f.res \in Results /\ f.src \in Sources /\ f.late \in BOOLEAN
  BY <1>1 DEF RevalidationInv, FlightsInv, FlightType, EvidenceSources
<1>3. StateInv' /\ BatchAllOrNothing'
  BY <1>1, QuietStep
<1>4. FlightsInv'
  BY <1>1 DEF RevalidationInv, FlightsInv, Sharing
<1>5. ASSUME NEW c \in Calls
      PROVE  /\ CallOK(calls'[c])
             /\ \A w \in calls'[c].wait : w \in calls[c].wait /\ w.key # f.key
  <2> PICK k : k = calls[c]
    OBVIOUS
  <2> PICK mine : mine = {w \in k.wait : w.key = f.key}
    OBVIOUS
  <2>1. k \in CallType /\ CallOK(k)
    BY DEF RevalidationInv, CallsInv
  <2>2. CASE mine = {}
    <3>1. calls'[c] = k
      BY <2>2, <1>1 DEF Delivered
    <3> QED
      BY <2>1, <2>2, <3>1
  <2>3. CASE mine # {} /\ f.res = "THROWS"
    <3>1. calls'[c] = Idle
      BY <2>3, <1>1 DEF Delivered
    <3> QED
      BY <3>1, IdleOK
  <2>4. CASE mine # {} /\ f.res # "THROWS"
    <3> DEFINE answer(w) == [mem |-> w.mem, src |-> w.src, res |-> f.res, late |-> f.late]
    <3>1. PICK A : A = {answer(w) : w \in mine}
      OBVIOUS
    <3>2. PICK n : n = [k EXCEPT !.wait = k.wait \ mine, !.got = k.got \cup A]
      OBVIOUS
    <3>3. calls'[c] = n
      BY <2>4, <3>1, <3>2, <1>1 DEF Delivered
    <3>4. A \subseteq Answers
      <4> SUFFICES ASSUME NEW w \in mine PROVE answer(w) \in Answers
        BY <3>1
      <4>1. w.mem \in Memories /\ w.src \in Sources
        BY <2>1 DEF CallType, Waiting
      <4> QED
        BY <4>1, <1>2 DEF Answers
    <3>5. /\ n \in CallType /\ n.wait = k.wait \ mine /\ n.mems = k.mems
          /\ n.fresh = k.fresh /\ n.changed = k.changed /\ n.moved = k.moved
      BY <2>1, <3>2, <3>4 DEF CallType
    <3>6. CallOK(n)
      BY <2>1, <3>5 DEF CallOK
    <3> QED
      BY <3>3, <3>5, <3>6
  <2> QED
    BY <2>2, <2>3, <2>4
<1>6. CallsInv'
  <2>1. \A c \in Calls : calls'[c] \in CallType
    BY <1>5 DEF CallOK
  <2>2. calls' \in [Calls -> CallType]
    BY <2>1, <1>1 DEF Delivered
  <2>3. \A c \in Calls : CallOK(calls[c])'
    BY <1>1, <1>5 DEF CallOK, CasStore
  <2> QED
    BY <2>2, <2>3 DEF CallsInv
<1>7. WaitsInv'
  <2> SUFFICES ASSUME NEW c \in Calls, NEW w \in calls'[c].wait
               PROVE  \E g \in flights' : g.key = w.key
    BY DEF WaitsInv
  <2>1. w \in calls[c].wait /\ w.key # f.key
    BY <1>5
  <2>2. PICK g \in flights : g.key = w.key
    BY <2>1 DEF RevalidationInv, WaitsInv
  <2> QED
    BY <2>1, <2>2, <1>1
<1>8. ReceiptsInv'
  <2>1. CASE UNCHANGED receipts
    BY <2>1, <1>1 DEF RevalidationInv, ReceiptsInv, Sharing
  <2>2. CASE MayStoreReceipt(f) /\ receipts' = [receipts EXCEPT ![f.src] =
                                                  IF f.late THEN "late" ELSE "current"]
    <3>1. Sharing /\ f.res = "UNCHANGED" /\ ~f.fenced
      BY <2>2 DEF MayStoreReceipt
    <3>2. ~f.late
      BY <3>1 DEF RevalidationInv, FlightsInv
    <3>3. receipts' = [receipts EXCEPT ![f.src] = "current"]
      BY <2>2, <3>2
    <3>4. f.src \in EvidenceSources
      BY <1>2 DEF FlightType
    <3> QED
      BY <3>1, <3>3, <3>4, <1>1, <1>2 DEF RevalidationInv, ReceiptsInv, Sharing
  <2> QED
    BY <2>1, <2>2 DEF FlightSettles
<1> QED
  BY <1>3, <1>4, <1>6, <1>7, <1>8 DEF RevalidationInv
-----------------------------------------------------------------------------

(* Steps that write records or drop receipts: the calls learn of the       *)
(* write, receipts only go, and the flights are fenced or left alone.      *)
LEMMA DisturbingStep ==
  ASSUME RevalidationInv, UNCHANGED mode, StateInv', BatchAllOrNothing',
         NEW cs \in [Calls -> CallType], \A c \in Calls : CallOK(cs[c]),
         \A c \in Calls : cs[c].wait \subseteq calls[c].wait,
         NEW W \in SUBSET Memories, calls' = AfterWrite(cs, W) \/ calls' = cs,
         receipts' \in [Sources -> {"none", "current"}],
         \A s \in Sources : receipts'[s] # "none" => receipts[s] # "none",
         FlightsInv', \A f \in flights : \E g \in flights' : g.key = f.key
  PROVE  RevalidationInv'
<1>1. mode \in Modes
  BY DEF RevalidationInv, StateInv
<1>2. /\ calls' \in [Calls -> CallType]
      /\ \A c \in Calls : CallOK(calls'[c]) /\ calls'[c].wait = cs[c].wait
  BY <1>1, AfterWriteOK
<1>3. CallsInv'
  <2>1. \A c \in Calls : CallOK(calls[c])'
    BY <1>2 DEF CallOK, CasStore
  <2> QED
    BY <1>2, <2>1 DEF CallsInv
<1>4. WaitsInv'
  <2> SUFFICES ASSUME NEW c \in Calls, NEW w \in calls'[c].wait
               PROVE  \E g \in flights' : g.key = w.key
    BY DEF WaitsInv
  <2>1. w \in calls[c].wait
    BY <1>2
  <2>2. PICK f \in flights : f.key = w.key
    BY <2>1 DEF RevalidationInv, WaitsInv
  <2> QED
    BY <2>2
<1>5. ReceiptsInv'
  BY DEF RevalidationInv, ReceiptsInv, Sharing
<1> QED
  BY <1>3, <1>4, <1>5 DEF RevalidationInv

(* Fencing keeps the flights' part of the invariant. *)
LEMMA FencedInv ==
  ASSUME FlightsInv, UNCHANGED mode, NEW M, flights' = Fenced(flights, M)
  PROVE  FlightsInv' /\ \A f \in flights : \E g \in flights' : g.key = f.key
<1>1. flights \in SUBSET FlightType /\ \A f, g \in flights : f.key = g.key => f = g
  BY DEF FlightsInv
<1>2. /\ flights' \subseteq FlightType
      /\ \A f, g \in flights' : f.key = g.key => f = g
      /\ \A f \in flights : \E g \in flights' : g.key = f.key
  <2>1. \A f, g \in flights' : f.key = g.key => f = g
    BY <1>1, FencedUnique
  <2>2. /\ flights' \subseteq FlightType
        /\ \A f \in flights : \E g \in flights' : g.key = f.key
    BY <1>1, FencedFlights
  <2> QED
    BY <2>1, <2>2
<1>3. ASSUME NEW g \in flights', Sharing, g.late PROVE g.fenced
  <2>1. CASE BumpsGeneration(M)
    <3>1. g \in Fenced(flights, M)
      OBVIOUS
    <3> QED
      BY <2>1, <3>1, <1>1, FencedByGeneration
  <2>2. CASE ~BumpsGeneration(M)
    BY <2>2, <1>3 DEF Fenced, FlightsInv
  <2> QED
    BY <2>1, <2>2
<1> QED
  BY <1>2, <1>3 DEF FlightsInv, Sharing

LEMMA ReceiptsWithoutOK ==
  ASSUME ReceiptsInv, NEW M,
         receipts' = (IF Sharing THEN ReceiptsWithout(M) ELSE receipts)
  PROVE  /\ receipts' \in [Sources -> {"none", "current"}]
         /\ \A s \in Sources : receipts'[s] # "none" => receipts[s] # "none"
<1>1. CASE Sharing
  BY <1>1 DEF ReceiptsInv, ReceiptsWithout
<1>2. CASE ~Sharing
  BY <1>2 DEF ReceiptsInv
<1> QED
  BY <1>1, <1>2

LEMMA DisturbsState ==
  ASSUME RevalidationInv, Disturbs, status' \in [Memories -> Statuses]
  PROVE  StateInv' /\ BatchAllOrNothing' /\ UNCHANGED mode
<1>1. disturbances' \in 0 .. MaxDisturbances
  BY GraphAssumption DEF RevalidationInv, StateInv, Disturbs
<1> QED
  BY <1>1 DEF RevalidationInv, StateInv, BatchAllOrNothing, NothingSettled, Disturbs

LEMMA RevalidateBareStep ==
  ASSUME RevalidationInv, NEW m \in Memories, RevalidateBare(m)
  PROVE  RevalidationInv'
<1>1. /\ status' = [status EXCEPT ![m] = "UNKNOWN"] /\ calls' = AfterWrite(calls, {m})
      /\ settled' = [asked |-> {m}, applied |-> {m}]
      /\ UNCHANGED <<mode, flights, receipts, disturbances>>
  BY DEF RevalidateBare
<1>2. StateInv' /\ BatchAllOrNothing'
  BY <1>1 DEF RevalidationInv, StateInv, BatchAllOrNothing, Statuses
<1>3. FlightsInv'
  BY <1>1 DEF RevalidationInv, FlightsInv, Sharing
<1>4. {m} \in SUBSET Memories
  OBVIOUS
<1> QED
  BY <1>1, <1>2, <1>3, <1>4, DisturbingStep DEF RevalidationInv, CallsInv, ReceiptsInv

LEMMA ReplaceStep ==
  ASSUME RevalidationInv, NEW m \in Memories, NEW st \in Statuses, Replace(m, st)
  PROVE  RevalidationInv'
<1>1. /\ Disturbs /\ flights' = Fenced(flights, {m})
      /\ receipts' = (IF Sharing THEN ReceiptsWithout({m}) ELSE receipts)
  BY DEF Replace
<1>2. status' \in [Memories -> Statuses] /\ (calls' = AfterWrite(calls, {m}) \/ calls' = calls)
  BY DEF Replace, RevalidationInv, StateInv
<1>3. StateInv' /\ BatchAllOrNothing' /\ UNCHANGED mode
  BY <1>1, <1>2, DisturbsState
<1>4. FlightsInv' /\ \A f \in flights : \E g \in flights' : g.key = f.key
  BY <1>1, <1>3, FencedInv DEF RevalidationInv
<1>5. /\ receipts' \in [Sources -> {"none", "current"}]
      /\ \A s \in Sources : receipts'[s] # "none" => receipts[s] # "none"
  BY <1>1, ReceiptsWithoutOK DEF RevalidationInv
<1>6. {m} \in SUBSET Memories
  OBVIOUS
<1> QED
  BY <1>2, <1>3, <1>4, <1>5, <1>6, DisturbingStep DEF RevalidationInv, CallsInv

LEMMA StreamRepairStep ==
  ASSUME RevalidationInv, StreamRepair
  PROVE  RevalidationInv'
<1>1. /\ Disturbs /\ receipts' = [s \in Sources |-> "none"]
      /\ flights' = {[f EXCEPT !.fenced = TRUE] : f \in flights} /\ UNCHANGED <<status, calls>>
  BY DEF StreamRepair
<1>2. StateInv' /\ BatchAllOrNothing' /\ UNCHANGED mode
  BY <1>1, DisturbsState DEF RevalidationInv, StateInv
<1>3. ASSUME NEW f \in flights
      PROVE  LET g == [f EXCEPT !.fenced = TRUE]
             IN g \in FlightType /\ g.key = f.key /\ g.fenced
  BY DEF RevalidationInv, FlightsInv, FlightType
<1>4. FlightsInv'
  <2>1. \A f, g \in flights' : f.key = g.key => f = g
    <3> SUFFICES ASSUME NEW f \in flights, NEW g \in flights,
                        [f EXCEPT !.fenced = TRUE].key = [g EXCEPT !.fenced = TRUE].key
                 PROVE  [f EXCEPT !.fenced = TRUE] = [g EXCEPT !.fenced = TRUE]
      BY <1>1
    <3>1. f = g
      BY <1>3 DEF RevalidationInv, FlightsInv
    <3> QED
      BY <3>1
  <2>2. \A g \in flights' : g \in FlightType /\ g.fenced
    BY <1>1, <1>3
  <2> QED
    BY <2>1, <2>2 DEF FlightsInv
<1>5. \A f \in flights : \E g \in flights' : g.key = f.key
  BY <1>1, <1>3
<1>6. receipts' \in [Sources -> {"none", "current"}] /\ \A s \in Sources : receipts'[s] = "none"
  BY <1>1
<1>7. {} \in SUBSET Memories
  OBVIOUS
<1> QED
  BY <1>1, <1>2, <1>4, <1>5, <1>6, <1>7, DisturbingStep DEF RevalidationInv, CallsInv

LEMMA ReceiptExpiresStep ==
  ASSUME RevalidationInv, NEW s \in Sources, ReceiptExpires(s)
  PROVE  RevalidationInv'
<1>1. /\ Disturbs /\ receipts' = [receipts EXCEPT ![s] = "none"]
      /\ UNCHANGED <<status, calls, flights>>
  BY DEF ReceiptExpires
<1>2. StateInv' /\ BatchAllOrNothing' /\ UNCHANGED mode
  BY <1>1, DisturbsState DEF RevalidationInv, StateInv
<1>3. FlightsInv'
  BY <1>1, <1>2 DEF RevalidationInv, FlightsInv, Sharing
<1>4. /\ receipts' \in [Sources -> {"none", "current"}]
      /\ \A u \in Sources : receipts'[u] # "none" => receipts[u] # "none"
  BY <1>1 DEF RevalidationInv, ReceiptsInv
<1>5. {} \in SUBSET Memories
  OBVIOUS
<1> QED
  BY <1>1, <1>2, <1>3, <1>4, <1>5, DisturbingStep DEF RevalidationInv, CallsInv

(* A signal for one of the sources reaches every memory with evidence of   *)
(* it, whatever the graph.                                                 *)
LEMMA SignalReaches ==
  ASSUME NEW S, NEW m \in Memories, NEW s \in S, s \in SourcesOf(m)
  PROVE  m \in Affected(S)
BY DEF Affected, DependentClosure

(* What a signal for S does to the flights, before the fence, and to the   *)
(* answers calls already have.                                             *)
OutdatedIn(S) ==
  {IF f.res = "none" THEN f
   ELSE IF f.src \in S THEN [f EXCEPT !.late = TRUE] ELSE f : f \in flights}

OutdatedCalls(S) ==
  [c \in Calls |-> [calls[c] EXCEPT !.got =
     {IF a.src \in S THEN [a EXCEPT !.late = TRUE] ELSE a : a \in @}]]

LEMMA OutdatedFlights ==
  ASSUME FlightsInv, NEW S, NEW fs, fs = OutdatedIn(S)
  PROVE  /\ fs \in SUBSET FlightType
         /\ \A f, g \in fs : f.key = g.key => f = g
         /\ \A f \in flights : \E g \in fs : g.key = f.key
         /\ \A g \in fs : g.late /\ g.src \notin S => g \in flights
<1> DEFINE out(f) == IF f.res = "none" THEN f
                     ELSE IF f.src \in S THEN [f EXCEPT !.late = TRUE] ELSE f
<1>1. ASSUME NEW f \in flights
      PROVE  out(f) \in FlightType /\ out(f).key = f.key /\ out(f).src = f.src
  <2>1. f \in FlightType
    BY DEF FlightsInv
  <2>2. CASE f.res # "none" /\ f.src \in S
    <3>1. out(f) = [f EXCEPT !.late = TRUE]
      BY <2>2
    <3> HIDE DEF out
    <3> QED
      BY <2>1, <3>1 DEF FlightType
  <2>3. CASE ~(f.res # "none" /\ f.src \in S)
    BY <2>1, <2>3
  <2> QED
    BY <2>2, <2>3
<1>2. \A f \in flights : f.src \notin S => out(f) = f
  OBVIOUS
<1>3. fs = {out(f) : f \in flights}
  BY DEF OutdatedIn
<1> HIDE DEF out
<1>4. fs \in SUBSET FlightType
  BY <1>1, <1>3
<1>5. \A f, g \in fs : f.key = g.key => f = g
  BY <1>1, <1>3 DEF FlightsInv
<1>6. \A f \in flights : \E g \in fs : g.key = f.key
  BY <1>1, <1>3
<1>7. \A g \in fs : g.src \notin S => g \in flights
  BY <1>1, <1>2, <1>3
<1> QED
  BY <1>4, <1>5, <1>6, <1>7

LEMMA SignalFlights ==
  ASSUME RevalidationInv, NEW S \in SUBSET Sources, SignalSourcesChanged(S)
  PROVE  FlightsInv' /\ \A f \in flights : \E g \in flights' : g.key = f.key
<1>1. PICK fs : fs = OutdatedIn(S)
  OBVIOUS
<1>2. flights' = Fenced(fs, Affected(S)) /\ UNCHANGED mode
  BY <1>1 DEF SignalSourcesChanged, Disturbs, OutdatedIn
<1>3. /\ fs \in SUBSET FlightType
      /\ \A f, g \in fs : f.key = g.key => f = g
      /\ \A f \in flights : \E g \in fs : g.key = f.key
      /\ \A g \in fs : g.late /\ g.src \notin S => g \in flights
  BY <1>1, OutdatedFlights DEF RevalidationInv
<1>4. flights' \subseteq FlightType /\ \A f \in fs : \E g \in flights' : g.key = f.key
  BY <1>2, <1>3, FencedFlights
<1>5. \A f, g \in flights' : f.key = g.key => f = g
  BY <1>2, <1>3, FencedUnique
<1>6. ASSUME NEW g \in flights', Sharing, g.late PROVE g.fenced
  <2>1. CASE BumpsGeneration(Affected(S))
    <3>1. g \in Fenced(fs, Affected(S))
      BY <1>2
    <3> QED
      BY <2>1, <3>1, <1>3, FencedByGeneration
  <2>2. CASE ~BumpsGeneration(Affected(S))
    <3>1. g \in fs
      BY <2>2, <1>2 DEF Fenced
    <3>2. g.src \in EvidenceSources
      BY <3>1, <1>3 DEF FlightType
    <3>3. g.src \notin S
      <4> SUFFICES ASSUME g.src \in S PROVE FALSE
        OBVIOUS
      <4>1. PICK m \in Memories : g.src \in SourcesOf(m)
        BY <3>2 DEF EvidenceSources
      <4>2. m \in Affected(S)
        BY <4>1, SignalReaches
      <4> QED
        BY <2>2, <4>1, <4>2, <1>6 DEF BumpsGeneration
    <3>4. g \in flights
      BY <3>1, <3>3, <1>3, <1>6
    <3> QED
      BY <3>4, <1>6 DEF RevalidationInv, FlightsInv
  <2> QED
    BY <2>1, <2>2
<1>7. FlightsInv'
  BY <1>2, <1>4, <1>5, <1>6 DEF FlightsInv, Sharing
<1>8. \A f \in flights : \E g \in flights' : g.key = f.key
  BY <1>3, <1>4
<1> QED
  BY <1>7, <1>8

LEMMA SignalCalls ==
  ASSUME RevalidationInv, NEW S, NEW cs, cs = OutdatedCalls(S)
  PROVE  /\ cs \in [Calls -> CallType]
         /\ \A c \in Calls : /\ CallOK(cs[c]) /\ cs[c].wait = calls[c].wait
                             /\ cs[c].mems = calls[c].mems
<1>1. ASSUME NEW c \in Calls
      PROVE  CallOK(cs[c]) /\ cs[c].wait = calls[c].wait /\ cs[c].mems = calls[c].mems
  <2> PICK k : k = calls[c]
    OBVIOUS
  <2>1. k \in CallType /\ CallOK(k)
    BY DEF RevalidationInv, CallsInv
  <2>2. PICK A : A = {IF a.src \in S THEN [a EXCEPT !.late = TRUE] ELSE a : a \in k.got}
    OBVIOUS
  <2>3. PICK n : n = [k EXCEPT !.got = A]
    OBVIOUS
  <2>4. cs[c] = n
    BY <2>2, <2>3 DEF OutdatedCalls
  <2>5. A \subseteq Answers
    BY <2>1, <2>2 DEF CallType, Answers
  <2>6. /\ n \in CallType /\ n.wait = k.wait /\ n.mems = k.mems /\ n.fresh = k.fresh
        /\ n.changed = k.changed /\ n.moved = k.moved
    BY <2>1, <2>3, <2>5 DEF CallType
  <2> QED
    BY <2>1, <2>4, <2>6 DEF CallOK
<1>2. \A c \in Calls : cs[c] \in CallType
  BY <1>1 DEF CallOK
<1> QED
  BY <1>1, <1>2 DEF OutdatedCalls

LEMMA SignalStep ==
  ASSUME RevalidationInv, NEW S \in SUBSET Sources, SignalSourcesChanged(S)
  PROVE  RevalidationInv'
<1>1. PICK cs : cs = OutdatedCalls(S)
  OBVIOUS
<1>2. PICK W : W = Staled(Affected(S))
  OBVIOUS
<1>3. W \in SUBSET Memories
  BY <1>2 DEF Staled, Affected, DependentClosure
<1>4. /\ Disturbs /\ calls' = AfterWrite(cs, W)
      /\ status' = [m \in Memories |-> IF m \in W THEN "STALE" ELSE status[m]]
      /\ receipts' = [s \in Sources |->
           IF Sharing /\ \E m \in Affected(S) : s \in SourcesOf(m) THEN "none"
           ELSE IF s \in S /\ receipts[s] # "none" THEN "late" ELSE receipts[s]]
  BY <1>1, <1>2 DEF SignalSourcesChanged, OutdatedCalls
<1>5. StateInv' /\ BatchAllOrNothing' /\ UNCHANGED mode
  <2>1. status' \in [Memories -> Statuses]
    BY <1>4 DEF RevalidationInv, StateInv, Statuses
  <2> QED
    BY <2>1, <1>4, DisturbsState
<1>6. FlightsInv' /\ \A f \in flights : \E g \in flights' : g.key = f.key
  BY SignalFlights
<1>7. /\ cs \in [Calls -> CallType]
      /\ \A c \in Calls : CallOK(cs[c]) /\ cs[c].wait = calls[c].wait
  BY <1>1, SignalCalls
<1>8. ASSUME NEW s \in Sources
      PROVE  receipts'[s] = "none" \/ receipts'[s] = receipts[s]
  <2> SUFFICES ASSUME receipts[s] # "none", s \in S
               PROVE  receipts'[s] = "none"
    BY <1>4
  <2>1. Sharing /\ s \in EvidenceSources
    BY DEF RevalidationInv, ReceiptsInv
  <2>2. PICK m \in Memories : s \in SourcesOf(m)
    BY <2>1 DEF EvidenceSources
  <2>3. m \in Affected(S)
    BY <2>2, SignalReaches
  <2> QED
    BY <2>1, <2>2, <2>3, <1>4
<1>9. /\ receipts' \in [Sources -> {"none", "current"}]
      /\ \A s \in Sources : receipts'[s] # "none" => receipts[s] # "none"
  <2>1. \A s \in Sources : receipts'[s] \in {"none", "current"}
    BY <1>8 DEF RevalidationInv, ReceiptsInv
  <2> QED
    BY <2>1, <1>4, <1>8
<1> QED
  BY <1>3, <1>4, <1>5, <1>6, <1>7, <1>9, DisturbingStep

(* The records a commit writes, and those whose receipts it drops. *)
Written(call) ==
  {i \in 1 .. Len(call.mems) : \A j \in 1 .. i : Unchanged(call, j)}

Applied(call) == {call.mems[i] : i \in Written(call)}

Tried(call) ==
  {i \in 1 .. Len(call.mems) : \A j \in 1 .. (i - 1) : Unchanged(call, j)}

Dropped(call) ==
  {call.mems[i] : i \in {j \in (IF CasStore THEN Tried(call) ELSE Written(call)) :
                           Selected(call, call.mems[j]) # "FRESH"}}

LEMMA CommitWrites ==
  ASSUME RevalidationInv, NEW c \in Calls, Commit(c)
  PROVE  /\ ~IsIdle(c) /\ calls[c].wait = {} /\ calls[c].todo = <<>>
         /\ status' = [m \in Memories |-> IF m \in Applied(calls[c])
                         THEN Selected(calls[c], m) ELSE status[m]]
         /\ calls' = AfterWrite([calls EXCEPT ![c] = Idle], Applied(calls[c]))
         /\ receipts' = (IF Sharing THEN ReceiptsWithout(Dropped(calls[c])) ELSE receipts)
         /\ flights' = Fenced(flights, Dropped(calls[c]))
         /\ settled' = [asked |-> MemsOf(calls[c].mems), applied |-> Applied(calls[c])]
         /\ UNCHANGED <<mode, disturbances>>
<1>1. calls[c].mems \in Seq(Memories)
  BY DEF RevalidationInv, CallsInv, CallType
<1>2. Written(calls[c]) = {i \in Tried(calls[c]) : Unchanged(calls[c], i)}
  BY <1>1 DEF Written, Tried
<1>3. PICK W : W = Written(calls[c])
  OBVIOUS
<1>4. PICK T : T = Tried(calls[c])
  OBVIOUS
<1>5. T = {i \in 1 .. Len(calls[c].mems) : \A j \in 1 .. (i - 1) : Unchanged(calls[c], j)}
  BY <1>4 DEF Tried
<1>6. W = {i \in T : Unchanged(calls[c], i)}
  BY <1>2, <1>3, <1>4
<1> QED
  BY <1>3, <1>4, <1>5, <1>6 DEF Commit, Applied, Dropped

(* A record is written only when it is as it was read: the comparison is   *)
(* with the record or, without compare-and-swap, with the store's revision *)
(* that every write moves.                                                 *)
LEMMA AppliedIsUnchanged ==
  ASSUME NEW k, CallOK(k)
  PROVE  Applied(k) \subseteq MemsOf(k.mems) /\ Applied(k) \cap k.changed = {}
<1>1. k.mems \in Seq(Memories)
  BY DEF CallOK, CallType
<1>2. \A i \in Written(k) : i \in 1 .. Len(k.mems) /\ Unchanged(k, i)
  BY <1>1 DEF Written
<1>3. ASSUME NEW i \in Written(k) PROVE k.mems[i] \notin k.changed
  <2>1. CASE CasStore
    BY <2>1, <1>2 DEF Unchanged
  <2>2. CASE ~CasStore
    BY <2>2, <1>2 DEF Unchanged, CallOK
  <2> QED
    BY <2>1, <2>2
<1> QED
  BY <1>2, <1>3 DEF Applied, MemsOf

(* Without compare-and-swap the comparison is the same for every record.   *)
LEMMA AppliedAllOrNothing ==
  ASSUME NEW k, CallOK(k), ~CasStore
  PROVE  Applied(k) \in {{}, MemsOf(k.mems)}
<1>1. k.mems \in Seq(Memories)
  BY DEF CallOK, CallType
<1>2. \A i : Unchanged(k, i) <=> ~k.moved
  BY DEF Unchanged
<1>3. CASE k.moved
  <2>1. Written(k) = {}
    BY <1>1, <1>2, <1>3 DEF Written
  <2> QED
    BY <2>1 DEF Applied
<1>4. CASE ~k.moved
  <2>1. Written(k) = 1 .. Len(k.mems)
    BY <1>1, <1>2, <1>4 DEF Written
  <2> QED
    BY <2>1 DEF Applied, MemsOf
<1> QED
  BY <1>3, <1>4

LEMMA CommitStep ==
  ASSUME RevalidationInv, NEW c \in Calls, Commit(c)
  PROVE  RevalidationInv'
<1> PICK k : k = calls[c]
  OBVIOUS
<1>1. k \in CallType /\ CallOK(k)
  BY DEF RevalidationInv, CallsInv
<1>2. PICK W : W = Applied(k)
  OBVIOUS
<1>3. PICK D : D = Dropped(k)
  OBVIOUS
<1>4. /\ status' = [m \in Memories |-> IF m \in W THEN Selected(k, m) ELSE status[m]]
      /\ calls' = AfterWrite([calls EXCEPT ![c] = Idle], W)
      /\ receipts' = (IF Sharing THEN ReceiptsWithout(D) ELSE receipts)
      /\ flights' = Fenced(flights, D)
      /\ settled' = [asked |-> MemsOf(k.mems), applied |-> W]
      /\ UNCHANGED <<mode, disturbances>>
  BY <1>2, <1>3, CommitWrites
<1>5. MemsOf(k.mems) \subseteq Memories /\ W \subseteq MemsOf(k.mems)
  BY <1>1, <1>2, MemsOfType, AppliedIsUnchanged DEF CallType
<1>6. StateInv'
  <2>1. \A m : Selected(k, m) \in Statuses
    BY DEF Selected, Statuses
  <2>2. status' \in [Memories -> Statuses]
    BY <2>1, <1>4 DEF RevalidationInv, StateInv
  <2> QED
    BY <2>2, <1>4, <1>5 DEF RevalidationInv, StateInv
<1>7. BatchAllOrNothing'
  <2> SUFFICES ASSUME ~CasStore PROVE W \in {{}, MemsOf(k.mems)}
    BY <1>4 DEF BatchAllOrNothing, CasStore
  <2> QED
    BY <1>1, <1>2, AppliedAllOrNothing
<1>8. PICK cs : cs = [calls EXCEPT ![c] = Idle]
  OBVIOUS
<1>9. /\ cs \in [Calls -> CallType]
      /\ \A d \in Calls : CallOK(cs[d]) /\ cs[d].wait \subseteq calls[d].wait
  <2>1. Idle \in CallType
    BY IdleOK DEF CallOK
  <2> QED
    BY <2>1, <1>8, IdleOK DEF RevalidationInv, CallsInv
<1>10. FlightsInv' /\ \A f \in flights : \E g \in flights' : g.key = f.key
  BY <1>4, FencedInv DEF RevalidationInv
<1>11. /\ receipts' \in [Sources -> {"none", "current"}]
       /\ \A s \in Sources : receipts'[s] # "none" => receipts[s] # "none"
  BY <1>4, ReceiptsWithoutOK DEF RevalidationInv
<1>12. W \in SUBSET Memories /\ calls' = AfterWrite(cs, W) /\ UNCHANGED mode
  BY <1>4, <1>5, <1>8
<1> QED
  BY <1>6, <1>7, <1>9, <1>10, <1>11, <1>12, DisturbingStep
-----------------------------------------------------------------------------

LEMMA RevalidationStep == RevalidationInv /\ [Next]_vars => RevalidationInv'
<1> SUFFICES ASSUME RevalidationInv, [Next]_vars PROVE RevalidationInv'
  OBVIOUS
<1>1. ASSUME NEW c \in Calls, NEW m \in Memories, Revalidate(c, m)
      PROVE  RevalidationInv'
  BY <1>1, RevalidateStep
<1>2. ASSUME NEW c \in Calls, NEW mems \in Batches, RevalidateMany(c, mems)
      PROVE  RevalidationInv'
  BY <1>2, RevalidateManyStep
<1>3. ASSUME NEW c \in Calls, NextEvidence(c)
      PROVE  RevalidationInv'
  BY <1>3, NextEvidenceStep
<1>4. ASSUME NEW c \in Calls, Commit(c)
      PROVE  RevalidationInv'
  BY <1>4, CommitStep
<1>5. ASSUME NEW f \in flights, ValidatorObserves(f)
      PROVE  RevalidationInv'
  BY <1>5, ValidatorObservesStep
<1>6. ASSUME NEW f \in flights, FlightSettles(f)
      PROVE  RevalidationInv'
  BY <1>6, FlightSettlesStep
<1>7. ASSUME NEW m \in Memories, RevalidateBare(m)
      PROVE  RevalidationInv'
  BY <1>7, RevalidateBareStep
<1>8. ASSUME NEW m \in Memories, NEW st \in Statuses, Replace(m, st)
      PROVE  RevalidationInv'
  BY <1>8, ReplaceStep
<1>9. ASSUME NEW S \in SUBSET Sources, SignalSourcesChanged(S)
      PROVE  RevalidationInv'
  BY <1>9, SignalStep
<1>10. ASSUME NEW s \in Sources, ReceiptExpires(s)
       PROVE  RevalidationInv'
  BY <1>10, ReceiptExpiresStep
<1>11. ASSUME StreamRepair
       PROVE  RevalidationInv'
  BY <1>11, StreamRepairStep
<1>12. CASE UNCHANGED vars
  BY <1>12 DEF vars, RevalidationInv, StateInv, CallsInv, CallOK, FlightsInv, WaitsInv,
       ReceiptsInv, BatchAllOrNothing, Sharing, CasStore
<1> QED
  BY <1>1, <1>2, <1>3, <1>4, <1>5, <1>6, <1>7, <1>8, <1>9, <1>10, <1>11, <1>12 DEF Next

(* Whatever runs while validators are awaited (signals, replacements, other *)
(* revalidations, repairs of a stream), a flight that observed its source   *)
(* before a signal for it is fenced before it can store a receipt, and a    *)
(* call whose records were written knows it (PremiseRuntime).               *)
THEOREM RevalidationInvariance == Spec => []RevalidationInv
BY RevalidationInit, RevalidationStep, PTL DEF Spec

(* No cached receipt rests on an observation older than a signal for its    *)
(* source (validateEvidence, invalidateRecordReceipts).                     *)
THEOREM ReceiptsAreCurrentTheorem == Spec => []ReceiptsAreCurrent
<1>1. RevalidationInv => ReceiptsAreCurrent
  BY DEF RevalidationInv, ReceiptsInv, ReceiptsAreCurrent
<1> QED
  BY <1>1, RevalidationInvariance, PTL

(* On a store that only has a revision, revalidateMany applies a batch as a *)
(* whole or not at all, whatever the batch and whoever wrote meanwhile.     *)
THEOREM BatchAllOrNothingTheorem == Spec => []BatchAllOrNothing
<1>1. RevalidationInv => BatchAllOrNothing
  BY DEF RevalidationInv
<1> QED
  BY <1>1, RevalidationInvariance, PTL

(* Every call waits for a flight that exists and no two flights share a key *)
(* (sharedValidation's map and its clean-up).                               *)
THEOREM RevalidationTypeTheorem == Spec => []TypeOK
<1>1. RevalidationInv => TypeOK
  <2> SUFFICES ASSUME RevalidationInv PROVE TypeOK
    OBVIOUS
  <2>1. flights \subseteq [key : Keys, src : Sources, res : Results \cup {"none"},
                           late : BOOLEAN, fenced : BOOLEAN]
    BY DEF RevalidationInv, FlightsInv, FlightType, EvidenceSources
  <2>2. receipts \in [Sources -> {"none", "current", "late"}]
    BY DEF RevalidationInv, ReceiptsInv
  <2>3. \A c \in Calls :
          /\ calls[c].wait \subseteq Waiting /\ calls[c].got \subseteq Answers
          /\ calls[c].changed \cup calls[c].fresh \subseteq MemsOf(calls[c].mems)
    BY DEF RevalidationInv, CallsInv, CallOK, CallType
  <2> QED
    BY <2>1, <2>2, <2>3 DEF RevalidationInv, StateInv, FlightsInv, WaitsInv, TypeOK
<1> QED
  BY <1>1, RevalidationInvariance, PTL

(* A write never ends another call: the call finds out when it commits. *)
LEMMA NoneSettles ==
  ASSUME RevalidationInv, NEW cs \in [Calls -> CallType], \A c \in Calls : CallOK(cs[c]),
         NEW W \in SUBSET Memories, calls' = AfterWrite(cs, W) \/ calls' = cs,
         NEW d \in Calls, cs[d].mems = calls[d].mems
  PROVE  ~Settles(d)
<1>1. mode \in Modes
  BY DEF RevalidationInv, StateInv
<1>2. calls'[d].mems = calls[d].mems
  BY <1>1, AfterWriteOK
<1> QED
  BY <1>2 DEF Settles, IsIdle

LEMMA CurrentRecordStep ==
  RevalidationInv /\ [Next]_vars =>
    \A d \in Calls : Settles(d) => \A m \in calls[d].changed : status'[m] = status[m]
<1> SUFFICES ASSUME RevalidationInv, [Next]_vars, NEW d \in Calls, Settles(d),
                    NEW m \in calls[d].changed
             PROVE  status'[m] = status[m]
  OBVIOUS
<1>1. calls \in [Calls -> CallType] /\ \A c \in Calls : CallOK(calls[c])
  BY DEF RevalidationInv, CallsInv
<1>2. CASE UNCHANGED status
  BY <1>2
<1>3. ASSUME NEW c \in Calls, Commit(c)
      PROVE  status'[m] = status[m]
  <2>1. /\ status' = [x \in Memories |-> IF x \in Applied(calls[c])
                        THEN Selected(calls[c], x) ELSE status[x]]
        /\ calls' = AfterWrite([calls EXCEPT ![c] = Idle], Applied(calls[c]))
    BY <1>3, CommitWrites
  <2>2. Applied(calls[c]) \in SUBSET Memories /\ Applied(calls[c]) \cap calls[c].changed = {}
    BY <1>1, AppliedIsUnchanged, MemsOfType DEF CallType
  <2>3. d = c
    <3> SUFFICES ASSUME d # c PROVE FALSE
      OBVIOUS
    <3>1. PICK cs : cs = [calls EXCEPT ![c] = Idle]
      OBVIOUS
    <3>2. cs \in [Calls -> CallType] /\ \A e \in Calls : CallOK(cs[e])
      BY <3>1, <1>1, IdleOK DEF CallOK
    <3>3. cs[d].mems = calls[d].mems /\ calls' = AfterWrite(cs, Applied(calls[c]))
      BY <2>1, <3>1, <1>1
    <3> QED
      BY <2>2, <3>2, <3>3, NoneSettles
  <2>4. m \in Memories
    BY <1>1 DEF CallType
  <2> QED
    BY <2>1, <2>2, <2>3, <2>4
<1>4. ASSUME NEW x \in Memories, RevalidateBare(x) \/ \E st \in Statuses : Replace(x, st)
      PROVE  status'[m] = status[m]
  <2>1. calls' = AfterWrite(calls, {x}) \/ calls' = calls
    BY <1>4 DEF RevalidateBare, Replace
  <2>2. {x} \in SUBSET Memories
    OBVIOUS
  <2> QED
    BY <2>1, <2>2, <1>1, NoneSettles
<1>5. ASSUME NEW S \in SUBSET Sources, SignalSourcesChanged(S)
      PROVE  status'[m] = status[m]
  <2>1. PICK cs : cs = OutdatedCalls(S)
    OBVIOUS
  <2>2. calls' = AfterWrite(cs, Staled(Affected(S)))
    BY <2>1, <1>5 DEF SignalSourcesChanged, OutdatedCalls
  <2>3. /\ cs \in [Calls -> CallType]
        /\ \A c \in Calls : CallOK(cs[c]) /\ cs[c].mems = calls[c].mems
    BY <2>1, SignalCalls
  <2>4. Staled(Affected(S)) \in SUBSET Memories
    BY DEF Staled, Affected, DependentClosure
  <2> QED
    BY <2>2, <2>3, <2>4, NoneSettles
<1>6. ASSUME NEW c \in Calls,
             \/ \E x \in Memories : Revalidate(c, x)
             \/ \E mems \in Batches : RevalidateMany(c, mems)
             \/ NextEvidence(c)
      PROVE  UNCHANGED status
  BY <1>6 DEF Revalidate, RevalidateMany, NextEvidence
<1>7. ASSUME NEW f \in flights, ValidatorObserves(f) \/ FlightSettles(f)
      PROVE  UNCHANGED status
  BY <1>7 DEF ValidatorObserves, FlightSettles
<1>8. ASSUME StreamRepair \/ \E s \in Sources : ReceiptExpires(s)
      PROVE  UNCHANGED status
  BY <1>8 DEF StreamRepair, ReceiptExpires
<1> QED
  BY <1>2, <1>3, <1>4, <1>5, <1>6, <1>7, <1>8 DEF Next, vars

(* A revalidation that ends, by its commit or by a rejection, leaves every  *)
(* record as it is that was written after the call read it, on a store with *)
(* compare-and-swap and on one that only has a revision                     *)
(* (putAndAppendIfUnchanged, assertRecordUnchanged).                        *)
THEOREM CommitsOnCurrentRecordTheorem == Spec => CommitsOnCurrentRecord
<1>1. RevalidationInv /\ [Next]_vars =>
        [\A c \in Calls : Settles(c) =>
           \A m \in calls[c].changed : status'[m] = status[m]]_vars
  BY CurrentRecordStep
<1> QED
  BY <1>1, RevalidationInvariance, PTL DEF Spec, CommitsOnCurrentRecord
=============================================================================
