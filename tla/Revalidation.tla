---------------------------- MODULE Revalidation ----------------------------
(***************************************************************************)
(* PremiseRuntime.revalidate, revalidateMany, signalSourcesChanged and     *)
(* replace (packages/runtime-core/src/index.ts) on one runtime: validators *)
(* await while signals, replacements and other calls run.                  *)
(*                                                                         *)
(* A call reads its records once, asks a validator about every piece of    *)
(* evidence (through the receipt cache and the map of shared flights when  *)
(* a receiptScope is configured) and commits against the records it read.  *)
(* The graph is fixed; evidence versions are not distinguished, so a scope *)
(* is a source.  Every write and every validator run has a time stamp of   *)
(* its own: records written twice differ and event keys do not collide.    *)
(***************************************************************************)
EXTENDS Naturals, Sequences, FiniteSets

CONSTANTS Memories, Sources,
          Calls,          \* slots for concurrent revalidations
          EvidenceOf,     \* memory -> the sources of its evidence, in order
          DependsOn,      \* memory -> the memories it depends on
          Batches,        \* the id lists revalidateMany is called with
          Results,        \* what validators answer; THROWS is a rejection,
                          \* MISSING has the effect of CHANGED
          Modes,          \* the ways the runtime is built: sharing
                          \* (receiptScope and receiptCache are configured)
                          \* and cas (the store has putAndAppendIfUnchanged)
          MaxDisturbances \* bound on signals, replacements and lost receipts

ASSUME GraphAssumption ==
  /\ EvidenceOf \in [Memories -> Seq(Sources)]
  /\ DependsOn \in [Memories -> SUBSET Memories]
  /\ Batches \subseteq Seq(Memories)
  /\ Results \subseteq {"UNCHANGED", "CHANGED", "UNKNOWN", "THROWS"}
  /\ Modes \subseteq [sharing : BOOLEAN, cas : BOOLEAN]
  /\ MaxDisturbances \in Nat

VARIABLES mode,        \* how this runtime was built
          status,      \* memory -> validity.status of the stored record
          calls,       \* slot -> the revalidation running in it
          flights,     \* validationFlights, with the validator's progress
          receipts,    \* source -> the cached receipt of its scope
          settled,     \* history: what the last step asked for and applied
          disturbances \* number of disturbances so far

vars == <<mode, status, calls, flights, receipts, settled, disturbances>>

Sharing == mode.sharing
CasStore == mode.cas

Statuses == {"FRESH", "STALE", "INVALID", "UNKNOWN"}

SourcesOf(m) == {EvidenceOf[m][i] : i \in 1 .. Len(EvidenceOf[m])}
MemsOf(mems) == {mems[i] : i \in 1 .. Len(mems)}

(* A call: the ids asked for, those read as FRESH, the evidence still to    *)
(* ask for, what it waits for and has, the records written and whether any *)
(* record was written since it read them (the latter only matters to a     *)
(* store without compare-and-swap).                                        *)
Idle == [mems |-> <<>>, fresh |-> {}, todo |-> <<>>, wait |-> {}, got |-> {},
         changed |-> {}, moved |-> FALSE]

IsIdle(c) == calls[c].mems = <<>>

(* A flight is shared by scope or belongs to one piece of evidence of one  *)
(* call (the isolated: keys).                                              *)
Key(c, m, s) == IF Sharing THEN <<s>> ELSE <<c, m, s>>

Keys == {<<s>> : s \in Sources} \cup (Calls \X Memories \X Sources)

(* The field late (a signal for the source was processed after the         *)
(* validator observed it) is history.                                      *)
Waiting == [mem : Memories, src : Sources, key : Keys]
Answers == [mem : Memories, src : Sources, res : Results, late : BOOLEAN]

NothingSettled == [asked |-> {}, applied |-> {}]

(* Every call waits for a flight that exists, and no two flights share a   *)
(* key.                                                                    *)
TypeOK ==
  /\ mode \in Modes
  /\ status \in [Memories -> Statuses]
  /\ \A c \in Calls :
       /\ calls[c].wait \subseteq Waiting /\ calls[c].got \subseteq Answers
       /\ calls[c].changed \cup calls[c].fresh \subseteq MemsOf(calls[c].mems)
       /\ \A w \in calls[c].wait : \E f \in flights : f.key = w.key
  /\ flights \subseteq [key : Keys, src : Sources, res : Results \cup {"none"},
                        late : BOOLEAN, fenced : BOOLEAN]
  /\ \A f, g \in flights : f.key = g.key => f = g
  /\ receipts \in [Sources -> {"none", "current", "late"}]
  /\ settled \in [asked : SUBSET Memories, applied : SUBSET Memories]
  /\ disturbances \in 0 .. MaxDisturbances

Init ==
  /\ mode \in Modes
  /\ status \in [Memories -> Statuses]
  /\ calls = [c \in Calls |-> Idle]
  /\ flights = {}
  /\ receipts = [s \in Sources |-> "none"]
  /\ settled = NothingSettled
  /\ disturbances = 0
-----------------------------------------------------------------------------
(* What a write of the records W means for the calls under way: their      *)
(* snapshots of W are out of date, the store's revision has moved.         *)
AfterWrite(cs, W) ==
  [c \in Calls |->
     IF cs[c].mems = <<>> \/ W = {} THEN cs[c]
     ELSE [cs[c] EXCEPT !.changed = @ \cup (W \cap MemsOf(cs[c].mems)),
                        !.moved   = ~CasStore]]

(* invalidateRecordReceipts for the records M: their scopes leave the      *)
(* cache and receiptGeneration moves, which fences every flight.           *)
ReceiptsWithout(M) ==
  [s \in Sources |-> IF \E m \in M : s \in SourcesOf(m) THEN "none" ELSE receipts[s]]

BumpsGeneration(M) == Sharing /\ \E m \in M : SourcesOf(m) # {}

Fenced(fs, M) ==
  IF BumpsGeneration(M) THEN {[f EXCEPT !.fenced = TRUE] : f \in fs} ELSE fs

(* lookupReceipt serves only a record that was read as FRESH. *)
Cached(call, m, s) == Sharing /\ m \in call.fresh /\ receipts[s] # "none"

(* validateEvidence for the pairs P of a call in slot c: answer from the   *)
(* receipt cache, join the scope's flight, or start one.                   *)
Asking(c, call, P) ==
  LET hits   == {p \in P : Cached(call, p[1], p[2])}
      flying == P \ hits
      joins(p) == \E f \in flights : f.key = Key(c, p[1], p[2])
  IN /\ calls' = [calls EXCEPT ![c] =
          [call EXCEPT
             !.got  = @ \cup {[mem |-> p[1], src |-> p[2], res |-> "UNCHANGED",
                               late |-> receipts[p[2]] = "late"] : p \in hits},
             !.wait = @ \cup {[mem |-> p[1], src |-> p[2],
                               key |-> Key(c, p[1], p[2])] : p \in flying}]]
     /\ flights' = flights \cup
          {[key |-> Key(c, p[1], p[2]), src |-> p[2], res |-> "none",
            late |-> FALSE, fenced |-> FALSE] : p \in {q \in flying : ~joins(q)}}

(* A call reads its records when it starts. *)
Reading(mems) ==
  [Idle EXCEPT !.mems = mems, !.fresh = {m \in MemsOf(mems) : status[m] = "FRESH"}]

Free(c) == IsIdle(c) /\ \A f \in flights : f.key[1] # c

(* revalidate: evidence is awaited one piece after the other. *)
Revalidate(c, m) ==
  /\ Free(c) /\ EvidenceOf[m] # <<>>
  /\ Asking(c, [Reading(<<m>>) EXCEPT !.todo = Tail(EvidenceOf[m])],
            {<<m, Head(EvidenceOf[m])>>})
  /\ settled' = NothingSettled
  /\ UNCHANGED <<mode, status, receipts, disturbances>>

(* revalidateMany: all evidence of all records at once. *)
RevalidateMany(c, mems) ==
  /\ Free(c)
  /\ Asking(c, Reading(mems),
            {p \in MemsOf(mems) \X Sources : p[2] \in SourcesOf(p[1])})
  /\ settled' = NothingSettled
  /\ UNCHANGED <<mode, status, receipts, disturbances>>

(* revalidate of a record without evidence never awaits. *)
RevalidateBare(m) ==
  /\ EvidenceOf[m] = <<>>
  /\ status' = [status EXCEPT ![m] = "UNKNOWN"]
  /\ calls' = AfterWrite(calls, {m})
  /\ settled' = [asked |-> {m}, applied |-> {m}]
  /\ UNCHANGED <<mode, flights, receipts, disturbances>>
-----------------------------------------------------------------------------
(* The validator of flight f (external) reads the source, or fails. *)
ValidatorObserves(f) ==
  /\ f.res = "none"
  /\ \E r \in Results :
       flights' = (flights \ {f}) \cup {[f EXCEPT !.res = r]}
  /\ settled' = NothingSettled
  /\ UNCHANGED <<mode, status, calls, receipts, disturbances>>

StoresAlways(f) == Sharing /\ f.res = "UNCHANGED"   \* mutant: no generation check

(* The generation fence of validateEvidence. *)
MayStoreReceipt(f) == Sharing /\ f.res = "UNCHANGED" /\ ~f.fenced

LeaderOnly(f) ==                  \* mutant: the flight answers one caller only
  LET first == CHOOSE c \in Calls : \E w \in calls[c].wait : w.key = f.key
  IN [c \in Calls |->
        LET mine == {w \in calls[c].wait : w.key = f.key}
        IN IF mine = {} \/ c # first THEN calls[c]
           ELSE IF f.res = "THROWS" THEN Idle
           ELSE [calls[c] EXCEPT
                   !.wait = @ \ mine,
                   !.got  = @ \cup {[mem |-> w.mem, src |-> w.src, res |-> f.res,
                                     late |-> f.late] : w \in mine}]]

(* Everyone who waits for f gets its answer; a rejected validation rejects *)
(* the whole call.                                                         *)
Delivered(f) ==
  [c \in Calls |->
     LET mine == {w \in calls[c].wait : w.key = f.key}
     IN IF mine = {} THEN calls[c]
        ELSE IF f.res = "THROWS" THEN Idle
        ELSE [calls[c] EXCEPT
                !.wait = @ \ mine,
                !.got  = @ \cup {[mem |-> w.mem, src |-> w.src, res |-> f.res,
                                  late |-> f.late] : w \in mine}]]

(* The validator's promise settles: storeReceipt (whose own checks of the  *)
(* report may still refuse it), clean-up of the flight, the answers.       *)
FlightSettles(f) ==
  /\ f.res # "none"
  /\ flights' = flights \ {f}
  /\ \/ /\ MayStoreReceipt(f)
        /\ receipts' = [receipts EXCEPT ![f.src] =
                          IF f.late THEN "late" ELSE "current"]
     \/ UNCHANGED receipts
  /\ calls' = Delivered(f)
  /\ settled' = NothingSettled
  /\ UNCHANGED <<mode, status, disturbances>>

NextEvidence(c) ==
  /\ ~IsIdle(c) /\ calls[c].wait = {} /\ calls[c].todo # <<>>
  /\ Asking(c, [calls[c] EXCEPT !.todo = Tail(@)],
            {<<calls[c].mems[1], Head(calls[c].todo)>>})
  /\ settled' = NothingSettled
  /\ UNCHANGED <<mode, status, receipts, disturbances>>
-----------------------------------------------------------------------------
(* The report revalidate selects by priority, as the status it leads to.   *)
Selected(call, m) ==
  LET results == {a.res : a \in {b \in call.got : b.mem = m}}
  IN IF "CHANGED" \in results THEN "INVALID"
     ELSE IF "UNKNOWN" \in results \/ results = {} THEN "UNKNOWN"
     ELSE "FRESH"

NoCompare(call, i) == TRUE        \* mutant: neither compare-and-swap nor revision

ComparesRecord(call, i) ==        \* mutant: each record just before its write
  call.mems[i] \notin call.changed

(* May the i-th record be written?  putAndAppendIfUnchanged compares it    *)
(* with the record read; without it assertRecordUnchanged compared the     *)
(* store's revision before the first write.                                *)
Unchanged(call, i) ==
  IF CasStore THEN call.mems[i] \notin call.changed ELSE ~call.moved

(* applyValidation for each record in order: a report other than UNCHANGED *)
(* drops the record's receipts before the write is tried; the first record *)
(* that changed throws, and what was written stays.                        *)
Commit(c) ==
  LET call      == calls[c]
      n         == Len(call.mems)
      tried     == {i \in 1 .. n : \A j \in 1 .. (i - 1) : Unchanged(call, j)}
      written   == {i \in tried : Unchanged(call, i)}
      applied   == {call.mems[i] : i \in written}
      dropped   == {call.mems[i] :
                      i \in {j \in (IF CasStore THEN tried ELSE written) :
                               Selected(call, call.mems[j]) # "FRESH"}}
  IN /\ ~IsIdle(c) /\ call.wait = {} /\ call.todo = <<>>
     /\ status' = [m \in Memories |->
                     IF m \in applied THEN Selected(call, m) ELSE status[m]]
     /\ calls' = AfterWrite([calls EXCEPT ![c] = Idle], applied)
     /\ receipts' = IF Sharing THEN ReceiptsWithout(dropped) ELSE receipts
     /\ flights' = Fenced(flights, dropped)
     /\ settled' = [asked |-> MemsOf(call.mems), applied |-> applied]
     /\ UNCHANGED <<mode, disturbances>>
-----------------------------------------------------------------------------
(* dependentClosure: the least set that holds D and every dependent of a   *)
(* member.                                                                 *)
DependentClosure(D) ==
  {m \in Memories : \A X \in SUBSET Memories :
     /\ D \subseteq X
     /\ \A y \in Memories : DependsOn[y] \cap X # {} => y \in X
     => m \in X}

Affected(S) == DependentClosure({m \in Memories : SourcesOf(m) \cap S # {}})

(* INVALID and STALE records are passed over. *)
Staled(M) == {m \in M : status[m] \notin {"INVALID", "STALE"}}

Disturbs ==
  /\ disturbances < MaxDisturbances
  /\ disturbances' = disturbances + 1
  /\ settled' = NothingSettled
  /\ UNCHANGED mode

SignalSourcesChanged(S) ==
  LET affected == Affected(S)
      staled   == Staled(affected)
      outdate(a) == IF a.src \in S THEN [a EXCEPT !.late = TRUE] ELSE a
  IN /\ Disturbs
     /\ status' = [m \in Memories |-> IF m \in staled THEN "STALE" ELSE status[m]]
     /\ calls' = AfterWrite(
          [c \in Calls |-> [calls[c] EXCEPT !.got = {outdate(a) : a \in @}]],
          staled)
     /\ receipts' = [s \in Sources |->
          IF Sharing /\ \E m \in affected : s \in SourcesOf(m) THEN "none"
          ELSE IF s \in S /\ receipts[s] # "none" THEN "late" ELSE receipts[s]]
     /\ flights' = Fenced({IF f.res = "none" THEN f ELSE outdate(f) : f \in flights},
                          affected)

(* replace: the caller supplies a new observation.  A replay of the same   *)
(* replacement drops the receipts and writes nothing.                      *)
Replace(m, st) ==
  /\ Disturbs
  /\ receipts' = IF Sharing THEN ReceiptsWithout({m}) ELSE receipts
  /\ flights' = Fenced(flights, {m})
  /\ \/ UNCHANGED <<status, calls>>
     \/ /\ status' = [status EXCEPT ![m] = st]
        /\ calls' = AfterWrite(calls, {m})

(* A stream that needs a repair, or gets one, empties the receipt cache    *)
(* (streamRepairRequired, repairStreamFromSnapshot).                       *)
StreamRepair ==
  /\ Disturbs
  /\ receipts' = [s \in Sources |-> "none"]
  /\ flights' = {[f EXCEPT !.fenced = TRUE] : f \in flights}
  /\ UNCHANGED <<status, calls>>

(* A receipt runs out (receiptTtlMs) or is evicted (maxEntries). *)
ReceiptExpires(s) ==
  /\ Disturbs
  /\ receipts[s] # "none"
  /\ receipts' = [receipts EXCEPT ![s] = "none"]
  /\ UNCHANGED <<status, calls, flights>>

Next ==
  \/ \E c \in Calls :
       \/ \E m \in Memories : Revalidate(c, m)
       \/ \E mems \in Batches : RevalidateMany(c, mems)
       \/ NextEvidence(c)
       \/ Commit(c)
  \/ \E f \in flights : ValidatorObserves(f) \/ FlightSettles(f)
  \/ \E m \in Memories :
       \/ RevalidateBare(m)
       \/ \E st \in Statuses : Replace(m, st)
  \/ \E S \in (SUBSET Sources) \ {{}} : SignalSourcesChanged(S)
  \/ \E s \in Sources : ReceiptExpires(s)
  \/ StreamRepair

Spec == Init /\ [][Next]_vars

(* Every validator settles (an assumption: the runtime has no time limit   *)
(* of its own), and the continuation of a settled promise runs.            *)
Fairness ==
  /\ \A k \in Keys :
       WF_vars(\E f \in flights : f.key = k /\ (ValidatorObserves(f) \/ FlightSettles(f)))
  /\ \A c \in Calls : WF_vars(NextEvidence(c) \/ Commit(c))

FairSpec == Spec /\ Fairness
-----------------------------------------------------------------------------
(* Call c ends in this step. *)
Settles(c) == ~IsIdle(c) /\ IsIdle(c)'

(* A revalidation never writes over a change it did not see: a record that *)
(* a signal, a replacement or another call wrote after this call read it   *)
(* is left as it is (assertRecordUnchanged, putAndAppendIfUnchanged).      *)
CommitsOnCurrentRecord ==
  [][\A c \in Calls : Settles(c) =>
       \A m \in calls[c].changed : status'[m] = status[m]]_vars

(* A cached receipt never rests on an observation older than a signal for  *)
(* its source, although flights started before the signal settle later     *)
(* (the receiptGeneration fence of validateEvidence).                      *)
ReceiptsAreCurrent == \A s \in Sources : receipts[s] # "late"

(* On a store that only has a revision a batch is applied as a whole or    *)
(* not at all, whatever ran while its validators were awaited              *)
(* (revalidateMany compares before it applies any result).                 *)
BatchAllOrNothing == CasStore \/ settled.applied \in {{}, settled.asked}

(* The same on every store: validate every snapshot before applying any    *)
(* result (revalidateMany).                                                *)
EveryBatchAllOrNothing == settled.applied \in {{}, settled.asked}

(* Every revalidation settles, also when it follows a flight that another  *)
(* call started or when a validator rejects (sharedValidation's clean-up). *)
EveryCallSettles == \A c \in Calls : ~IsIdle(c) ~> IsIdle(c)

(* A record that is not FRESH pays a new validation: its call joins no     *)
(* flight whose observation of the source a signal has since overtaken     *)
(* (validateEvidence, sharedValidation).                                   *)
PaysNewValidation ==
  [][\A c \in Calls : \A w \in calls'[c].wait \ calls[c].wait :
       (\E f \in flights : f.key = w.key /\ f.late)
         => w.mem \in calls'[c].fresh]_vars

(* Only an observation newer than the last signal for its source makes a   *)
(* record FRESH again: a signal is not forgotten because it passes over    *)
(* records that are already STALE or INVALID while they are validated.     *)
FreshIsObserved ==
  [][\A c \in Calls : Settles(c) =>
       \A a \in calls[c].got :
         (status[a.mem] # "FRESH" /\ status'[a.mem] = "FRESH") => ~a.late]_vars
=============================================================================
