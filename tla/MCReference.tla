----------------------------- MODULE MCReference -----------------------------
(***************************************************************************)
(* The reference state machine, and the stores in which the runtime keeps  *)
(* receipts and absences.  They share no state; a behaviour is one of one  *)
(* of the two.                                                             *)
(***************************************************************************)
EXTENDS ReferenceProtocol, TLC

CONSTANTS Tenants, Resources, MaxEntries, MaxEntriesPerTenant, MaxIncarnation, StoreTime

VARIABLES part, kind, entries, tenantCounts, present, incarnation, era, time, lookup

storeVars == <<kind, entries, tenantCounts, present, incarnation, era, time, lookup>>

K == INSTANCE KnowledgeStores WITH MaxTime <- StoreTime

ASSUME StoresAreBounded == K!StoresAssumption

(* A memory backed by sources that never expires, and one backed by none   *)
(* that does.                                                              *)
MCEnvelopes == {[status |-> "FRESH", expires |-> Never, sources |-> Sources],
                [status |-> "FRESH", expires |-> 1, sources |-> {}]}
MCSymmetry == Permutations(Memories)

MCInit ==
  /\ part \in {"reference", "stores"}
  /\ Init /\ K!Init
  /\ part = "reference" => kind = "receipts"

MCNext ==
  /\ UNCHANGED part
  /\ \/ part = "reference" /\ Next /\ UNCHANGED storeVars
     \/ part = "stores" /\ K!Next /\ UNCHANGED vars

MCSpec == MCInit /\ [][MCNext]_<<part, vars, storeVars>>
-----------------------------------------------------------------------------
(* No sequence of insertions, replacements, expiries and evictions takes   *)
(* a cache past its limits or its counters off its entries                 *)
(* (receipt-cache.ts, negative-premises.ts).                               *)
LimitsHold == K!LimitsHold

(* An absence that a lookup answers with was observed since the resource   *)
(* last appeared (receipt-cache.ts, negative-premises.ts).                 *)
AbsenceIsRecent == K!AbsenceIsRecent
=============================================================================
