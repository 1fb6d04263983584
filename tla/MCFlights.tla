----------------------------- MODULE MCFlights ------------------------------
(***************************************************************************)
(* Shared validations as a deployment has them: coalesced in the process   *)
(* (FencedSingleFlight) or between processes through the table of          *)
(* PostgresFlight.  The flights that are not deployed stay as they began.  *)
(***************************************************************************)
EXTENDS FencedSingleFlight, SafeIntegers, TLC

CONSTANTS a1, a2, b1, v1, v2, r1,        \* scopes, versions, a resource
          PgScopes, Workers, Receipts
VARIABLES row, call, leads, granted, published, heard, where

P == INSTANCE PostgresFlight WITH Scopes <- PgScopes

(* Two queries for version v1 of a resource and one for version v2. *)
MCResourceOf == [s \in Scopes |-> r1]
MCVersionOf == [s \in Scopes |-> IF s = b1 THEN v2 ELSE v1]

(* A time-out and a signal that may fire, or one that has fired. *)
MCOptions == {[timer |-> TRUE, signal |-> "live"], [timer |-> FALSE, signal |-> "aborted"]}

(* The two queries are asked alike, so they may be exchanged. *)
MCSymmetry == Permutations(Callers) \cup Permutations({a1, a2})
              \cup Permutations(Workers) \cup Permutations(Receipts)

pgVars == <<row, call, leads, granted, published, heard>>

MCInit == where \in {"process", "postgres"} /\ Init /\ P!Init
MCNext ==
  \/ where = "process" /\ Next /\ UNCHANGED <<pgVars, where>>
  \/ where = "postgres" /\ P!Next /\ UNCHANGED <<vars, where>>
MCSpec == MCInit /\ [][MCNext]_<<vars, pgVars, where>>

(* A fencing token of the table has one receipt, whoever completes it.     *)
OneReceiptPerToken == P!OneReceiptPerToken

(* No answer of the table is older than what was there when it was asked.  *)
NothingOldIsUsed == P!NothingOldIsUsed
=============================================================================
