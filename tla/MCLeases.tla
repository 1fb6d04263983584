------------------------------ MODULE MCLeases ------------------------------
(***************************************************************************)
(* Validation leases as a deployment has them: the managers sit in front   *)
(* of the in-memory store or of the PostgreSQL table, never of both.  The  *)
(* clients of the store that is not deployed stay as they began.           *)
(***************************************************************************)
EXTENDS ValidationLease, TLC

CONSTANTS Clients                 \* connections to PostgreSQL
VARIABLES rows, pending, latest, inOrder, pgReply, pgTold, pgNewest, store

P == INSTANCE PostgresLease WITH reply <- pgReply, told <- pgTold, newest <- pgNewest

pgVars == <<rows, pending, latest, inOrder, pgReply, pgTold, pgNewest>>
MCSymmetry == Permutations(Owners) \cup Permutations(Managers) \cup Permutations(Clients)

MCInit == store \in {"memory", "postgres"} /\ Init /\ P!Init
MCNext ==
  \/ store = "memory" /\ Next /\ UNCHANGED <<pgVars, store>>
  \/ store = "postgres" /\ P!Next /\ UNCHANGED <<vars, store>>
MCSpec == MCInit /\ [][MCNext]_<<vars, pgVars, store>>

(* The table implements the lease contract as long as the instants of the  *)
(* connections reach it in order (validation-lease.ts of store-postgres).  *)
PostgresImplementsContract == P!ImplementsContract

(* Only the newest token of a scope is accepted by the table.              *)
OnlyNewestTokenAccepted == P!OnlyNewestTokenAccepted
=============================================================================
