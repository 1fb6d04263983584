-------------------------- MODULE MCFrontierEngine --------------------------
(* Instances of FrontierEngine for TLC. *)
EXTENDS FrontierEngine

MCNodes == 1 .. 3

(* A chain, and a join whose third node is added later. *)
Chain == <<{}, {1}, {2}>>
Pair  == <<{}, {}>>

MCGraphs == {Chain, Pair}

(* They make a join or a triangle, cut the chain, close a cycle (refused). *)
MCEdits == {<<3, {1, 2}>>, <<2, {}>>, <<2, {1, 3}>>}

MCSnapshots == {Fresh, With(Fresh, 1, "STALE")}
=============================================================================
