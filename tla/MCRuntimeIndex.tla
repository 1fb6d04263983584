--------------------------- MODULE MCRuntimeIndex ---------------------------
(* Instances of RuntimeIndex for TLC. *)
EXTENDS RuntimeIndex, TLC

(* Callers hand in records with at most one dependency: chains, forks,     *)
(* cycles and records that depend on themselves.  Other writers put        *)
(* records on the source or on one other record.                           *)
Fresh(src, deps) == [src |-> src, deps |-> deps, status |-> "FRESH"]

MCInputs == {Fresh(S, D) : S \in SUBSET Sources, D \in {{}} \cup {{m} : m \in Memories}}

MCOutsideInputs == {Fresh(Sources, {})} \cup {Fresh({}, {m}) : m \in Memories}

(* Snapshots: an empty one, and those with a chain of all memories, the    *)
(* first on all sources, each other one derived from its predecessor.      *)
Chains ==
  {R \in [Memories -> {[src |-> Sources, deps |-> {}, status |-> "FRESH"]}
                \cup {[src |-> {}, deps |-> {m}, status |-> "FRESH"] : m \in Memories}] :
     /\ \A m, n \in Memories : m # n => R[m].deps # R[n].deps
     /\ Cardinality(DependentClosure(DependencyIndexOf(R),
                                     {m \in Memories : R[m].deps = {}}))
          = Cardinality(Memories)}

MCSnapshots == {[m \in Memories |-> Absent]} \cup Chains

MemorySymmetry == Permutations(Memories)
=============================================================================
