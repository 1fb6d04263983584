--------------------------- MODULE FrontierEngine ---------------------------
(***************************************************************************)
(* IncrementalFrontierEngine (packages/runtime-core/src/                   *)
(* frontier-engine.ts): which dirty roots a node of the dependency graph   *)
(* suffers from, kept up to date root by root instead of computed by a     *)
(* walk.  A root that is resolved is only marked inactive; it is taken out *)
(* of a node when the node is looked at again, and brought back everywhere *)
(* when it is marked before that.                                          *)
(*                                                                         *)
(* Operations are synchronous, so each is one step.  An absent map entry   *)
(* is the status FRESH or the empty set.  The reverse edges are read off   *)
(* the graph, dirtyStates is written and never read, generations and work  *)
(* counters are left out: whether the work budget runs out is a choice of  *)
(* each operation.  While the engine is not trusted its index, which may   *)
(* then be half updated, is left out (EmptyIndex): no answer is read off   *)
(* it, every kept answer is Incomplete, and restoreStates, which alone     *)
(* regains trust, builds it anew.                                          *)
(* Calls that throw before they write (unknown or repeated ids, cycles,    *)
(* incomplete snapshots) are stuttering.                                   *)
(***************************************************************************)
EXTENDS Naturals, Sequences, FiniteSets, FiniteSetsExt, Functions, TLC

CONSTANTS Nodes,
          Dirty,           \* the statuses callers mark nodes with
          InitialGraphs,   \* the graphs engines are constructed with
          Edits,           \* pairs of a node and the dependencies it is given
          Snapshots,       \* the marks restoreStates is called with
          MaxChanges       \* bound on changes of the graph

Statuses == {"FRESH", "STALE", "UNKNOWN", "INVALID"}

ASSUME FrontierAssumption ==
  /\ IsFiniteSet(Nodes) /\ Dirty \subseteq Statuses \ {"FRESH"}
  /\ MaxChanges \in Nat

VARIABLES dependencies,          \* node -> the nodes it depends on
          directDirty,           \* node -> the status it was marked with
          index,                 \* the maintained state, see Indexes
          trusted,
          frontierBudgetExceeded,
          frontierCache,         \* node -> the last answer, where there is one
          changes                \* number of changes of the graph

vars == <<dependencies, directDirty, index, trusted, frontierBudgetExceeded,
          frontierCache, changes>>

Answers == [status : Statuses, frontier : SUBSET Nodes, complete : BOOLEAN]

(* activeDirtyRoots, activeFrontiers, dirtyNodesByRoot, the affected       *)
(* closures kept, the roots resolved and not yet taken out everywhere, the *)
(* number of nodes that hold a root and, of a resolved root, still hold it. *)
Indexes ==
  [roots : [Nodes -> [Nodes -> Statuses]], frontiers : [Nodes -> SUBSET Nodes],
   nodesByRoot : [Nodes -> SUBSET Nodes], closures : [Nodes -> SUBSET Nodes],
   inactive : SUBSET Nodes,
   entries : [Nodes -> 0 .. Cardinality(Nodes)],
   inactiveEntries : [Nodes -> 0 .. Cardinality(Nodes)]]

TypeOK ==
  /\ DOMAIN dependencies \subseteq Nodes
  /\ \A n \in DOMAIN dependencies : dependencies[n] \subseteq DOMAIN dependencies
  /\ directDirty \in [Nodes -> Statuses] /\ index \in Indexes
  /\ trusted \in BOOLEAN /\ frontierBudgetExceeded \in BOOLEAN
  /\ DOMAIN frontierCache \subseteq Nodes
  /\ \A n \in DOMAIN frontierCache : frontierCache[n] \in Answers
  /\ changes \in 0 .. MaxChanges

NoRoots == [n \in Nodes |-> {}]

Fresh == [n \in Nodes |-> "FRESH"]

NoEntries == [n \in Nodes |-> 0]

EmptyIndex ==
  [roots |-> [n \in Nodes |-> Fresh], frontiers |-> NoRoots,
   nodesByRoot |-> NoRoots, closures |-> NoRoots, inactive |-> {},
   entries |-> NoEntries, inactiveEntries |-> NoEntries]

NoAnswers == <<>>

With(f, n, v) == [m \in Nodes |-> IF m = n THEN v ELSE f[m]]

Init ==
  /\ dependencies \in InitialGraphs
  /\ directDirty = Fresh /\ index = EmptyIndex
  /\ trusted = TRUE /\ frontierBudgetExceeded = FALSE
  /\ frontierCache = NoAnswers /\ changes = 0
-----------------------------------------------------------------------------
(* The graph.                                                              *)
Dependents(g, n) == {m \in DOMAIN g : n \in g[m]}

DescendantClosure(g, start) ==
  LET round[k \in 0 .. Cardinality(Nodes)] ==
        IF k = 0 THEN {start}
        ELSE round[k - 1] \cup UNION {Dependents(g, n) : n \in round[k - 1]}
  IN round[Cardinality(Nodes)]

Reaches(g, a, b) == a # b /\ b \in DescendantClosure(g, a)

Priority == [FRESH |-> 0, STALE |-> 1, UNKNOWN |-> 2, INVALID |-> 3]

StatusMax(a, b) == IF Priority[a] >= Priority[b] THEN a ELSE b

WorstOf(S) == FoldSet(StatusMax, "FRESH", S)
-----------------------------------------------------------------------------
(* Maintenance of the index.  g is the graph.                              *)
HeldRoots(roots) == {r \in Nodes : roots[r] # "FRESH"}

(* addFrontierRoot: a frontier holds no root that another of its roots     *)
(* reaches.                                                                *)
AddFrontierRoot(g, frontier, root) ==
  IF \E e \in frontier : e = root \/ Reaches(g, e, root) THEN frontier
  ELSE {e \in frontier : ~Reaches(g, root, e)} \cup {root}

WithRoots(g, frontier, S) ==
  FoldSet(LAMBDA r, f : AddFrontierRoot(g, f, r), frontier, S)

ComputeFrontier(g, roots, inactive) ==
  WithRoots(g, {}, HeldRoots(roots) \ inactive)

Less(k) == IF k = 0 THEN 0 ELSE k - 1

(* compactResolvedRoots: the roots resolved meanwhile leave node n; one    *)
(* that left its last node is forgotten.                                   *)
CompactResolvedRoots(g, x, n) ==
  LET gone   == HeldRoots(x.roots[n]) \cap x.inactive
      roots  == [r \in Nodes |-> IF r \in gone THEN "FRESH" ELSE x.roots[n][r]]
      active == [r \in Nodes |-> IF r \in gone THEN Less(x.entries[r]) ELSE x.entries[r]]
      still  == [r \in Nodes |-> IF r \in gone THEN Less(x.inactiveEntries[r])
                                 ELSE x.inactiveEntries[r]]
      clean  == {r \in gone : active[r] = 0 /\ still[r] = 0}
      Forget(f) == [r \in Nodes |-> IF r \in clean THEN {} ELSE f[r]]
  IN IF gone = {} THEN x
     ELSE [roots           |-> With(x.roots, n, roots),
           frontiers       |-> With(x.frontiers, n,
                                     ComputeFrontier(g, roots, x.inactive)),
           nodesByRoot     |-> Forget(x.nodesByRoot),
           closures        |-> Forget(x.closures),
           inactive        |-> x.inactive \ clean,
           entries         |-> active,
           inactiveEntries |-> still]

(* mergeDirtyState: the incoming roots that node n lacks, or holds with a  *)
(* lesser status.                                                          *)
Raised(x, n, incoming) ==
  {r \in HeldRoots(incoming) \ x.inactive :
     Priority[incoming[r]] > Priority[x.roots[n][r]]}


(* A node that is new to a root outdates the set kept for the root.        *)
StillKept(x, n, raised) ==
  [r \in Nodes |-> IF r \in raised /\ n \notin x.nodesByRoot[r] THEN {}
                   ELSE x.closures[r]]

MergeDirtyState(g, old, n, incoming) ==
  LET x      == CompactResolvedRoots(g, old, n)
      raised == Raised(x, n, incoming)
      roots  == [r \in Nodes |-> IF r \in raised THEN incoming[r] ELSE x.roots[n][r]]
      base   == IF x # old THEN ComputeFrontier(g, roots, x.inactive)
                ELSE x.frontiers[n]
  IN IF raised = {} THEN x
     ELSE [x EXCEPT
             !.roots        = With(x.roots, n, roots),
             !.frontiers    = With(x.frontiers, n,
                                   WithRoots(g, base, HeldRoots(incoming) \ x.inactive)),
             !.nodesByRoot  = [r \in Nodes |-> x.nodesByRoot[r] \cup (IF r \in raised THEN {n} ELSE {})],
             !.closures     = StillKept(x, n, raised),
             !.entries      = [r \in Nodes |->
                                 IF r \in raised /\ x.roots[n][r] = "FRESH"
                                 THEN x.entries[r] + 1 ELSE x.entries[r]]]

(* affectedFromRoots: the nodes known to hold one of the roots; of a       *)
(* single root the set is kept.                                            *)
AffectedFromRoots(x, S) ==
  {n \in Nodes : n \in S \/ \E r \in S :
     n \in (IF x.closures[r] # {} THEN x.closures[r] ELSE x.nodesByRoot[r])}

KeepClosure(x, S) ==
  IF Cardinality(S) # 1 THEN x
  ELSE [x EXCEPT !.closures = [r \in Nodes |->
          IF r \in S THEN AffectedFromRoots(x, S) ELSE x.closures[r]]]

(* propagateDirty.  A walk is the index, the nodes whose roots changed and *)
(* are still to be passed on, and the nodes met so far.                    *)
Merged(g, walk, n, incoming) ==
  LET changed == Raised(CompactResolvedRoots(g, walk.x, n), n, incoming) # {}
  IN [x        |-> MergeDirtyState(g, walk.x, n, incoming),
      queue    |-> IF changed THEN Append(walk.queue, n) ELSE walk.queue,
      affected |-> walk.affected \cup {n}]

Seed(g, walk, r, status) ==
  LET w == Merged(g, walk, r, With(Fresh, r, status))
  IN [w EXCEPT !.x = KeepClosure(w.x, {r}),
               !.affected = @ \cup AffectedFromRoots(w.x, {r})]

RECURSIVE Walk(_, _)
Walk(g, walk) ==
  IF walk.queue = <<>> THEN walk
  ELSE LET id == Head(walk.queue)
       IN Walk(g, FoldSet(LAMBDA d, w : Merged(g, w, d, w.x.roots[id]),
                          [walk EXCEPT !.queue = Tail(@)], Dependents(g, id)))

PropagateDirty(g, x, seeds, direct) ==
  Walk(g, FoldSet(LAMBDA r, w : Seed(g, w, r, direct[r]),
                  [x |-> x, queue |-> <<>>, affected |-> {}], seeds))

RebuildDirtyState(g, direct) ==
  PropagateDirty(g, EmptyIndex, HeldRoots(direct), direct).x

(* reactivateRoot: a root marked again before it was taken out everywhere. *)
ReactivateRoot(g, x, r, status) ==
  LET back  == x.nodesByRoot[r]
      roots == [n \in Nodes |-> IF n \in back THEN With(x.roots[n], r, status)
                                ELSE x.roots[n]]
  IN [x EXCEPT !.inactive = @ \ {r}, !.inactiveEntries = With(@, r, 0), !.roots = roots,
               !.entries = With(@, r, x.entries[r]
                              + Cardinality({n \in back : x.roots[n][r] = "FRESH"})),
               !.frontiers = [n \in Nodes |-> IF n \in back
                                THEN ComputeFrontier(g, roots[n], x.inactive \ {r})
                                ELSE x.frontiers[n]]]

Reactivated(g, x, S, direct) ==
  FoldSet(LAMBDA r, y : ReactivateRoot(g, y, r, direct[r]), x, S \cap x.inactive)
-----------------------------------------------------------------------------
(* failClosed: the budget was used up.                                     *)
FailClosed ==
  trusted' = FALSE /\ frontierBudgetExceeded' = TRUE /\ index' = EmptyIndex

(* What an operation leaves of the index.                                  *)
Maintains(new) ==
  \/ /\ index' = IF trusted THEN new ELSE EmptyIndex
     /\ UNCHANGED <<trusted, frontierBudgetExceeded>>
  \/ ~frontierBudgetExceeded /\ FailClosed

(* invalidateTargets; failing closed drops every answer. *)
InvalidateTargets(S) ==
  frontierCache' = IF frontierBudgetExceeded' /\ ~frontierBudgetExceeded THEN NoAnswers
                   ELSE Restrict(frontierCache, DOMAIN frontierCache \ S)

InvalidateAllCaches == frontierCache' = NoAnswers

Cyclic(g) == \E n \in DOMAIN g : \E d \in g[n] : d \in DescendantClosure(g, n)

WithDependencies(id, D) ==
  [n \in DOMAIN dependencies \cup D \cup {id} |->
     IF n = id THEN D ELSE IF n \in DOMAIN dependencies THEN dependencies[n] ELSE {}]

(* addNode, setDependencies; dependencies not seen before become nodes.    *)
SetDependencies(id, D) ==
  /\ changes < MaxChanges /\ id \notin D
  /\ ~Cyclic(WithDependencies(id, D))
  /\ dependencies' = WithDependencies(id, D)
  /\ Maintains(RebuildDirtyState(dependencies', directDirty))
  /\ InvalidateAllCaches
  /\ changes' = changes + 1
  /\ UNCHANGED directDirty

(* A node among its own dependencies is refused, after the unknown ones    *)
(* listed before it have become nodes.                                     *)
SetDependenciesOnItself(id, D) ==
  /\ changes < MaxChanges /\ id \notin D
  /\ dependencies' = [n \in DOMAIN dependencies \cup D |->
                        IF n \in DOMAIN dependencies THEN dependencies[n] ELSE {}]
  /\ changes' = changes + 1
  /\ UNCHANGED <<directDirty, index, trusted, frontierBudgetExceeded, frontierCache>>

RemoveNode(id) ==
  /\ changes < MaxChanges
  /\ id \in DOMAIN dependencies /\ Dependents(dependencies, id) = {}
  /\ dependencies' = Restrict(dependencies, DOMAIN dependencies \ {id})
  /\ directDirty' = [directDirty EXCEPT ![id] = "FRESH"]
  /\ Maintains(RebuildDirtyState(dependencies', directDirty'))
  /\ InvalidateAllCaches
  /\ changes' = changes + 1

(* markDirty changes nothing when every node is marked as badly already.   *)
IsNoop(D, s) ==
  \A n \in D : /\ directDirty[n] # "FRESH" /\ n \notin index.inactive
               /\ Priority[directDirty[n]] >= Priority[s]

Marked(D, s) ==
  [n \in Nodes |-> IF n \in D THEN StatusMax(directDirty[n], s) ELSE directDirty[n]]

MarkWalk(D, s) ==
  PropagateDirty(dependencies, Reactivated(dependencies, index, D, Marked(D, s)),
                 D, Marked(D, s))

(* The affected nodes markDirty reports, and whose answers it drops.       *)
AffectedByMark(D, s) ==
  IF IsNoop(D, s) THEN AffectedFromRoots(index, D)
  ELSE IF frontierBudgetExceeded THEN {} ELSE MarkWalk(D, s).affected

MarkDirty(D, s) ==
  /\ D # {} /\ D \subseteq DOMAIN dependencies
  /\ \/ /\ IsNoop(D, s)
        /\ Maintains(KeepClosure(index, D))
        /\ InvalidateTargets({})
        /\ UNCHANGED directDirty
     \/ /\ ~IsNoop(D, s)
        /\ directDirty' = Marked(D, s)
        /\ Maintains(MarkWalk(D, s).x)
        /\ InvalidateTargets(AffectedByMark(D, s))
  /\ UNCHANGED <<dependencies, changes>>

(* restoreStates, restoreTrustedSnapshot: the snapshot names every node.   *)
RestoreStates(states) ==
  /\ \A n \in Nodes \ DOMAIN dependencies : states[n] = "FRESH"
  /\ directDirty' = states
  /\ \/ /\ index' = RebuildDirtyState(dependencies, states)
        /\ trusted' = TRUE /\ frontierBudgetExceeded' = FALSE
     \/ FailClosed
  /\ InvalidateAllCaches
  /\ UNCHANGED <<dependencies, changes>>

ReplaceStatus(n, s) ==
  /\ n \in DOMAIN dependencies
  /\ directDirty' = [directDirty EXCEPT ![n] = s]
  /\ Maintains(RebuildDirtyState(dependencies, directDirty'))
  /\ InvalidateTargets(DescendantClosure(dependencies, n))
  /\ UNCHANGED <<dependencies, changes>>

(* markUnknown, restoreTrust *)
MarkUnknown ==
  /\ trusted' = FALSE /\ index' = EmptyIndex
  /\ InvalidateAllCaches
  /\ UNCHANGED <<dependencies, directDirty, frontierBudgetExceeded, changes>>

OnlyTheRoot(n) == {n}                 \* mutant: descendants keep their answers

(* The nodes whose answers a resolved root touches.                        *)
KnownAffected(n) == IF index.nodesByRoot[n] = {} THEN {n} ELSE index.nodesByRoot[n]

Deactivated(n) ==
  [index EXCEPT !.inactive = @ \cup {n},
                !.inactiveEntries = With(@, n, index.entries[n])]

(* resolve: a status UNKNOWN is no evidence and costs the engine its trust. *)
Resolve(n) ==
  /\ n \in DOMAIN dependencies /\ directDirty[n] # "FRESH"
  /\ IF directDirty[n] = "UNKNOWN" THEN MarkUnknown
     ELSE /\ directDirty' = [directDirty EXCEPT ![n] = "FRESH"]
          /\ Maintains(Deactivated(n))
          /\ InvalidateTargets(KnownAffected(n))
          /\ UNCHANGED <<dependencies, changes>>

Incomplete == [status |-> "UNKNOWN", frontier |-> {}, complete |-> FALSE]

Answer(x, n) ==
  [status   |-> WorstOf({x.roots[n][r] : r \in Nodes \ x.inactive}),
   frontier |-> x.frontiers[n], complete |-> TRUE]

(* frontier, status: a query without a kept answer takes resolved roots    *)
(* out of the node first.                                                  *)
Frontier(n) ==
  /\ n \in DOMAIN dependencies \ DOMAIN frontierCache
  /\ LET x == CompactResolvedRoots(dependencies, index, n)
         Keeps(a, cache) == frontierCache' = (n :> a) @@ cache
     IN \/ /\ ~trusted
           /\ Keeps(Incomplete, frontierCache)
           /\ UNCHANGED <<index, trusted, frontierBudgetExceeded>>
        \/ /\ trusted
           /\ Maintains(x)
           /\ IF trusted' THEN Keeps(Answer(x, n), frontierCache)
              ELSE Keeps(Incomplete, NoAnswers)
  /\ UNCHANGED <<dependencies, directDirty, changes>>

(* The set kept for a root is evicted to make room for other roots'.       *)
EvictClosure(r) ==
  /\ index.closures[r] # {}
  /\ index' = [index EXCEPT !.closures = With(@, r, {})]
  /\ UNCHANGED <<dependencies, directDirty, trusted, frontierBudgetExceeded,
                 frontierCache, changes>>

Next ==
  \/ MarkUnknown
  \/ \E e \in Edits : SetDependencies(e[1], e[2]) \/ SetDependenciesOnItself(e[1], e[2])
  \/ \E D \in SUBSET Nodes, s \in Dirty : MarkDirty(D, s)
  \/ \E states \in Snapshots : RestoreStates(states)
  \/ \E n \in Nodes :
       \/ RemoveNode(n) \/ Resolve(n) \/ Frontier(n) \/ EvictClosure(n)
       \/ \E s \in Dirty \cup {"FRESH"} : ReplaceStatus(n, s)

Spec == Init /\ [][Next]_vars
-----------------------------------------------------------------------------
(* What the answers should be, from the graph and the marks alone.  The    *)
(* least set with a node that is closed under dependents is what suffers   *)
(* from the node.                                                          *)
Below(n) ==
  {m \in DOMAIN dependencies :
     \A T \in SUBSET DOMAIN dependencies :
       n \in T /\ (\A t \in T : Dependents(dependencies, t) \subseteq T) => m \in T}

Blame(n) == {r \in DOMAIN dependencies : directDirty[r] # "FRESH" /\ n \in Below(r)}

TrueAnswer(n) ==
  [status   |-> WorstOf({directDirty[r] : r \in Blame(n)}),
   frontier |-> {r \in Blame(n) : \A q \in Blame(n) \ {r} : r \notin Below(q)},
   complete |-> TRUE]

FrontierIsExact ==
  \A n \in DOMAIN dependencies :
    LET now == IF n \in DOMAIN frontierCache THEN frontierCache[n]
               ELSE Answer(CompactResolvedRoots(dependencies, index, n), n)
    IN IF trusted THEN now = TrueAnswer(n)
       ELSE n \in DOMAIN frontierCache => now = Incomplete

AffectedIsClosure ==
  trusted => \A D \in (SUBSET DOMAIN dependencies) \ {{}}, s \in Dirty :
               AffectedByMark(D, s) = UNION {Below(n) : n \in D}

(* A query is answered with exactly the worst status above the node and    *)
(* the topmost marked nodes above it, whether the answer was kept or is    *)
(* read off the index after any history of marks, resolutions and          *)
(* reactivations; an engine without trust answers UNKNOWN (frontier).      *)
(* Whatever is marked next, the affected nodes markDirty reports are the   *)
(* marked nodes and everything below them, walked or remembered.           *)
AnswersAreExact == FrontierIsExact /\ AffectedIsClosure
=============================================================================
