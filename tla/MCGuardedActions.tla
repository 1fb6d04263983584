-------------------------- MODULE MCGuardedActions --------------------------
(***************************************************************************)
(* Agents that act through guarded tools and sessions, or the selection of *)
(* the context an agent is given.  Agents, tools, keys and actions are     *)
(* interchangeable.                                                        *)
(***************************************************************************)
EXTENDS GuardedActions, ContextEngine, TLC

VARIABLE part

(* Three candidates: chains, a missing parent and a cycle; texts below,    *)
(* at and above a chunk; a summary or none; equal and different keys;      *)
(* every freshness; budgets and limits that bite and that do not.          *)
Self(name) == <<name, "self">>
Nobody == <<"none", "none">>
Hierarchies ==
  {<<Nobody, Nobody, Nobody>>, <<Nobody, Self("c1"), Self("c1")>>,
   <<Nobody, Self("c1"), Self("c2")>>, <<Self("c3"), Self("c1"), Nobody>>,
   <<Self("c2"), Self("c1"), Self("gone")>>}
Gates == {[allowStale |-> FALSE, allowStaleSummaries |-> s, allowUnknown |-> s] : s \in BOOLEAN}
Limits == {<<9, 9>>, <<2, 9>>, <<9, 1>>}

Candidate(name, parent, kind, summary, text, key, topic, score, status, expired) ==
  [id |-> name, parent |-> parent, kind |-> kind, summary |-> summary, text |-> text,
   key |-> key, topic |-> topic, score |-> score, status |-> status, expired |-> expired]

MCRequests ==
  {[candidates |->
      <<Candidate("c1", parents[1], "detail", summary, <<3, 9>>, <<>>, "a", 1, "FRESH", expired),
        Candidate("c2", parents[2], kind, <<>>, text, key, "a", 2, status, FALSE),
        Candidate("c3", parents[3], "detail", <<>>, <<3>>, key, "b", score, "FRESH", FALSE)>>,
    budget |-> budget, maxChunks |-> limits[1], maxSources |-> limits[2],
    diverse |-> diverse, gate |-> gate] :
   parents \in Hierarchies, summary \in {<<>>, <<3>>}, expired \in BOOLEAN,
   kind \in {"summary", "detail"}, text \in {<<>>, <<3>>, <<9>>}, key \in {<<>>, <<0>>},
   status \in {"FRESH", "STALE", "INVALID", "UNKNOWN"}, score \in {1, 2},
   budget \in {0, 2, 5}, limits \in Limits, diverse \in BOOLEAN, gate \in Gates}

MCSymmetry == Permutations(Agents) \cup Permutations(Tools)
              \cup Permutations(Keys) \cup Permutations(Actions)

MCInit ==
  /\ Init /\ SelectInit
  /\ part \in {"actions"} \cup (IF client = "tool" THEN {"context"} ELSE {})
MCNext ==
  \/ part = "actions" /\ Next /\ UNCHANGED <<selection, part>>
  \/ part = "context" /\ SelectNext /\ UNCHANGED <<vars, part>>
MCSpec == MCInit /\ [][MCNext]_<<vars, selection, part>>
=============================================================================
