---------------------------- MODULE ContextEngine ----------------------------
(***************************************************************************)
(* ContextEngine.select (packages/context-engine/src/index.ts): which      *)
(* pieces of which memories go into a prompt of limited size.  Candidates  *)
(* become sources (a memory with a summary two of them), sources become    *)
(* units of at most a chunk; units are gated by freshness, placed in the   *)
(* hierarchy, freed of duplicates, ordered, and taken one by one.  Every   *)
(* unit is selected or skipped for a stated reason.                        *)
(*                                                                         *)
(* select is synchronous: one step.  A text is the sequence of the lengths *)
(* of its words, so equal sequences are equal texts; tokens are those of   *)
(* defaultTokenEstimator.  Candidates that bring their own chunks are left *)
(* out.                                                                    *)
(***************************************************************************)
EXTENDS Naturals, Sequences, FiniteSets, SequencesExt, FiniteSetsExt

CONSTANT Requests   \* [candidates, budget, maxChunks, maxSources, diverse, gate]

Texts == Seq(Nat)
SourceIds == STRING \X {"self", "summary"}
None == <<"none", "none">>      \* no parent
NoKey == <<>>                   \* no dedupeKey of its own

Candidates ==
  [id : STRING, parent : SourceIds \cup {None}, kind : {"summary", "detail"},
   summary : Texts, text : Texts, key : Texts, topic : STRING, score : Nat,
   status : {"FRESH", "STALE", "INVALID", "UNKNOWN"}, expired : BOOLEAN]
FreshnessGates == [allowStale : BOOLEAN, allowStaleSummaries : BOOLEAN, allowUnknown : BOOLEAN]

(* Requests with an id in them twice are refused before anything is done.  *)
ASSUME ContextAssumption ==
  /\ Requests \subseteq [candidates : Seq(Candidates), budget : Nat, maxChunks : Nat,
                         maxSources : Nat, diverse : BOOLEAN, gate : FreshnessGates]
  /\ \A r \in Requests : \A i, j \in DOMAIN r.candidates :
       r.candidates[i].id = r.candidates[j].id => i = j

VARIABLE selection

Idle == [done |-> FALSE]
SelectInit == selection = Idle
-----------------------------------------------------------------------------
(* Texts and tokens.                                                       *)
Plus(a, b) == a + b
Chars(text) == IF text = <<>> THEN 0 ELSE FoldLeft(Plus, Len(text) - 1, text)
Tokens(text) == (Chars(text) + 3) \div 4

(* Parts as long as a chunk may be, and the rest.                          *)
SplitOversizedWord(word, max) ==
  [i \in 1 .. (word + 4 * max - 1) \div (4 * max) |->
     <<Min({4 * max, word - (i - 1) * 4 * max})>>]

(* chunkText: words are joined while they fit.                             *)
Joined(max, x, word) ==
  LET closed == IF x.current = <<>> THEN x.chunks ELSE Append(x.chunks, x.current)
  IN IF Tokens(Append(x.current, word)) <= max
     THEN [x EXCEPT !.current = Append(@, word)]
     ELSE IF Tokens(<<word>>) <= max THEN [chunks |-> closed, current |-> <<word>>]
     ELSE [chunks |-> closed \o SplitOversizedWord(word, max), current |-> <<>>]

ChunkEnd(text, max) ==
  FoldLeft(LAMBDA x, word : Joined(max, x, word), [chunks |-> <<>>, current |-> <<>>], text)
ChunkText(text, max) ==
  LET end == ChunkEnd(text, max)
  IN IF end.current = <<>> THEN end.chunks ELSE Append(end.chunks, end.current)
-----------------------------------------------------------------------------
(* Sources and units.                                                      *)
SourceFrom(c, part, kind, parent, text) ==
  [id |-> <<c.id, part>>, kind |-> kind, parent |-> parent, text |-> text, key |-> c.key,
   topic |-> c.topic, score |-> c.score, status |-> c.status, expired |-> c.expired]

ExpandCandidate(c) ==
  IF c.kind = "summary" \/ c.summary = <<>>
  THEN <<SourceFrom(c, "self", c.kind, c.parent, c.text)>>
  ELSE <<SourceFrom(c, "summary", "summary", c.parent, c.summary),
         SourceFrom(c, "self", "detail", <<c.id, "summary">>, c.text)>>

Sources(r) == FlattenSeq([i \in DOMAIN r.candidates |-> ExpandCandidate(r.candidates[i])])

(* inspectSourceHierarchy: the depth below the root, or what is wrong.     *)
(* What has not reached a root in as many steps as there are sources is on *)
(* a cycle or below one.                                                   *)
ParentOf(sources) ==
  [x \in {s.id : s \in ToSet(sources)} |-> (CHOOSE s \in ToSet(sources) : s.id = x).parent]

Above(parent, seen) ==
  [x \in DOMAIN parent |->
     IF parent[x] = None THEN [depth |-> 0, issue |-> "none"]
     ELSE IF parent[x] \notin DOMAIN parent THEN [depth |-> 0, issue |-> "parent-missing"]
     ELSE IF seen[parent[x]].issue # "none" THEN [depth |-> 0, issue |-> seen[parent[x]].issue]
     ELSE [depth |-> seen[parent[x]].depth + 1, issue |-> "none"]]

InspectSourceHierarchy(sources, id) ==
  LET parent == ParentOf(sources)
      climbed[n \in 0 .. Len(sources)] ==
        IF n = 0 THEN [x \in DOMAIN parent |-> [depth |-> 0, issue |-> "hierarchy-cycle"]]
        ELSE Above(parent, climbed[n - 1])
  IN climbed[Len(sources)][id]

(* mutant: details are not set behind the summaries of their depth, nor a  *)
(* depth behind the one above it                                           *)
OnePhase(depth, kind) == 0
Phase(depth, kind) == 2 * depth + (IF kind = "summary" THEN 0 ELSE 1)

(* materializeUnits, and the hierarchy of every unit.                      *)
MaterializeUnits(sources, s, max) ==
  LET pieces    == IF s.text = <<>> THEN <<<<>>>> ELSE ChunkText(s.text, max)
      hierarchy == InspectSourceHierarchy(sources, s.id)
  IN [i \in DOMAIN pieces |->
        [source |-> s.id, kind |-> s.kind, parent |-> s.parent, topic |-> s.topic,
         score |-> s.score, status |-> s.status, expired |-> s.expired, text |-> pieces[i],
         tokens |-> Tokens(pieces[i]), key |-> IF s.key = NoKey THEN pieces[i] ELSE s.key,
         depth |-> hierarchy.depth, issue |-> hierarchy.issue,
         phase |-> Phase(hierarchy.depth, s.kind)]]

(* requestLimits: no chunk is larger than the budget.                      *)
ChunkSize(r) == Min({512, Max({1, r.budget})})

Units(r) ==
  LET sources == Sources(r)
  IN FlattenSeq([i \in DOMAIN sources |->
                   MaterializeUnits(sources, sources[i], ChunkSize(r))])
-----------------------------------------------------------------------------
(* gateUnit: why a unit may not be used at all.                            *)
GateUnit(u, gate) ==
  LET status == IF u.status = "FRESH" /\ u.expired THEN "STALE" ELSE u.status
  IN CASE u.text = <<>> -> "empty"
       [] u.text # <<>> /\ status = "INVALID" -> "invalid-freshness"
       [] u.text # <<>> /\ status = "STALE" /\ ~gate.allowStale
            /\ ~(gate.allowStaleSummaries /\ u.kind = "summary") ->
            IF u.expired THEN "expired" ELSE "stale"
       [] u.text # <<>> /\ status = "UNKNOWN" /\ ~gate.allowUnknown -> "unknown-freshness"
       [] OTHER -> u.issue

BetterDuplicate(us, i, j) ==
  LET a == us[i]
      b == us[j]
  IN \/ a.score > b.score
     \/ a.score = b.score /\ a.depth < b.depth
     \/ a.score = b.score /\ a.depth = b.depth /\ a.kind # b.kind /\ a.kind = "summary"
     \/ a.score = b.score /\ a.depth = b.depth /\ a.kind = b.kind /\ i < j

(* The loop that fills deduplicated.                                       *)
Met(us, gate, x, i) ==
  LET why  == GateUnit(us[i], gate)
      same == {k \in x.kept : us[k].key = us[i].key}
  IN IF why # "none" THEN [x EXCEPT !.why[i] = why]
     ELSE IF \E k \in same : ~BetterDuplicate(us, i, k)
     THEN [x EXCEPT !.why[i] = "duplicate"]
     ELSE [kept |-> (x.kept \ same) \cup {i},
           why  |-> [k \in DOMAIN us |-> IF k \in same THEN "duplicate" ELSE x.why[k]]]

Deduplicated(us, gate) ==
  FoldLeftDomain(LAMBDA x, i : Met(us, gate, x, i),
                 [kept |-> {}, why |-> [i \in DOMAIN us |-> "pending"]], us)

CompareUnits(us, i, j) ==
  LET a == us[i]
      b == us[j]
  IN \/ a.kind # b.kind /\ a.kind = "summary"
     \/ a.kind = b.kind /\ a.score > b.score
     \/ a.kind = b.kind /\ a.score = b.score /\ a.tokens < b.tokens
     \/ a.kind = b.kind /\ a.score = b.score /\ a.tokens = b.tokens /\ i < j

(* orderedUnits: by phase; within a phase best first, or topic by topic in *)
(* turns, the topic with the best unit first.                              *)
Group(us, kept, i) == {k \in kept : us[k].phase = us[i].phase /\ us[k].topic = us[i].topic}
Turn(us, kept, i) == Cardinality({k \in Group(us, kept, i) : CompareUnits(us, k, i)})
Best(us, kept, i) ==
  CHOOSE k \in Group(us, kept, i) :
    \A j \in Group(us, kept, i) \ {k} : CompareUnits(us, k, j)

Before(us, kept, diverse, i, j) ==
  \/ us[i].phase < us[j].phase
  \/ /\ us[i].phase = us[j].phase
     /\ IF ~diverse THEN CompareUnits(us, i, j)
        ELSE \/ Turn(us, kept, i) < Turn(us, kept, j)
             \/ /\ Turn(us, kept, i) = Turn(us, kept, j)
                /\ CompareUnits(us, Best(us, kept, i), Best(us, kept, j))

OrderedUnits(us, kept, diverse) ==
  LET Place(i) == Cardinality({k \in kept : Before(us, kept, diverse, k, i)})
  IN [n \in 1 .. Cardinality(kept) |-> CHOOSE i \in kept : Place(i) = n - 1]

(* The loop over the ordered units.  At maxChunks it ends, and what is     *)
(* left is skipped for that.                                               *)
Taken(us, r, x, i) ==
  LET u       == us[i]
      sources == {us[k].source : k \in ToSet(x.chosen)}
      why     == IF Len(x.chosen) >= r.maxChunks THEN "max-chunks"
                 ELSE IF u.parent # None /\ u.parent \notin sources THEN "parent-not-selected"
                 ELSE IF u.source \notin sources /\ Cardinality(sources) >= r.maxSources
                 THEN "max-sources"
                 ELSE IF u.tokens > r.budget - x.used THEN "budget" ELSE "selected"
  IN IF why # "selected" THEN [x EXCEPT !.why[i] = why]
     ELSE [why |-> [x.why EXCEPT ![i] = why], chosen |-> Append(x.chosen, i),
           used |-> x.used + u.tokens]

TakeInOrder(us, r, why, order) ==
  FoldLeft(LAMBDA x, i : Taken(us, r, x, i), [why |-> why, chosen |-> <<>>, used |-> 0], order)

Selection(r) ==
  LET us  == Units(r)
      ded == Deduplicated(us, r.gate)
      end == TakeInOrder(us, r, ded.why, OrderedUnits(us, ded.kept, r.diverse))
  IN [done |-> TRUE, request |-> r, units |-> us, why |-> end.why, chosen |-> end.chosen,
      used |-> end.used]

Select(r) == selection' = Selection(r)

SelectNext == ~selection.done /\ \E r \in Requests : Select(r)

SelectSpec == SelectInit /\ [][SelectNext]_selection
-----------------------------------------------------------------------------
(* The selection and the trace of a request, judged together when all is   *)
(* decided.                                                                *)

Chosen(i) == selection.why[i] = "selected"
SourceChosen(id) == \E i \in ToSet(selection.chosen) : selection.units[i].source = id

Total(us, T) == MapThenSumSet(LAMBDA i : us[i].tokens, T)

WithinLimits ==
  /\ selection.used <= selection.request.budget
  /\ selection.used = Total(selection.units, ToSet(selection.chosen))
  /\ Len(selection.chosen) <= selection.request.maxChunks
  /\ Cardinality({selection.units[i].source : i \in ToSet(selection.chosen)})
       <= selection.request.maxSources

(* A chosen unit comes after a chosen unit of its parent and is the only   *)
(* one with its key; summaries and details of a cycle are never chosen.    *)
ChosenInContext ==
  \A n \in DOMAIN selection.chosen :
    LET u == selection.units[selection.chosen[n]]
    IN /\ u.parent # None =>
            \E m \in 1 .. n - 1 : selection.units[selection.chosen[m]].source = u.parent
       /\ \A m \in DOMAIN selection.chosen \ {n} :
            selection.units[selection.chosen[m]].key # u.key
       /\ u.tokens <= ChunkSize(selection.request)

(* The reason a unit was skipped for still holds when all is decided.      *)
StillStands(i) ==
  LET u == selection.units[i]
      r == selection.request
  IN CASE selection.why[i] = "budget" -> u.tokens > r.budget - selection.used
       [] selection.why[i] = "max-chunks" -> Len(selection.chosen) = r.maxChunks
       [] selection.why[i] = "max-sources" -> ~SourceChosen(u.source)
       [] selection.why[i] = "parent-not-selected" -> ~SourceChosen(u.parent)
       [] selection.why[i] = "duplicate" ->
            \E k \in DOMAIN selection.units :
              /\ selection.why[k] # "duplicate" /\ selection.units[k].key = u.key
              /\ BetterDuplicate(selection.units, k, i)
       [] selection.why[i] = "pending" -> FALSE
       [] OTHER -> TRUE

(* A finished selection keeps the budget and the limits, shows a detail    *)
(* only below its selected parent, and explains every omission by a reason *)
(* that is true of the selection as it was returned: no unit was skipped   *)
(* for lack of something that was then chosen after it (select's order of  *)
(* phases, the loop over the ordered units).                               *)
SelectionIsJustified ==
  selection.done =>
    /\ WithinLimits /\ ChosenInContext
    /\ \A i \in DOMAIN selection.units : ~Chosen(i) => StillStands(i)
=============================================================================
