-------------------------- MODULE DurabilityProofs --------------------------
(***************************************************************************)
(* The three places where a deployment keeps what it was told, for every   *)
(* value of the constants: the write-behind mirror, then the tables behind *)
(* it with backup and restore, then the journal on disk.                   *)
(*                                                                         *)
(* The mirror, whatever the number of records, events, pending tasks and   *)
(* callers of flush: what keeps it and the database together is the chain  *)
(* of dependencies. Of two pending tasks that write the same record, and   *)
(* of two that carry events or restore, the later one waits for the        *)
(* earlier one or for one between them. The statement that reaches the     *)
(* database is then the earliest pending one of each of its channels,      *)
(* whatever has been answered, has failed or was dropped before.           *)
(*                                                                         *)
(* The tables, with one writer of events at a time, as the mirror is:      *)
(* nothing beyond a cursor is confirmed and the numbers to come are above  *)
(* the committed ones, unless the shared sequence was set back behind the  *)
(* tenant; a backup carries with it that it was.                           *)
(*                                                                         *)
(* The journal: the lines count from one, and the running process has in   *)
(* its index what load would build from them.                              *)
(***************************************************************************)
EXTENDS MCDurability, FiniteSetTheorems, TLAPS

Writers(ts, r) == {t \in DOMAIN ts : r \in DOMAIN ts[t].records}
Eventful(ts) == {t \in DOMAIN ts : ts[t].kind # "put"}
Restores(ts) == {t \in DOMAIN ts : ts[t].kind = "restore"}
Unwritten(ts) == {t \in DOMAIN ts : ts[t].phase # "written"}

(* A later task of a channel waits for the earlier ones, directly or       *)
(* through a task of the channel between them.                             *)
Follows(ts, W) ==
  \A t, u \in W : t < u => \E v \in ts[u].deps \cap W : t <= v

(* The last task of a channel is the one the store remembers, or it was    *)
(* superseded by a restore.                                                *)
Remembered(W, final, restore) == /\ final = 0 \/ final \in W
                                 /\ \A t \in W : t <= final \/ t <= restore

(* What a task has yet to write it still has to write.                     *)
Kept(ts, us) ==
  \A t \in Unwritten(ts) :
    /\ t \in Unwritten(us)
    /\ us[t].kind = ts[t].kind /\ us[t].records = ts[t].records
    /\ ToSet(ts[t].events) \subseteq ToSet(us[t].events)

(* A value in the database d, the one in the mirror m, and the tasks U     *)
(* that have yet to write it.  Without a failure none of them is missing.  *)
Channel(d, m, U, failed) ==
  /\ d <= m
  /\ \A t \in U : d < t /\ t <= m
  /\ ~failed => m <= d \/ m \in U

TaskOK(x, t) ==
  /\ x \in Tasks
  /\ \A r \in DOMAIN x.records : x.records[r] = t
  /\ \A v \in x.deps : v < t
  /\ x.phase # "queued" => x.deps = {}
  /\ x.phase = "closed" => x.kind = "batch"
  /\ x.kind = "put" => x.events = <<>>
  /\ x.kind = "restore" => DOMAIN x.records = Records /\ x.events = <<>>
  /\ x.kind = "batch" => DOMAIN x.records = {} /\ Len(x.events) > 0

Shape ==
  /\ mirror \in Contents /\ db \in Contents /\ promised \in Contents
  /\ enqueued \in 0 .. MaxTasks
  /\ \A r \in Records : mirror.records[r] <= enqueued
  /\ mirror.epoch <= enqueued
  /\ Pending \subseteq 1 .. enqueued
  /\ \A t \in Pending : TaskOK(tasks[t], t)
  /\ tails \in [Records -> 0 .. enqueued]
  /\ {lastEventTask, restoreTask, eventBatch} \subseteq 0 .. enqueued
  /\ failure \in BOOLEAN
  /\ IsInjective(db.events)

(* What waits in ready, once, is what has no dependency left and has not   *)
(* started.                                                                *)
ReadyOK(ts, rd) ==
  /\ rd \in Seq(DOMAIN ts) /\ IsInjective(rd)
  /\ \A i \in DOMAIN rd : ts[rd[i]].phase = "queued" /\ ts[rd[i]].deps = {}
  /\ \A t \in DOMAIN ts : ts[t].phase = "queued" /\ ts[t].deps = {} =>
                          \E i \in DOMAIN rd : rd[i] = t

(* At most Concurrency tasks run, and that many while one waits in ready.  *)
Slots(ts, rd) ==
  /\ Cardinality(Started(ts)) <= Concurrency
  /\ rd # <<>> => Cardinality(Started(ts)) = Concurrency

(* A task before and after pump. *)
Same(x, y) ==
  /\ x.kind = y.kind /\ x.records = y.records /\ x.events = y.events
  /\ x.deps = y.deps /\ x.waits = y.waits
  /\ x.phase = y.phase \/ (y.phase = "queued" /\ x.phase = "started" /\ y.deps = {})

(* Dependencies are pending tasks; a record write waits for writes of      *)
(* records only, and so does a batch, for such as no event task behind the *)
(* batch precedes.                                                         *)
Waiting ==
  /\ \A t \in Pending : tasks[t].deps \subseteq Pending
  /\ \A t \in Pending : tasks[t].kind = "put" =>
       \A d \in tasks[t].deps : tasks[d].kind # "batch"
  /\ \A b \in Pending : \A w \in tasks[b].waits : w <= enqueued
  /\ \A b \in Pending : \A w \in tasks[b].waits \cap Pending :
       /\ tasks[w].kind # "batch"
       /\ \A u \in Eventful(tasks) : b < u => w < u
  /\ failure => \A t \in Pending : tasks[t].phase # "queued"
  /\ ~failure /\ eventBatch # 0 => \A u \in Eventful(tasks) : u <= eventBatch

Chains ==
  /\ \A r \in Records : Follows(tasks, Writers(tasks, r))
  /\ Follows(tasks, Eventful(tasks))
  /\ ~failure => /\ \A r \in Records : Remembered(Writers(tasks, r), tails[r], restoreTask)
                 /\ Remembered(Eventful(tasks), lastEventTask, restoreTask)
                 /\ restoreTask = 0 \/ restoreTask \in Restores(tasks)

(* The tasks whose events have yet to follow the last restore. *)
Current(ts, epoch) == {t \in Eventful(ts) \cap Unwritten(ts) : t >= epoch}

Values ==
  /\ \A r \in Records : Channel(db.records[r], mirror.records[r],
                                Writers(tasks, r) \cap Unwritten(tasks), failure)
  /\ Channel(db.epoch, mirror.epoch, Restores(tasks) \cap Unwritten(tasks), failure)
  /\ \A t \in Eventful(tasks) \cap Unwritten(tasks) :
       t < mirror.epoch => db.epoch < mirror.epoch
  /\ \A t \in Current(tasks, mirror.epoch) :
       \/ db.epoch = mirror.epoch
       \/ mirror.epoch \in Restores(tasks) \cap Unwritten(tasks)

Stands(i) == db.epoch = mirror.epoch /\ i <= Len(db.events)
Carries(x, e) == e \in ToSet(x.events)

(* The events of a task are the ones of the mirror behind position p, and  *)
(* what is before them is in the database or carried by earlier tasks.     *)
PlacedAt(t, p) ==
  /\ p + Len(tasks[t].events) <= Len(mirror.events)
  /\ \A a \in DOMAIN tasks[t].events : mirror.events[p + a] = tasks[t].events[a]
  /\ \A i \in 1 .. p : \/ Stands(i)
                       \/ \E u \in Current(tasks, mirror.epoch) :
                            u < t /\ Carries(tasks[u], mirror.events[i])

Log ==
  /\ IsInjective(mirror.events)
  /\ db.epoch = mirror.epoch =>
       /\ Len(db.events) <= Len(mirror.events)
       /\ \A i \in 1 .. Len(db.events) : db.events[i] = mirror.events[i]
  /\ \A t \in Current(tasks, mirror.epoch) :
       \E p \in 0 .. Len(mirror.events) : PlacedAt(t, p)
  /\ ~failure =>
       /\ \A i \in 1 .. Len(mirror.events) :
            \/ Stands(i)
            \/ \E u \in Current(tasks, mirror.epoch) : Carries(tasks[u], mirror.events[i])
       /\ eventBatch # 0 =>
            /\ eventBatch \in Current(tasks, mirror.epoch)
            /\ tasks[eventBatch].kind = "batch"
            /\ tasks[eventBatch].phase \in {"queued", "started"}
            /\ mirror.events # <<>>
            /\ tasks[eventBatch].events[Len(tasks[eventBatch].events)]
                 = mirror.events[Len(mirror.events)]

(* What a flush covers is in the database or a task it waits for brings it. *)
Coming(w, m) ==
  LET U == w \cap Unwritten(tasks)
  IN /\ \A r \in Records : \/ m.records[r] <= db.records[r]
                           \/ m.records[r] \in Writers(tasks, r) \cap U
     /\ m.epoch <= db.epoch \/ m.epoch \in Restores(tasks) \cap U
     /\ \A e \in ToSet(m.events) :
          \/ db.epoch > m.epoch
          \/ db.epoch = m.epoch /\ e \in ToSet(db.events)
          \/ \E t \in U : t >= m.epoch /\ Carries(tasks[t], e)

Flushes ==
  /\ flushing = [c \in Requests |-> flushing[c]]
  /\ \A c \in Requests :
       /\ flushing[c] \in [waits : SUBSET (1 .. enqueued), covers : SUBSET Contents]
       /\ flushing[c] # NoFlush => flushing[c].covers # {}
       /\ ~failure => \A m \in flushing[c].covers : Coming(flushing[c].waits, m)

Durable(x) ==
  \/ db.epoch > x.epoch
  \/ /\ db.epoch = x.epoch
     /\ \A r \in Records : db.records[r] >= x.records[r]
     /\ ToSet(x.events) \subseteq ToSet(db.events)

MirrorInv ==
  /\ Shape /\ ReadyOK(tasks, ready) /\ Slots(tasks, ready) /\ Waiting
  /\ Chains /\ Values /\ Log /\ Flushes
  /\ Durable(promised)
-----------------------------------------------------------------------------
(* Induction over the naturals, for a set in place of a predicate. *)
LEMMA LeastNat ==
  ASSUME NEW Z \in SUBSET Nat, Z # {}
  PROVE  \E x \in Z : \A y \in Z : x <= y
<1>1. PICK R : R = OpToRel(<, Nat)
  OBVIOUS
<1>2. IsWellFoundedOn(R, Nat)
  BY <1>1, NatLessThanWellFounded
<1>3. \A x, y \in Nat : y < x => <<y, x>> \in R
  BY <1>1 DEF OpToRel
<1>4. PICK x \in Z : \A y \in Z : ~(<<y, x>> \in R)
  BY <1>2, WFMin
<1>5. ASSUME NEW y \in Z PROVE x <= y
  <2>1. ~(<<y, x>> \in R)
    BY <1>4
  <2>2. ~(y < x)
    BY <2>1, <1>3
  <2> QED
    BY <2>2
<1> QED
  BY <1>5

LEMMA InductionOverNat ==
  ASSUME NEW S, 0 \in S, \A n \in Nat : n \in S => n + 1 \in S
  PROVE  Nat \subseteq S
<1>1. PICK bad : bad = Nat \ S
  OBVIOUS
<1> SUFFICES ASSUME bad # {} PROVE FALSE
  BY <1>1
<1>2. PICK x \in bad : \A y \in bad : x <= y
  BY <1>1, LeastNat
<1>3. x # 0 /\ x - 1 \in Nat /\ x - 1 \notin bad
  BY <1>1, <1>2
<1>4. (x - 1) + 1 \in S
  BY <1>1, <1>3
<1> QED
  BY <1>1, <1>3, <1>4

-----------------------------------------------------------------------------
(* The ready tasks of a settle, in the order of their numbers.             *)
LEMMA SortedExists ==
  ASSUME NEW n \in Nat, NEW S \in SUBSET (1 .. n)
  PROVE  \E s \in [1 .. Cardinality(S) -> S] :
           \A i, j \in 1 .. Cardinality(S) : i < j => s[i] < s[j]
<1> DEFINE G == {k \in Nat : \A Z \in SUBSET (1 .. k) :
                   \E s \in [1 .. Cardinality(Z) -> Z] :
                     \A i, j \in 1 .. Cardinality(Z) : i < j => s[i] < s[j]}
<1>1. 0 \in G
  <2> SUFFICES ASSUME NEW Z \in SUBSET (1 .. 0)
               PROVE  \E s \in [1 .. Cardinality(Z) -> Z] :
                        \A i, j \in 1 .. Cardinality(Z) : i < j => s[i] < s[j]
    OBVIOUS
  <2>0. Z = {}
    OBVIOUS
  <2>1. Cardinality(Z) = 0
    BY <2>0, FS_EmptySet
  <2>2. PICK s : s = [i \in 1 .. 0 |-> 0]
    OBVIOUS
  <2>3. s \in [1 .. 0 -> Z]
    BY <2>2
  <2>4. \A i, j \in 1 .. 0 : i < j => s[i] < s[j]
    OBVIOUS
  <2>5. \E z \in [1 .. 0 -> Z] : \A i, j \in 1 .. 0 : i < j => z[i] < z[j]
    BY <2>3, <2>4
  <2> QED
    BY <2>1, <2>5, Zenon
<1>2. ASSUME NEW k \in Nat, k \in G PROVE k + 1 \in G
  <2> SUFFICES ASSUME NEW Z \in SUBSET (1 .. k + 1)
               PROVE  \E s \in [1 .. Cardinality(Z) -> Z] :
                        \A i, j \in 1 .. Cardinality(Z) : i < j => s[i] < s[j]
    OBVIOUS
  <2>1. CASE k + 1 \notin Z
    <3>1. Z \in SUBSET (1 .. k)
      BY <2>1
    <3> QED
      BY <1>2, <3>1
  <2>2. CASE k + 1 \in Z
    <3>1. PICK R : R = Z \ {k + 1}
      OBVIOUS
    <3>2. R \in SUBSET (1 .. k)
      BY <3>1
    <3>3. IsFiniteSet(1 .. k + 1)
      BY FS_Interval
    <3>4. IsFiniteSet(Z)
      BY <3>3, FS_Subset
    <3>5. IsFiniteSet(R) /\ Cardinality(R) = Cardinality(Z) - 1
      BY <3>1, <3>4, <2>2, FS_RemoveElement
    <3>6. PICK a \in Nat : Cardinality(R) = a
      BY <3>5, FS_CardinalityType
    <3>7. PICK b \in Nat : Cardinality(Z) = b
      BY <3>4, FS_CardinalityType
    <3>8. b = a + 1
      BY <3>5, <3>6, <3>7
    <3>9. PICK s \in [1 .. a -> R] : \A i, j \in 1 .. a : i < j => s[i] < s[j]
      BY <1>2, <3>2, <3>6
    <3>10. PICK u : u = [i \in 1 .. b |-> IF i = b THEN k + 1 ELSE s[i]]
      OBVIOUS
    <3>11. u \in [1 .. b -> Z]
      BY <3>1, <3>8, <3>9, <3>10, <2>2
    <3>12. ASSUME NEW i \in 1 .. b, NEW j \in 1 .. b, i < j PROVE u[i] < u[j]
      <4>0. i \in 1 .. a /\ i # b
        BY <3>8, <3>12
      <4>1. u[i] = s[i] /\ s[i] \in 1 .. k
        BY <3>2, <3>9, <3>10, <4>0
      <4>2. CASE j = b
        BY <4>1, <4>2, <3>10
      <4>3. CASE j # b
        BY <4>0, <4>1, <4>3, <3>8, <3>9, <3>10, <3>12
      <4> QED
        BY <4>2, <4>3
    <3> QED
      BY <3>7, <3>11, <3>12
  <2> QED
    BY <2>1, <2>2
<1>3. Nat \subseteq G
  <2> HIDE DEF G
  <2> QED
    BY <1>1, <1>2, InductionOverNat
<1> QED
  BY <1>3

LEMMA AscendingFacts ==
  ASSUME NEW n \in Nat, NEW S \in SUBSET (1 .. n)
  PROVE  /\ Ascending(S) \in Seq(S) /\ IsInjective(Ascending(S))
         /\ \A t \in S : \E i \in DOMAIN Ascending(S) : Ascending(S)[i] = t
<1>0. IsFiniteSet(1 .. n)
  BY FS_Interval
<1>1. IsFiniteSet(S)
  BY <1>0, FS_Subset
<1>2. PICK k \in Nat : Cardinality(S) = k
  BY <1>1, FS_CardinalityType
<1>3. PICK s \in [1 .. k -> S] : \A i, j \in 1 .. k : i < j => s[i] < s[j]
  BY <1>2, SortedExists
<1>4. s \in SetToSeqs(S)
  <2>1. ASSUME NEW i \in 1 .. k, NEW j \in 1 .. k, i # j PROVE s[i] # s[j]
    <3>0. s[i] \in S /\ s[j] \in S
      BY <1>3
    <3>a. s[i] \in 1 .. n /\ s[j] \in 1 .. n
      BY <3>0
    <3>1. s[i] \in Nat /\ s[j] \in Nat
      BY <3>a
    <3>2. s[i] < s[j] \/ s[j] < s[i]
      BY <1>3, <2>1
    <3> QED
      BY <3>1, <3>2
  <2> QED
    BY <1>2, <1>3, <2>1 DEF SetToSeqs
<1>5. \A i, j \in DOMAIN s : i < j => s[i] < s[j]
  BY <1>3
<1>6. PICK u : u = Ascending(S)
  OBVIOUS
<1>7. u \in SetToSeqs(S)
  BY <1>4, <1>5, <1>6 DEF Ascending
<1>8. u \in [1 .. k -> S] /\ IsInjective(u)
  BY <1>7, <1>2 DEF SetToSeqs, IsInjective
<1>9. u \in Seq(S)
  BY <1>8
<1>10. u \in Surjection(1 .. k, S)
  <2>1. u \in Injection(1 .. k, S)
    BY <1>8 DEF Injection
  <2>2. IsFiniteSet(1 .. k) /\ Cardinality(1 .. k) = k
    BY FS_Interval
  <2> QED
    BY <1>1, <1>2, <2>1, <2>2, FS_Injection
<1>11. \A t \in S : \E i \in DOMAIN u : u[i] = t
  BY <1>8, <1>10 DEF Surjection
<1> QED
  BY <1>6, <1>8, <1>9, <1>11
-----------------------------------------------------------------------------
(* The states a list of events passes through.                             *)
Passes(X, old, more, f) ==
  /\ f \in [0 .. Len(more) -> Seq(X)] /\ f[0] = old
  /\ \A k \in 1 .. Len(more) : f[k] = Added(f[k - 1], more[k])
  /\ AddedAll(old, more) = f[Len(more)]

LEMMA AddedRun ==
  ASSUME NEW X, NEW old \in Seq(X), NEW more \in Seq(X)
  PROVE  \E f : Passes(X, old, more, f)
<1> DEFINE IsRun(f, n) ==
      f = [k \in 0 .. n |-> IF k = 0 THEN old ELSE Added(f[k - 1], more[k])]
<1> DEFINE G == {n \in Nat : n <= Len(more) =>
                   \E f \in [0 .. n -> Seq(X)] : IsRun(f, n)}
<1>1. 0 \in G
  <2>1. PICK f : f = [k \in 0 .. 0 |-> old]
    OBVIOUS
  <2>2. f \in [0 .. 0 -> Seq(X)]
    BY <2>1
  <2>3. f = [k \in 0 .. 0 |-> IF k = 0 THEN old ELSE Added(f[k - 1], more[k])]
    BY <2>1
  <2> QED
    BY <2>2, <2>3
<1>2. ASSUME NEW n \in Nat, n \in G PROVE n + 1 \in G
  <2> SUFFICES ASSUME n + 1 <= Len(more)
               PROVE  \E f \in [0 .. n + 1 -> Seq(X)] : IsRun(f, n + 1)
    <3>1. n + 1 \in Nat
      OBVIOUS
    <3> QED
      BY <3>1, Zenon
  <2>0. n <= Len(more)
    OBVIOUS
  <2>1. PICK g \in [0 .. n -> Seq(X)] : IsRun(g, n)
    BY <1>2, <2>0
  <2>2. PICK f : f = [k \in 0 .. n + 1 |-> IF k = n + 1 THEN Added(g[n], more[n + 1])
                                           ELSE g[k]]
    OBVIOUS
  <2>3. n + 1 \in 1 .. Len(more) /\ more[n + 1] \in X /\ g[n] \in Seq(X)
    BY <2>1
  <2>4. Added(g[n], more[n + 1]) \in Seq(X)
    BY <2>3 DEF Added
  <2>5. f \in [0 .. n + 1 -> Seq(X)]
    BY <2>1, <2>2, <2>4
  <2>6. ASSUME NEW k \in 0 .. n + 1
        PROVE  f[k] = IF k = 0 THEN old ELSE Added(f[k - 1], more[k])
    <3>1. CASE k = n + 1
      <4>1. f[k - 1] = g[n] /\ k - 1 = n
        BY <3>1, <2>2
      <4> QED
        BY <3>1, <4>1, <2>2
    <3>2. CASE k \in 1 .. n
      <4>1. k - 1 \in 0 .. n /\ k - 1 # n + 1 /\ k # n + 1 /\ k # 0
        BY <3>2
      <4>2. f[k] = g[k] /\ f[k - 1] = g[k - 1]
        BY <4>1, <2>2
      <4>3. g[k] = Added(g[k - 1], more[k])
        BY <2>1, <3>2, <4>1
      <4> QED
        BY <4>1, <4>2, <4>3
    <3>3. CASE k = 0
      <4>1. f[0] = g[0] /\ g[0] = old
        BY <2>1, <2>2
      <4> QED
        BY <3>3, <4>1
    <3> QED
      BY <3>1, <3>2, <3>3
  <2>7. f = [k \in 0 .. n + 1 |-> IF k = 0 THEN old ELSE Added(f[k - 1], more[k])]
    <3>1. PICK h : h = [k \in 0 .. n + 1 |-> IF k = 0 THEN old
                                             ELSE Added(f[k - 1], more[k])]
      OBVIOUS
    <3>2. \A k \in 0 .. n + 1 : h[k] = f[k]
      BY <2>6, <3>1
    <3>3. DOMAIN h = 0 .. n + 1 /\ DOMAIN f = 0 .. n + 1
      BY <3>1, <2>2
    <3>4. h = [k \in 0 .. n + 1 |-> h[k]] /\ f = [k \in 0 .. n + 1 |-> f[k]]
      BY <3>1, <2>5
    <3>5. h = f
      BY <3>2, <3>3, <3>4
    <3> QED
      BY <3>1, <3>5
  <2> QED
    BY <2>5, <2>7
<1>3. Nat \subseteq G
  <2> HIDE DEF G
  <2> QED
    BY <1>1, <1>2, InductionOverNat
<1>4. PICK N \in Nat : N = Len(more)
  OBVIOUS
<1>5. \E f \in [0 .. N -> Seq(X)] : IsRun(f, N)
  <2>1. N \in G /\ N <= Len(more)
    <3> HIDE DEF G
    <3> QED
      BY <1>3, <1>4
  <2> HIDE DEF IsRun
  <2> QED
    BY <2>1
<1>6. PICK f : f = CHOOSE g : IsRun(g, N)
  OBVIOUS
<1>7. IsRun(f, N)
  <2> HIDE DEF IsRun
  <2> QED
    BY <1>5, <1>6
<1>8. AddedAll(old, more) = f[N]
  BY <1>4, <1>6 DEF AddedAll
<1>9. PICK h \in [0 .. N -> Seq(X)] : IsRun(h, N)
  BY <1>5
<1>10. h[0] = old /\ \A k \in 1 .. N : h[k] = Added(h[k - 1], more[k])
  BY <1>9
<1>11. DOMAIN f = 0 .. N /\ f[0] = old
  BY <1>7
<1>12. \A k \in 1 .. N : f[k] = Added(f[k - 1], more[k])
  BY <1>7
<1>13. \A k \in 0 .. N : f[k] = h[k]
  <2> DEFINE E == {k \in Nat : k <= N => f[k] = h[k]}
  <2>1. 0 \in E
    BY <1>10, <1>11
  <2>2. ASSUME NEW k \in Nat, k \in E PROVE k + 1 \in E
    <3> SUFFICES ASSUME k + 1 <= N PROVE f[k + 1] = h[k + 1]
      OBVIOUS
    <3>1. f[k] = h[k] /\ k + 1 \in 1 .. N /\ (k + 1) - 1 = k
      BY <2>2
    <3> QED
      BY <3>1, <1>10, <1>12
  <2>3. Nat \subseteq E
    <3> HIDE DEF E
    <3> QED
      BY <2>1, <2>2, InductionOverNat
  <2> QED
    BY <2>3
<1>14. AddedAll(old, more) = h[N]
  BY <1>8, <1>13
<1>15. Passes(X, old, more, h)
  BY <1>4, <1>9, <1>10, <1>14 DEF Passes
<1> QED
  BY <1>15

LEMMA AppendHolds ==
  ASSUME NEW X, NEW s \in Seq(X), NEW x \in X
  PROVE  ToSet(Append(s, x)) = ToSet(s) \cup {x}
<1>1. PICK n \in Nat : n = Len(s)
  OBVIOUS
<1>2. PICK u : u = Append(s, x)
  OBVIOUS
<1>3. Len(u) = n + 1 /\ u[n + 1] = x /\ \A i \in 1 .. n : u[i] = s[i]
  BY <1>1, <1>2
<1>4. ToSet(s) = {s[i] : i \in 1 .. n}
  BY <1>1 DEF ToSet
<1>5. ToSet(u) = {u[i] : i \in 1 .. n + 1}
  BY <1>3 DEF ToSet
<1>6. 1 .. n + 1 = (1 .. n) \cup {n + 1}
  OBVIOUS
<1>7. ToSet(u) = {u[i] : i \in 1 .. n} \cup {u[n + 1]}
  BY <1>5, <1>6
<1>8. {u[i] : i \in 1 .. n} = {s[i] : i \in 1 .. n}
  BY <1>3
<1> QED
  BY <1>2, <1>3, <1>4, <1>7, <1>8

LEMMA AddedNothing ==
  ASSUME NEW X, NEW old \in Seq(X)
  PROVE  AddedAll(old, <<>>) = old
<1>1. <<>> \in Seq(X) /\ Len(<<>>) = 0
  OBVIOUS
<1>2. PICK f : Passes(X, old, <<>>, f)
  BY <1>1, AddedRun
<1> QED
  BY <1>1, <1>2 DEF Passes

(* Appending a list stores its events and keeps the others.                *)
LEMMA AddedAllHolds ==
  ASSUME NEW X, NEW old \in Seq(X), NEW more \in Seq(X)
  PROVE  /\ AddedAll(old, more) \in Seq(X)
         /\ ToSet(AddedAll(old, more)) = ToSet(old) \cup ToSet(more)
<1>1. PICK N \in Nat : N = Len(more)
  OBVIOUS
<1>2. PICK f \in [0 .. N -> Seq(X)] :
        /\ f[0] = old
        /\ \A k \in 1 .. N : f[k] = Added(f[k - 1], more[k])
        /\ AddedAll(old, more) = f[N]
  <2>1. PICK f : Passes(X, old, more, f)
    BY AddedRun
  <2>2. f \in [0 .. N -> Seq(X)] /\ \A k \in 1 .. N : f[k] = Added(f[k - 1], more[k])
    BY <1>1, <2>1 DEF Passes
  <2>3. f[0] = old /\ AddedAll(old, more) = f[N]
    BY <1>1, <2>1 DEF Passes
  <2> QED
    BY <2>2, <2>3
<1> DEFINE G == {k \in Nat : k <= N =>
                   ToSet(f[k]) = ToSet(old) \cup {more[a] : a \in 1 .. k}}
<1>3. 0 \in G
  <2>1. {more[a] : a \in 1 .. 0} = {}
    OBVIOUS
  <2> QED
    BY <1>2, <2>1
<1>4. ASSUME NEW k \in Nat, k \in G PROVE k + 1 \in G
  <2> SUFFICES ASSUME k + 1 <= N
               PROVE  ToSet(f[k + 1]) = ToSet(old) \cup {more[a] : a \in 1 .. k + 1}
    OBVIOUS
  <2>1. ToSet(f[k]) = ToSet(old) \cup {more[a] : a \in 1 .. k}
    BY <1>4
  <2>2. f[k + 1] = Added(f[k], more[k + 1])
    <3>1. k + 1 \in 1 .. N /\ (k + 1) - 1 = k
      OBVIOUS
    <3> QED
      BY <3>1, <1>2
  <2>3. PICK s \in Seq(X) : s = f[k]
    BY <1>2
  <2>4. PICK x \in X : x = more[k + 1]
    BY <1>1
  <2>5. ToSet(Added(s, x)) = ToSet(s) \cup {x}
    <3>1. CASE x \in ToSet(s)
      BY <3>1 DEF Added
    <3>2. CASE x \notin ToSet(s)
      <4>1. ToSet(Append(s, x)) = ToSet(s) \cup {x}
        BY AppendHolds
      <4> QED
        BY <3>2, <4>1 DEF Added
    <3> QED
      BY <3>1, <3>2
  <2>6. {more[a] : a \in 1 .. k + 1} = {more[a] : a \in 1 .. k} \cup {x}
    <3>1. 1 .. k + 1 = (1 .. k) \cup {k + 1}
      OBVIOUS
    <3> QED
      BY <3>1, <2>4
  <2> QED
    BY <2>1, <2>2, <2>3, <2>4, <2>5, <2>6
<1>5. Nat \subseteq G
  <2> HIDE DEF G
  <2> QED
    BY <1>3, <1>4, InductionOverNat
<1>6. ToSet(f[N]) = ToSet(old) \cup {more[a] : a \in 1 .. N}
  <2>1. N \in G
    <3> HIDE DEF G
    <3> QED
      BY <1>5
  <2>2. N <= N
    OBVIOUS
  <2> QED
    BY <2>1, <2>2, Zenon
<1>7. ToSet(more) = {more[a] : a \in 1 .. N}
  <2>1. DOMAIN more = 1 .. N
    BY <1>1
  <2> QED
    BY <2>1, Zenon DEF ToSet
<1> QED
  BY <1>2, <1>6, <1>7

LEMMA AppendKeepsDistinct ==
  ASSUME NEW X, NEW s \in Seq(X), IsInjective(s), NEW x \in X, x \notin ToSet(s)
  PROVE  IsInjective(Append(s, x))
<1>1. PICK n \in Nat : n = Len(s) /\ DOMAIN s = 1 .. n
  OBVIOUS
<1>2. PICK u : u = Append(s, x)
  OBVIOUS
<1>3. /\ DOMAIN u = 1 .. n + 1 /\ u[n + 1] = x
      /\ \A i \in 1 .. n : u[i] = s[i]
  BY <1>1, <1>2
<1>4. \A i \in 1 .. n : s[i] # x
  BY <1>1 DEF ToSet
<1>5. \A i, j \in 1 .. n : s[i] = s[j] => i = j
  BY <1>1, Zenon DEF IsInjective
<1>6. \A i \in 1 .. n + 1 : i \in 1 .. n \/ i = n + 1
  OBVIOUS
<1>7. \A i, j \in 1 .. n + 1 : u[i] = u[j] => i = j
  BY <1>3, <1>4, <1>5, <1>6, Zenon
<1>8. IsInjective(u)
  BY <1>3, <1>7, Zenon DEF IsInjective
<1> QED
  BY <1>2, <1>8

LEMMA AddedAllInjective ==
  ASSUME NEW X, NEW old \in Seq(X), IsInjective(old), NEW more \in Seq(X)
  PROVE  IsInjective(AddedAll(old, more))
<1>0. PICK f : Passes(X, old, more, f)
  BY AddedRun
<1>1. /\ f \in [0 .. Len(more) -> Seq(X)] /\ f[0] = old
      /\ \A k \in 1 .. Len(more) : f[k] = Added(f[k - 1], more[k])
      /\ AddedAll(old, more) = f[Len(more)]
  BY <1>0 DEF Passes
<1>2. ASSUME NEW s \in Seq(X), IsInjective(s), NEW x \in X PROVE IsInjective(Added(s, x))
  <2>1. CASE x \in ToSet(s)
    BY <2>1, <1>2 DEF Added
  <2>2. CASE x \notin ToSet(s)
    <3>1. IsInjective(Append(s, x))
      BY <2>2, <1>2, AppendKeepsDistinct, Zenon
    <3> QED
      BY <2>2, <3>1 DEF Added
  <2> QED
    BY <2>1, <2>2
<1> DEFINE G == {k \in Nat : k <= Len(more) => IsInjective(f[k])}
<1>3. 0 \in G
  BY <1>1
<1>4. ASSUME NEW k \in Nat, k \in G PROVE k + 1 \in G
  <2> SUFFICES ASSUME k + 1 <= Len(more) PROVE IsInjective(f[k + 1])
    OBVIOUS
  <2>1. k + 1 \in 1 .. Len(more) /\ k \in 0 .. Len(more) /\ more[k + 1] \in X
        /\ (k + 1) - 1 = k
    OBVIOUS
  <2>2. f[k + 1] = Added(f[k], more[k + 1]) /\ f[k] \in Seq(X)
    BY <1>1, <2>1
  <2>3. IsInjective(f[k])
    BY <1>4, <2>1
  <2> QED
    BY <1>2, <2>1, <2>2, <2>3
<1>5. Nat \subseteq G
  <2> HIDE DEF G
  <2> QED
    BY <1>3, <1>4, InductionOverNat
<1> QED
  BY <1>1, <1>5

(* Appending the events M[p + 1], M[p + 2], ... to the first n events of a *)
(* list M without repetitions, p <= n, gives the first events of M again.  *)
Opens(s, M) == Len(s) <= Len(M) /\ \A i \in 1 .. Len(s) : s[i] = M[i]
LiesAt(s, M, p) == p + Len(s) <= Len(M) /\ \A a \in 1 .. Len(s) : M[p + a] = s[a]

LEMMA AddedAllExtends ==
  ASSUME NEW X, NEW M \in Seq(X), IsInjective(M),
         NEW old \in Seq(X), Opens(old, M),
         NEW more \in Seq(X), NEW p \in Nat, p <= Len(old), LiesAt(more, M, p)
  PROVE  /\ Opens(AddedAll(old, more), M)
         /\ Len(AddedAll(old, more)) = IF p + Len(more) > Len(old)
                                       THEN p + Len(more) ELSE Len(old)
<1>1. PICK N \in Nat : N = Len(more)
  OBVIOUS
<1>2. PICK f \in [0 .. N -> Seq(X)] :
        /\ f[0] = old
        /\ \A k \in 1 .. N : f[k] = Added(f[k - 1], more[k])
        /\ AddedAll(old, more) = f[N]
  <2>1. PICK f : Passes(X, old, more, f)
    BY AddedRun
  <2>2. f \in [0 .. N -> Seq(X)] /\ \A k \in 1 .. N : f[k] = Added(f[k - 1], more[k])
    BY <1>1, <2>1 DEF Passes
  <2>3. f[0] = old /\ AddedAll(old, more) = f[N]
    BY <1>1, <2>1 DEF Passes
  <2> QED
    BY <2>2, <2>3
<1>3. PICK n \in Nat : n = Len(old)
  OBVIOUS
<1>a. PICK L \in Nat : L = Len(M)
  OBVIOUS
<1>b. n <= L /\ \A i \in 1 .. n : old[i] = M[i]
  BY <1>3, <1>a DEF Opens
<1>c. p + N <= L /\ \A a \in 1 .. N : M[p + a] = more[a]
  BY <1>1, <1>a DEF LiesAt
<1>d. p <= n
  BY <1>3
<1>e. \A i, j \in 1 .. L : M[i] = M[j] => i = j
  <2>1. DOMAIN M = 1 .. L
    BY <1>a
  <2> QED
    BY <2>1, Zenon DEF IsInjective
<1> DEFINE Long(k) == IF p + k > n THEN p + k ELSE n
<1> DEFINE G == {k \in Nat : k <= N => /\ Len(f[k]) = Long(k)
                                       /\ \A i \in 1 .. Long(k) : f[k][i] = M[i]}
<1>4. 0 \in G
  BY <1>2, <1>3, <1>b, <1>d
<1>5. ASSUME NEW k \in Nat, k \in G PROVE k + 1 \in G
  <2> SUFFICES ASSUME k + 1 <= N
               PROVE  /\ Len(f[k + 1]) = Long(k + 1)
                      /\ \A i \in 1 .. Long(k + 1) : f[k + 1][i] = M[i]
    OBVIOUS
  <2>0. k \in 0 .. N
    OBVIOUS
  <2>1. PICK s \in Seq(X) : s = f[k]
    BY <1>2, <2>0
  <2>2. PICK l \in Nat : l = Long(k)
    OBVIOUS
  <2>3. Len(s) = l /\ \A i \in 1 .. l : s[i] = M[i]
    BY <1>5, <2>1, <2>2
  <2>4. f[k + 1] = Added(s, M[p + (k + 1)])
    <3>1. k + 1 \in 1 .. N /\ (k + 1) - 1 = k
      OBVIOUS
    <3> QED
      BY <3>1, <1>2, <1>c, <2>1
  <2>5. p + (k + 1) \in 1 .. L /\ M[p + (k + 1)] \in X
    BY <1>a, <1>c, SMTT(30)
  <2>6. l <= L
    BY <1>b, <1>c, <2>2
  <2>7. CASE p + (k + 1) <= l
    <3>1. l = n /\ Long(k + 1) = n
      BY <2>2, <2>7
    <3>2. s[p + (k + 1)] = M[p + (k + 1)] /\ p + (k + 1) \in 1 .. Len(s)
      BY <2>3, <2>5, <2>7
    <3>3. M[p + (k + 1)] \in ToSet(s)
      BY <3>2 DEF ToSet
    <3>4. f[k + 1] = s
      BY <2>4, <3>3 DEF Added
    <3> QED
      BY <2>3, <3>1, <3>4
  <2>8. CASE p + (k + 1) > l
    <3>0. ~(n >= p + (k + 1)) /\ l = p + k
      BY <1>3, <2>2, <2>8
    <3>1. l = p + k /\ Long(k + 1) = l + 1 /\ p + (k + 1) = l + 1
      BY <3>0, <1>3
    <3>2. M[l + 1] \notin ToSet(s)
      <4> SUFFICES ASSUME M[l + 1] \in ToSet(s) PROVE FALSE
        OBVIOUS
      <4>1. PICK i \in 1 .. l : s[i] = M[l + 1]
        BY <2>3 DEF ToSet
      <4>2. M[i] = M[l + 1] /\ i \in 1 .. L /\ l + 1 \in 1 .. L
        BY <4>1, <2>3, <2>5, <2>6, <3>1
      <4>3. i = l + 1
        BY <4>2, <1>e
      <4> QED
        BY <4>3
    <3>3. f[k + 1] = Append(s, M[l + 1])
      BY <2>4, <3>1, <3>2 DEF Added
    <3>4. Len(f[k + 1]) = l + 1
      BY <2>3, <3>3
    <3>5. \A i \in 1 .. l + 1 : f[k + 1][i] = M[i]
      BY <2>3, <3>3
    <3> QED
      BY <3>1, <3>4, <3>5
  <2>9. p + (k + 1) <= l \/ p + (k + 1) > l
    BY <2>2
  <2> QED
    BY <2>7, <2>8, <2>9, Zenon
<1>6. Nat \subseteq G
  <2> HIDE DEF G
  <2> QED
    BY <1>4, <1>5, InductionOverNat
<1>7. Len(f[N]) = Long(N) /\ \A i \in 1 .. Long(N) : f[N][i] = M[i]
  <2>1. N \in G
    <3> HIDE DEF G
    <3> QED
      BY <1>6
  <2>2. N <= N
    OBVIOUS
  <2> QED
    BY <2>1, <2>2, Zenon
<1>8. PICK d : d = f[N]
  OBVIOUS
<1>9. PICK m \in Nat : m = Long(N)
  OBVIOUS
<1>10. Len(d) = m /\ m <= L /\ \A i \in 1 .. m : d[i] = M[i]
  BY <1>7, <1>8, <1>9, <1>b, <1>c
<1>11. Opens(d, M)
  BY <1>10, <1>a DEF Opens
<1> QED
  BY <1>1, <1>2, <1>3, <1>8, <1>9, <1>10, <1>11
-----------------------------------------------------------------------------
(* pump starts the first ready tasks, as many as there are free writers.   *)
LEMMA PumpFacts ==
  ASSUME MirrorAssumption, NEW N \in Nat, NEW ts, DOMAIN ts \in SUBSET (1 .. N),
         \A t \in DOMAIN ts : ts[t] \in Tasks,
         NEW rd, ReadyOK(ts, rd), Cardinality(Started(ts)) <= Concurrency,
         Pump(ts, rd)
  PROVE  /\ DOMAIN tasks' = DOMAIN ts
         /\ \A t \in DOMAIN ts : tasks'[t] \in Tasks /\ Same(tasks'[t], ts[t])
         /\ ReadyOK(tasks', ready') /\ Slots(tasks', ready')
<1>1. PICK D : D = DOMAIN ts
  OBVIOUS
<1>2. IsFiniteSet(1 .. N)
  BY FS_Interval
<1>3. IsFiniteSet(D)
  BY <1>1, <1>2, FS_Subset
<1>4. PICK S : S = Started(ts)
  OBVIOUS
<1>5. S \in SUBSET D
  BY <1>1, <1>4 DEF Started
<1>6. IsFiniteSet(S)
  BY <1>3, <1>5, FS_Subset
<1>7. PICK s \in Nat : s = Cardinality(S)
  BY <1>6, FS_CardinalityType
<1>8. PICK C \in Nat : C = Concurrency
  BY DEF MirrorAssumption
<1>9. s <= C
  BY <1>4, <1>7, <1>8
<1>10. rd \in Seq(D) /\ \A i, j \in DOMAIN rd : rd[i] = rd[j] => i = j
  BY <1>1 DEF ReadyOK, IsInjective
<1>11. PICK l \in Nat : l = Len(rd) /\ DOMAIN rd = 1 .. l
  BY <1>10
<1>12. PICK n : n = IF C - s < l THEN C - s ELSE l
  OBVIOUS
<1>13. n \in Nat /\ n <= l /\ s + n <= C /\ (n < l => s + n = C)
  BY <1>9, <1>12
<1>14. PICK B : B = {rd[i] : i \in 1 .. n}
  OBVIOUS
<1>15. tasks' = [t \in D |-> IF t \in B THEN [ts[t] EXCEPT !.phase = "started"] ELSE ts[t]]
  BY <1>1, <1>4, <1>7, <1>8, <1>11, <1>12, <1>14, Zenon DEF Pump
<1>16. ready' = SubSeq(rd, n + 1, Len(rd))
  BY <1>1, <1>4, <1>7, <1>8, <1>11, <1>12, <1>14, Zenon DEF Pump
<1>17. \A t \in B : t \in D /\ ts[t].phase = "queued" /\ ts[t].deps = {}
  <2> SUFFICES ASSUME NEW t \in B
               PROVE  t \in D /\ ts[t].phase = "queued" /\ ts[t].deps = {}
    OBVIOUS
  <2>1. PICK i \in 1 .. n : rd[i] = t
    BY <1>14
  <2>2. i \in DOMAIN rd /\ rd[i] \in D
    BY <2>1, <1>10, <1>11, <1>13
  <2> QED
    BY <2>1, <2>2 DEF ReadyOK
<1>18. DOMAIN tasks' = D
  BY <1>15
<1>19. ASSUME NEW t \in D PROVE tasks'[t] \in Tasks /\ Same(tasks'[t], ts[t])
  <2>1. PICK x : x = ts[t]
    OBVIOUS
  <2>2. x \in Tasks
    BY <2>1, <1>1
  <2>3. CASE t \in B
    <3>1. tasks'[t] = [x EXCEPT !.phase = "started"]
      BY <2>1, <2>3, <1>15
    <3>2. x.phase = "queued" /\ x.deps = {}
      BY <2>1, <2>3, <1>17
    <3>3. PICK y : y = [x EXCEPT !.phase = "started"]
      OBVIOUS
    <3>4. y \in Tasks /\ y.kind = x.kind /\ y.records = x.records /\ y.events = x.events
          /\ y.deps = x.deps /\ y.waits = x.waits /\ y.phase = "started"
      BY <2>2, <3>3 DEF Tasks
    <3> QED
      BY <2>1, <3>1, <3>2, <3>3, <3>4 DEF Same
  <2>4. CASE t \notin B
    BY <2>1, <2>2, <2>4, <1>15 DEF Same
  <2> QED
    BY <2>3, <2>4
<1>20. PICK m \in Nat : m = l - n
  BY <1>13
<1>21. PICK R : R = ready'
  OBVIOUS
<1>22. Len(R) = m /\ DOMAIN R = 1 .. m /\ R \in Seq(D) /\ \A i \in 1 .. m : R[i] = rd[i + n]
  BY <1>10, <1>11, <1>13, <1>16, <1>20, <1>21
<1>23. ASSUME NEW i \in 1 .. m
       PROVE  tasks'[R[i]].phase = "queued" /\ tasks'[R[i]].deps = {}
  <2>1. i + n \in DOMAIN rd /\ R[i] = rd[i + n] /\ rd[i + n] \in D
    BY <1>10, <1>11, <1>20, <1>22, <1>13
  <2>2. R[i] \notin B
    <3> SUFFICES ASSUME R[i] \in B PROVE FALSE
      OBVIOUS
    <3>1. PICK k \in 1 .. n : rd[k] = R[i]
      BY <1>14
    <3>2. k \in DOMAIN rd
      BY <1>11, <1>13
    <3>3. k = i + n
      BY <2>1, <3>1, <3>2, <1>10
    <3> QED
      BY <3>3, <1>13
  <2>3. tasks'[R[i]] = ts[R[i]]
    BY <2>1, <2>2, <1>15
  <2> QED
    BY <2>1, <2>3, <1>1 DEF ReadyOK
<1>24. \A i, j \in DOMAIN R : R[i] = R[j] => i = j
  <2> SUFFICES ASSUME NEW i \in 1 .. m, NEW j \in 1 .. m, R[i] = R[j] PROVE i = j
    BY <1>22
  <2>1. i + n \in DOMAIN rd /\ j + n \in DOMAIN rd /\ rd[i + n] = rd[j + n]
    BY <1>11, <1>13, <1>20, <1>22
  <2>2. i + n = j + n
    BY <2>1, <1>10
  <2> QED
    BY <2>2, <1>13
<1>26. Started(tasks') = S \cup B
  <2>1. ASSUME NEW t \in D PROVE tasks'[t].phase # "queued" <=> t \in S \cup B
    <3>1. CASE t \in B
      <4>1. ts[t] \in Tasks /\ tasks'[t] = [ts[t] EXCEPT !.phase = "started"]
        BY <3>1, <1>1, <1>15
      <4>2. PICK x \in Tasks : x = ts[t]
        BY <4>1
      <4>3. [x EXCEPT !.phase = "started"].phase = "started"
        BY DEF Tasks
      <4> QED
        BY <3>1, <4>1, <4>2, <4>3
    <3>2. CASE t \notin B
      BY <3>2, <1>1, <1>4, <1>15 DEF Started
    <3> QED
      BY <3>1, <3>2
  <2>2. S \cup B \subseteq D
    BY <1>5, <1>17
  <2> QED
    BY <2>1, <2>2, <1>18 DEF Started
<1>27. IsFiniteSet(B) /\ Cardinality(B) = n
  <2>1. PICK f : f = [i \in 1 .. n |-> rd[i]]
    OBVIOUS
  <2>2. f \in Surjection(1 .. n, B)
    BY <2>1, <1>14 DEF Surjection
  <2>3. \A i, j \in 1 .. n : f[i] = f[j] => i = j
    BY <2>1, <1>10, <1>11, <1>13
  <2>4. f \in Injection(1 .. n, B)
    BY <2>2, <2>3 DEF Injection, Surjection, IsInjective
  <2>a. IsFiniteSet(1 .. n) /\ Cardinality(1 .. n) = IF 1 > n THEN 0 ELSE n - 1 + 1
    <3>1. 1 \in Int /\ n \in Int
      BY <1>13
    <3> QED
      BY <3>1, FS_Interval, Zenon
  <2>5. IsFiniteSet(1 .. n) /\ Cardinality(1 .. n) = n
    BY <1>13, <2>a
  <2> QED
    BY <2>2, <2>4, <2>5, FS_Surjection
<1>28. S \cap B = {}
  BY <1>4, <1>17 DEF Started
<1>29. Cardinality(S \cup B) = s + n
  <2>1. Cardinality(S \cap B) = 0
    BY <1>28, FS_EmptySet
  <2>2. Cardinality(S \cup B) = Cardinality(S) + Cardinality(B) - Cardinality(S \cap B)
    BY <1>6, <1>27, FS_Union
  <2> QED
    BY <2>1, <2>2, <1>7, <1>27, <1>13
<1>30. R # <<>> => n < l
  BY <1>13, <1>20, <1>22
<1>31. Slots(tasks', ready')
  BY <1>8, <1>13, <1>21, <1>26, <1>29, <1>30 DEF Slots
<1>32. ASSUME NEW i \in DOMAIN rd
       PROVE  tasks'[rd[i]].phase = "started" \/ \E j \in DOMAIN R : R[j] = rd[i]
  <2>1. CASE i \in 1 .. n
    <3>1. rd[i] \in B /\ rd[i] \in D
      BY <2>1, <1>14, <1>17
    <3>2. PICK x \in Tasks : x = ts[rd[i]]
      BY <3>1, <1>1
    <3>3. [x EXCEPT !.phase = "started"].phase = "started"
      BY DEF Tasks
    <3> QED
      BY <3>1, <3>2, <3>3, <1>15
  <2>2. CASE i \notin 1 .. n
    <3>1. i - n \in 1 .. m /\ (i - n) + n = i
      BY <2>2, <1>11, <1>13, <1>20
    <3> QED
      BY <3>1, <1>22
  <2> QED
    BY <2>1, <2>2
<1>33. ASSUME NEW t \in D, tasks'[t].phase = "queued", tasks'[t].deps = {}
       PROVE  \E j \in DOMAIN R : R[j] = t
  <2>1. ts[t].phase = "queued" /\ ts[t].deps = {}
    BY <1>19, <1>33 DEF Same
  <2>2. PICK i \in DOMAIN rd : rd[i] = t
    BY <2>1, <1>1 DEF ReadyOK
  <2> QED
    BY <2>2, <1>32, <1>33
<1>34. ReadyOK(tasks', ready')
  BY <1>18, <1>21, <1>22, <1>23, <1>24, <1>33 DEF ReadyOK, IsInjective
<1> QED
  BY <1>1, <1>18, <1>19, <1>31, <1>34
-----------------------------------------------------------------------------
(* The tasks us are the tasks ts and a new one, x, with the number n.      *)
Grown(ts, us, n, x) ==
  /\ n \notin DOMAIN ts /\ DOMAIN us = DOMAIN ts \cup {n}
  /\ \A t \in DOMAIN ts : us[t] \in Tasks /\ Same(us[t], ts[t])
  /\ us[n] \in Tasks /\ Same(us[n], x) /\ x.phase = "queued"

LEMMA EnqueueFacts ==
  ASSUME MirrorAssumption, Shape, ReadyOK(tasks, ready), Slots(tasks, ready),
         NEW x, TaskOK(x, enqueued + 1), x.phase = "queued", Enqueue(x)
  PROVE  /\ enqueued + 1 <= MaxTasks /\ enqueued' = enqueued + 1
         /\ Grown(tasks, tasks', enqueued + 1, x)
         /\ ReadyOK(tasks', ready') /\ Slots(tasks', ready')
         /\ \A t \in DOMAIN tasks' : TaskOK(tasks'[t], t)
<1>1. PICK e \in Nat : e = enqueued
  BY DEF MirrorAssumption, Shape
<1>2. PICK n \in Nat : n = e + 1
  OBVIOUS
<1>3. MaxTasks \in Nat
  BY DEF MirrorAssumption
<1>4. n <= MaxTasks /\ enqueued' = n
  BY <1>1, <1>2, <1>3 DEF Enqueue
<1>5. PICK D : D = DOMAIN tasks
  OBVIOUS
<1>6. D \subseteq 1 .. e /\ n \notin D
  BY <1>1, <1>2, <1>5 DEF Shape, Pending
<1>7. PICK ts : ts = [t \in D \cup {n} |-> IF t = n THEN x ELSE tasks[t]]
  OBVIOUS
<1>8. PICK rd : rd = IF x.deps = {} THEN Append(ready, n) ELSE ready
  OBVIOUS
<1>9. Pump(ts, rd)
  BY <1>1, <1>2, <1>5, <1>7, <1>8, Zenon DEF Enqueue, Pending
<1>10. DOMAIN ts = D \cup {n} /\ ts[n] = x /\ \A t \in D : ts[t] = tasks[t]
  BY <1>6, <1>7
<1>11. DOMAIN ts \in SUBSET (1 .. n)
  BY <1>2, <1>6, <1>10
<1>12. \A t \in DOMAIN ts : TaskOK(ts[t], t)
  BY <1>1, <1>2, <1>5, <1>10 DEF Shape, Pending
<1>13. \A t \in DOMAIN ts : ts[t] \in Tasks
  BY <1>12 DEF TaskOK
<1>14. ReadyOK(ts, rd)
  <2>1. PICK r : r = ready
    OBVIOUS
  <2>2. r \in Seq(D) /\ \A i, j \in DOMAIN r : r[i] = r[j] => i = j
    BY <2>1, <1>5 DEF ReadyOK, IsInjective
  <2>3. \A i \in DOMAIN r : tasks[r[i]].phase = "queued" /\ tasks[r[i]].deps = {}
    BY <2>1 DEF ReadyOK
  <2>4. \A t \in D : tasks[t].phase = "queued" /\ tasks[t].deps = {} =>
                     \E i \in DOMAIN r : r[i] = t
    BY <2>1, <1>5 DEF ReadyOK
  <2>5. PICK l \in Nat : l = Len(r) /\ DOMAIN r = 1 .. l
    BY <2>2
  <2>6. \A i \in 1 .. l : r[i] \in D /\ r[i] # n
    BY <2>2, <2>5, <1>6
  <2>7. CASE x.deps = {}
    <3>1. rd = Append(r, n)
      BY <2>1, <2>7, <1>8
    <3>2. rd \in Seq(D \cup {n}) /\ DOMAIN rd = 1 .. l + 1 /\ rd[l + 1] = n
          /\ \A i \in 1 .. l : rd[i] = r[i]
      <4>1. r \in Seq(D \cup {n})
        BY <2>2
      <4> QED
        BY <3>1, <2>5, <4>1
    <3>3. \A i \in 1 .. l + 1 : i \in 1 .. l \/ i = l + 1
      OBVIOUS
    <3>4. \A i, j \in DOMAIN rd : rd[i] = rd[j] => i = j
      BY <3>2, <3>3, <2>2, <2>5, <2>6
    <3>5. \A i \in DOMAIN rd : ts[rd[i]].phase = "queued" /\ ts[rd[i]].deps = {}
      <4> SUFFICES ASSUME NEW i \in 1 .. l + 1
                   PROVE  ts[rd[i]].phase = "queued" /\ ts[rd[i]].deps = {}
        BY <3>2
      <4>1. CASE i \in 1 .. l
        <5>1. rd[i] = r[i] /\ r[i] \in D /\ ts[r[i]] = tasks[r[i]]
          BY <4>1, <3>2, <2>6, <1>10
        <5> QED
          BY <4>1, <5>1, <2>3, <2>5
      <4>2. CASE i = l + 1
        BY <4>2, <3>2, <2>7, <1>10
      <4> QED
        BY <4>1, <4>2, <3>3
    <3>6. ASSUME NEW t \in DOMAIN ts, ts[t].phase = "queued", ts[t].deps = {}
          PROVE  \E i \in DOMAIN rd : rd[i] = t
      <4>1. CASE t = n
        <5>1. l + 1 \in DOMAIN rd
          BY <3>2
        <5> QED
          BY <4>1, <5>1, <3>2
      <4>2. CASE t # n
        <5>1. t \in D /\ ts[t] = tasks[t]
          BY <4>2, <1>10
        <5>2. PICK i \in 1 .. l : r[i] = t
          BY <5>1, <3>6, <2>4, <2>5
        <5>3. i \in DOMAIN rd /\ rd[i] = t
          BY <5>2, <3>2
        <5> QED
          BY <5>3
      <4> QED
        BY <4>1, <4>2
    <3> QED
      BY <1>10, <3>2, <3>4, <3>5, <3>6, Zenon DEF ReadyOK, IsInjective
  <2>8. CASE x.deps # {}
    <3>1. rd = r /\ r \in Seq(D \cup {n})
      BY <2>1, <2>2, <2>8, <1>8
    <3>2. \A i \in DOMAIN rd : ts[rd[i]].phase = "queued" /\ ts[rd[i]].deps = {}
      BY <3>1, <2>3, <2>5, <2>6, <1>10
    <3>3. \A t \in DOMAIN ts : ts[t].phase = "queued" /\ ts[t].deps = {} =>
                               \E i \in DOMAIN rd : rd[i] = t
      BY <3>1, <2>4, <2>8, <1>10
    <3> QED
      BY <1>10, <2>2, <3>1, <3>2, <3>3, Zenon DEF ReadyOK, IsInjective
  <2> QED
    BY <2>7, <2>8
<1>15. Cardinality(Started(ts)) <= Concurrency
  <2>1. Started(ts) = Started(tasks)
    BY <1>5, <1>10 DEF Started
  <2> QED
    BY <2>1 DEF Slots
<1>16. /\ DOMAIN tasks' = DOMAIN ts
       /\ \A t \in DOMAIN ts : tasks'[t] \in Tasks /\ Same(tasks'[t], ts[t])
       /\ ReadyOK(tasks', ready') /\ Slots(tasks', ready')
  BY <1>9, <1>11, <1>13, <1>14, <1>15, PumpFacts
<1>17. Grown(tasks, tasks', n, x)
  BY <1>5, <1>6, <1>10, <1>16 DEF Grown
<1>18. \A t \in DOMAIN tasks' : TaskOK(tasks'[t], t)
  BY <1>12, <1>16 DEF TaskOK, Same
<1> QED
  BY <1>1, <1>2, <1>4, <1>16, <1>17, <1>18

LEMMA GrownSets ==
  ASSUME NEW ts, NEW us, NEW n, NEW x, Grown(ts, us, n, x)
  PROVE  /\ \A r : Writers(us, r) = Writers(ts, r) \cup {t \in {n} : r \in DOMAIN x.records}
         /\ Eventful(us) = Eventful(ts) \cup {t \in {n} : x.kind # "put"}
         /\ Restores(us) = Restores(ts) \cup {t \in {n} : x.kind = "restore"}
         /\ Unwritten(us) = Unwritten(ts) \cup {n}
  BY DEF Grown, Same, Writers, Eventful, Restores, Unwritten

(* A channel to which a task is added that waits for the last of it.       *)
LEMMA FollowsGrows ==
  ASSUME NEW ts, NEW us, NEW n \in Nat, NEW x, Grown(ts, us, n, x),
         NEW W \in SUBSET Nat, W \subseteq DOMAIN ts, \A t \in W : t < n,
         NEW V, V = W \/ (V = W \cup {n} /\ \A t \in W : \E v \in x.deps \cap W : t <= v),
         Follows(ts, W)
  PROVE  Follows(us, V)
<1> SUFFICES ASSUME NEW t \in V, NEW u \in V, t < u
             PROVE  \E v \in us[u].deps \cap V : t <= v
  BY DEF Follows
<1>1. CASE u \in W
  <2>1. t \in W
    BY <1>1
  <2>2. PICK v \in ts[u].deps \cap W : t <= v
    BY <1>1, <2>1 DEF Follows
  <2>3. us[u].deps = ts[u].deps
    BY <1>1 DEF Grown, Same
  <2> QED
    BY <2>2, <2>3
<1>2. CASE u \notin W
  <2>1. u = n /\ t \in W
    BY <1>2
  <2>2. PICK v \in x.deps \cap W : t <= v
    BY <1>2, <2>1
  <2>3. us[n].deps = x.deps
    BY DEF Grown, Same
  <2> QED
    BY <2>1, <2>2, <2>3
<1> QED
  BY <1>1, <1>2

LEMMA GrownKept ==
  ASSUME NEW ts, NEW us, NEW n, NEW x, Grown(ts, us, n, x)
  PROVE  Kept(ts, us)
  BY DEF Grown, Same, Kept, Unwritten

LEMMA TaskIsOK ==
  ASSUME MirrorAssumption, Shape, enqueued + 1 <= MaxTasks,
         NEW kind \in {"put", "both", "batch", "restore"}, NEW R \in SUBSET Records,
         NEW es \in Seq(Events), NEW deps, NEW waits \in SUBSET Pending, NEW x,
         x = [kind |-> kind, records |-> [r \in R |-> enqueued + 1], events |-> es,
              deps |-> deps \cap Pending, waits |-> waits, phase |-> "queued"],
         kind = "put" => es = <<>>,
         kind = "restore" => R = Records /\ es = <<>>,
         kind = "batch" => R = {} /\ Len(es) > 0
  PROVE  TaskOK(x, enqueued + 1)
<1>1. PICK e \in Nat : e = enqueued
  BY DEF MirrorAssumption, Shape
<1>2. PICK m \in Nat : m = MaxTasks
  BY DEF MirrorAssumption
<1>3. Pending \subseteq 1 .. e /\ e + 1 <= m
  BY <1>1, <1>2 DEF Shape
<1>a. \A t \in Pending : t \in 1 .. e
  BY <1>3
<1>b. \A t \in Pending : t \in 1 .. m /\ t < e + 1
  BY <1>a, <1>3
<1>4. deps \cap Pending \in SUBSET (1 .. m) /\ waits \in SUBSET (1 .. m)
  BY <1>b
<1>5. PICK f : f = [r \in R |-> e + 1]
  OBVIOUS
<1>6. f \in [R -> 1 .. m]
  BY <1>3, <1>5
<1>7. f \in UNION {[Q -> 1 .. m] : Q \in SUBSET Records}
  BY <1>6
<1>8. x = [kind |-> kind, records |-> f, events |-> es,
           deps |-> deps \cap Pending, waits |-> waits, phase |-> "queued"]
  BY <1>1, <1>5
<1>9. x \in Tasks
  BY <1>2, <1>4, <1>7, <1>8 DEF Tasks
<1>10. x.kind = kind /\ x.records = f /\ x.events = es /\ x.deps = deps \cap Pending
       /\ x.phase = "queued"
  BY <1>8
<1>11. DOMAIN f = R /\ \A r \in R : f[r] = e + 1
  BY <1>5
<1>12. \A v \in x.deps : v < e + 1
  BY <1>b, <1>10
<1> QED
  BY <1>1, <1>9, <1>10, <1>11, <1>12 DEF TaskOK

LEMMA WaitingGrows ==
  ASSUME MirrorAssumption, Shape, Waiting, ~failure, failure' = failure,
         enqueued' = enqueued + 1,
         NEW x, Grown(tasks, tasks', enqueued + 1, x),
         x.deps \subseteq Pending, x.waits \subseteq Pending,
         x.kind = "put" => \A d \in x.deps : tasks[d].kind # "batch",
         \A w \in x.waits : tasks[w].kind # "batch",
         \/ eventBatch' \in {0, enqueued + 1}
         \/ eventBatch' = eventBatch /\ x.kind = "put"
  PROVE  Waiting'
<1>1. PICK e \in Nat : e = enqueued
  BY DEF MirrorAssumption, Shape
<1>2. PICK n \in Nat : n = e + 1
  OBVIOUS
<1>3. PICK D : D = Pending
  OBVIOUS
<1>4. PICK us : us = tasks'
  OBVIOUS
<1>5. D \subseteq 1 .. e /\ n \notin D /\ DOMAIN us = D \cup {n}
  BY <1>1, <1>2, <1>3, <1>4 DEF Shape, Grown, Pending
<1>6. \A t \in D : us[t].kind = tasks[t].kind /\ us[t].deps = tasks[t].deps
                   /\ us[t].waits = tasks[t].waits
  BY <1>3, <1>4 DEF Grown, Same, Pending
<1>7. us[n].kind = x.kind /\ us[n].deps = x.deps /\ us[n].waits = x.waits
  BY <1>1, <1>2, <1>4 DEF Grown, Same
<1>8. Eventful(us) = Eventful(tasks) \cup {t \in {n} : x.kind # "put"}
  BY <1>1, <1>2, <1>4, GrownSets
<1>9. Eventful(tasks) \subseteq D
  BY <1>3 DEF Eventful, Pending
<1>10. \A t \in D \cup {n} : us[t].deps \subseteq D \cup {n}
  BY <1>3, <1>6, <1>7 DEF Waiting
<1>11. \A t \in D \cup {n} : us[t].kind = "put" =>
         \A d \in us[t].deps : us[d].kind # "batch"
  BY <1>3, <1>6, <1>7 DEF Waiting
<1>a. \A t \in D : t \in 1 .. e
  BY <1>5
<1>b. \A t \in D : t \in Nat /\ t <= e /\ t < n /\ t <= n
  BY <1>a, <1>2
<1>c. \A b \in D : \A w \in tasks[b].waits : w \in Nat /\ w <= e
  BY <1>1, <1>3 DEF Waiting, TaskOK, Shape, Tasks, Pending, MirrorAssumption
<1>12. \A b \in D \cup {n} : \A w \in us[b].waits : w <= n
  <2> SUFFICES ASSUME NEW b \in D \cup {n}, NEW w \in us[b].waits PROVE w <= n
    OBVIOUS
  <2>1. w \in Nat /\ w <= e
    BY <1>b, <1>c, <1>3, <1>6, <1>7
  <2> QED
    BY <2>1, <1>2
<1>13. ASSUME NEW b \in D \cup {n}, NEW w \in us[b].waits \cap (D \cup {n})
       PROVE  us[w].kind # "batch" /\ \A u \in Eventful(us) : b < u => w < u
  <2>1. w # n
    <3>1. CASE b = n
      BY <3>1, <1>3, <1>5, <1>7
    <3>2. CASE b # n
      <4>1. w \in tasks[b].waits /\ b \in D
        BY <3>2, <1>6, <1>13
      <4>2. w <= e
        BY <4>1, <1>1, <1>3 DEF Waiting
      <4> QED
        BY <4>2, <1>1, <1>2
    <3> QED
      BY <3>1, <3>2
  <2>2. w \in D /\ w < n
    BY <2>1, <1>b, <1>13
  <2>3. CASE b = n
    <3>1. us[w].kind # "batch"
      BY <2>2, <2>3, <1>6, <1>7, <1>13
    <3>2. \A u \in Eventful(us) : u \in Nat /\ u <= n
      BY <1>2, <1>b, <1>8, <1>9
    <3>3. \A u \in Eventful(us) : ~(n < u)
      BY <3>2
    <3> QED
      BY <2>3, <3>1, <3>3
  <2>4. CASE b # n
    <3>1. b \in D /\ w \in tasks[b].waits \cap D
      BY <2>2, <2>4, <1>6, <1>13
    <3>2. tasks[w].kind # "batch" /\ \A u \in Eventful(tasks) : b < u => w < u
      BY <3>1, <1>3 DEF Waiting
    <3> QED
      BY <2>2, <3>2, <1>6, <1>8
  <2> QED
    BY <2>3, <2>4
<1>14. eventBatch' # 0 => \A u \in Eventful(us) : u <= eventBatch'
  <2>1. CASE eventBatch' \in {0, n}
    BY <2>1, <1>2, <1>b, <1>8, <1>9
  <2>2. CASE eventBatch' = eventBatch /\ x.kind = "put"
    BY <2>2, <1>8 DEF Waiting
  <2> QED
    BY <2>1, <2>2, <1>1, <1>2
<1>15. enqueued' = n
  BY <1>1, <1>2
<1> QED
  BY <1>4, <1>5, <1>10, <1>11, <1>12, <1>13, <1>14, <1>15 DEF Waiting, Pending

LEMMA FlushesKept ==
  ASSUME MirrorAssumption, Shape, Flushes, flushing' = flushing, db' = db,
         enqueued' \in Nat, enqueued <= enqueued', ~failure' => ~failure,
         Kept(tasks, tasks')
  PROVE  Flushes'
<1>1. PICK e \in Nat : e = enqueued
  BY DEF MirrorAssumption, Shape
<1>2. ASSUME NEW c \in Requests
      PROVE  /\ flushing[c] \in [waits : SUBSET (1 .. enqueued'), covers : SUBSET Contents]
             /\ flushing[c] # NoFlush => flushing[c].covers # {}
  <2>1. flushing[c] \in [waits : SUBSET (1 .. e), covers : SUBSET Contents]
    BY <1>1 DEF Flushes
  <2>2. 1 .. e \subseteq 1 .. enqueued'
    BY <1>1
  <2>3. flushing[c] \in [waits : SUBSET (1 .. enqueued'), covers : SUBSET Contents]
    BY <2>1, <2>2
  <2> QED
    BY <2>3 DEF Flushes
<1>3. ASSUME NEW c \in Requests, ~failure', NEW m \in flushing[c].covers
      PROVE  Coming(flushing[c].waits, m)'
  <2>1. Coming(flushing[c].waits, m)
    BY <1>3 DEF Flushes
  <2> QED
    BY <2>1 DEF Coming, Kept, Writers, Restores, Unwritten, Carries
<1> QED
  BY <1>2, <1>3 DEF Flushes

(* A task keeps its place while the mirror grows behind it and nothing     *)
(* before it is lost.                                                      *)
LEMMA PlacedKept ==
  ASSUME mirror.events \in Seq(Events), mirror'.events \in Seq(Events), mirror'.epoch = mirror.epoch,
         NEW t \in Current(tasks, mirror.epoch),
         NEW p \in Nat, PlacedAt(t, p),
         Len(mirror.events) <= Len(mirror'.events),
         \A i \in 1 .. Len(mirror.events) : mirror'.events[i] = mirror.events[i],
         \A i \in 1 .. p : Stands(i) => Stands(i)',
         tasks[t].events \in Seq(Events), tasks'[t].events = tasks[t].events,
         \A u \in Current(tasks, mirror.epoch) : u < t =>
           /\ u \in Current(tasks', mirror.epoch)
           /\ ToSet(tasks[u].events) \subseteq ToSet(tasks'[u].events)
  PROVE  PlacedAt(t, p)'
<1>1. PICK k \in Nat : k = Len(mirror.events)
  OBVIOUS
<1>2. PICK k2 \in Nat : k2 = Len(mirror'.events)
  OBVIOUS
<1>3. PICK l \in Nat : l = Len(tasks[t].events) /\ DOMAIN tasks[t].events = 1 .. l
  OBVIOUS
<1>4. p + l <= k /\ k <= k2
  BY <1>1, <1>2, <1>3 DEF PlacedAt
<1>5. p + Len(tasks'[t].events) <= Len(mirror'.events)
  BY <1>2, <1>3, <1>4
<1>6. \A a \in DOMAIN tasks'[t].events : mirror'.events[p + a] = tasks'[t].events[a]
  <2> SUFFICES ASSUME NEW a \in 1 .. l PROVE mirror'.events[p + a] = tasks[t].events[a]
    BY <1>3
  <2>1. p + a \in 1 .. k
    BY <1>4
  <2> QED
    BY <2>1, <1>1, <1>3 DEF PlacedAt
<1>7. ASSUME NEW i \in 1 .. p
      PROVE  \/ Stands(i)'
             \/ \E u \in Current(tasks', mirror'.epoch) :
                  u < t /\ Carries(tasks'[u], mirror'.events[i])
  <2>1. i \in 1 .. k
    BY <1>4
  <2>2. CASE Stands(i)
    BY <2>2
  <2>3. CASE ~Stands(i)
    <3>1. PICK u \in Current(tasks, mirror.epoch) : u < t /\ Carries(tasks[u], mirror.events[i])
      BY <2>3 DEF PlacedAt
    <3>2. mirror'.events[i] = mirror.events[i]
      BY <2>1, <1>1
    <3> QED
      BY <3>1, <3>2 DEF Carries
  <2> QED
    BY <2>2, <2>3
<1> QED
  BY <1>5, <1>6, <1>7 DEF PlacedAt

(* A write of a record alone moves no event. *)
LEMMA LogKeptByPut ==
  ASSUME Shape, Log, ~failure, failure' = failure, db' = db, mirror'.events = mirror.events,
         mirror'.epoch = mirror.epoch, eventBatch' = eventBatch,
         NEW n, NEW x, Grown(tasks, tasks', n, x), x.kind = "put"
  PROVE  Log'
<1>1. Current(tasks', mirror.epoch) = Current(tasks, mirror.epoch)
  BY GrownSets DEF Current, Grown, Eventful, Unwritten, Same
<1>2. \A t \in Current(tasks, mirror.epoch) :
        tasks'[t].events = tasks[t].events /\ tasks'[t].kind = tasks[t].kind
  BY DEF Current, Eventful, Grown, Same
<1>3. \A i : Stands(i)' <=> Stands(i)
  BY DEF Stands
<1>4. \A t \in Current(tasks, mirror.epoch) : \A p : PlacedAt(t, p) => PlacedAt(t, p)'
  BY <1>1, <1>2, <1>3 DEF PlacedAt, Carries
<1>5. eventBatch # 0 => tasks'[eventBatch].phase \in {"queued", "started"}
  BY <1>1 DEF Log, Grown, Same, Current, Eventful
<1>6. \A u \in Current(tasks, mirror.epoch) : \A e :
        Carries(tasks'[u], e) <=> Carries(tasks[u], e)
  BY <1>2 DEF Carries
<1>7. PICK M : M = mirror.events
  OBVIOUS
<1>8. IsInjective(M)
  BY <1>7 DEF Log
<1>9. db.epoch = mirror.epoch =>
         /\ Len(db.events) <= Len(M) /\ \A i \in 1 .. Len(db.events) : db.events[i] = M[i]
  BY <1>7 DEF Log
<1>10. \A t \in Current(tasks, mirror.epoch) : \E p \in 0 .. Len(M) : PlacedAt(t, p)'
  BY <1>4, <1>7 DEF Log
<1>11. \A i \in 1 .. Len(M) : \/ Stands(i)'
                              \/ \E u \in Current(tasks, mirror.epoch) : Carries(tasks'[u], M[i])
  BY <1>3, <1>6, <1>7 DEF Log
<1>12. eventBatch # 0 =>
            /\ eventBatch \in Current(tasks, mirror.epoch)
            /\ tasks'[eventBatch].kind = "batch"
            /\ M # <<>>
            /\ tasks'[eventBatch].events[Len(tasks'[eventBatch].events)] = M[Len(M)]
  BY <1>2, <1>7 DEF Log
<1> QED
  BY <1>1, <1>5, <1>7, <1>8, <1>9, <1>10, <1>11, <1>12 DEF Log
-----------------------------------------------------------------------------
LEMMA ShapeGrows ==
  ASSUME MirrorAssumption, Shape, failure' = failure, db' = db, promised' = promised,
         enqueued + 1 <= MaxTasks, enqueued' = enqueued + 1,
         mirror' \in Contents, mirror'.epoch <= enqueued + 1,
         \A r \in Records : mirror'.records[r] <= enqueued + 1,
         NEW x, Grown(tasks, tasks', enqueued + 1, x),
         \A t \in DOMAIN tasks' : TaskOK(tasks'[t], t),
         tails' \in [Records -> 0 .. enqueued + 1],
         {lastEventTask', restoreTask', eventBatch'} \subseteq 0 .. enqueued + 1
  PROVE  Shape'
<1>1. PICK e \in Nat : e = enqueued
  BY DEF MirrorAssumption, Shape
<1>2. enqueued' \in 0 .. MaxTasks
  BY <1>1 DEF MirrorAssumption
<1>3. DOMAIN tasks' \subseteq 1 .. enqueued'
  BY <1>1 DEF Shape, Grown, Pending
<1> QED
  BY <1>1, <1>2, <1>3 DEF Shape, Pending

(* What a task number is compared with. *)
LEMMA Numbers ==
  ASSUME MirrorAssumption, Shape, NEW e, e = enqueued
  PROVE  /\ e \in Nat
         /\ \A t \in Pending : t \in Nat /\ 0 < t /\ t <= e /\ t < e + 1
         /\ \A r : Writers(tasks, r) \subseteq Pending
         /\ Eventful(tasks) \subseteq Pending /\ Restores(tasks) \subseteq Pending
         /\ Unwritten(tasks) \subseteq Pending
         /\ Restores(tasks) \subseteq Eventful(tasks)
         /\ \A r \in Records : Restores(tasks) \subseteq Writers(tasks, r)
         /\ \A r : \A t \in Writers(tasks, r) : tasks[t].kind # "batch"
         /\ \A r \in Records : /\ mirror.records[r] \in Nat /\ mirror.records[r] <= e
                               /\ db.records[r] \in Nat /\ tails[r] \in Nat
         /\ mirror.epoch \in Nat /\ mirror.epoch <= e /\ db.epoch \in Nat
         /\ restoreTask \in Nat /\ lastEventTask \in Nat /\ eventBatch \in Nat
<1>1. e \in Nat
  BY DEF MirrorAssumption, Shape
<1>2. \A t \in Pending : t \in 1 .. e
  BY DEF Shape
<1>3. \A t \in Pending : t \in Nat /\ 0 < t /\ t <= e /\ t < e + 1
  BY <1>1, <1>2
<1>4. \A t \in Pending : TaskOK(tasks[t], t)
  BY DEF Shape
<1>5. /\ \A r : Writers(tasks, r) \subseteq Pending
      /\ Eventful(tasks) \subseteq Pending /\ Restores(tasks) \subseteq Pending
      /\ Unwritten(tasks) \subseteq Pending
      /\ Restores(tasks) \subseteq Eventful(tasks)
  BY DEF Writers, Eventful, Restores, Unwritten, Pending
<1>6. \A r \in Records : Restores(tasks) \subseteq Writers(tasks, r)
  BY <1>4, <1>5 DEF TaskOK, Restores, Writers, Pending
<1>7. \A r : \A t \in Writers(tasks, r) : tasks[t].kind # "batch"
  BY <1>4, <1>5 DEF TaskOK, Writers
<1>8. \A r \in Records : tails[r] \in 0 .. e
  BY DEF Shape
<1>9. restoreTask \in 0 .. e /\ lastEventTask \in 0 .. e /\ eventBatch \in 0 .. e
  BY DEF Shape
<1>10. /\ \A r \in Records : /\ mirror.records[r] \in Nat /\ mirror.records[r] <= e
                             /\ db.records[r] \in Nat
       /\ mirror.epoch \in Nat /\ mirror.epoch <= e /\ db.epoch \in Nat
  BY DEF Shape, Contents, MirrorAssumption
<1> QED
  BY <1>1, <1>3, <1>5, <1>6, <1>7, <1>8, <1>9, <1>10

(* A new task that waits for the last writer of each record it writes. *)
LEMMA RecordsGrow ==
  ASSUME MirrorAssumption, MirrorInv, ~failure, failure' = failure, db' = db,
         NEW n, n = enqueued + 1, NEW x, Grown(tasks, tasks', n, x),
         NEW R \in SUBSET Records, DOMAIN x.records = R,
         \A q \in R : {restoreTask, tails[q]} \cap Pending \subseteq x.deps,
         \A q \in Records : mirror'.records[q] = IF q \in R THEN n ELSE mirror.records[q],
         \/ restoreTask' = n /\ tails' = tails
         \/ /\ restoreTask' = restoreTask
            /\ \A q \in Records : tails'[q] = IF q \in R THEN n ELSE tails[q]
  PROVE  /\ \A q \in Records : Follows(tasks', Writers(tasks', q))
         /\ \A q \in Records : Remembered(Writers(tasks', q), tails'[q], restoreTask')
         /\ \A q \in Records : Channel(db'.records[q], mirror'.records[q],
                                 Writers(tasks', q) \cap Unwritten(tasks'), failure')
<1>1. PICK e : e = enqueued
  OBVIOUS
<1>2. n = e + 1
  BY <1>1
<1> DEFINE W(q) == Writers(tasks, q)
<1>3. /\ e \in Nat
      /\ \A t \in Pending : t \in Nat /\ 0 < t /\ t <= e /\ t < n
      /\ \A q : W(q) \subseteq Pending
      /\ \A q \in Records : Restores(tasks) \subseteq W(q)
      /\ \A q \in Records : /\ mirror.records[q] \in Nat /\ mirror.records[q] <= e
                            /\ db.records[q] \in Nat /\ tails[q] \in Nat
      /\ restoreTask \in Nat
  BY <1>1, <1>2, Numbers DEF MirrorInv
<1>4. \A q : Writers(tasks', q) = W(q) \cup {t \in {n} : q \in R}
  BY GrownSets
<1>5. Unwritten(tasks') = Unwritten(tasks) \cup {n}
  BY GrownSets
<1>6. /\ \A q \in Records : Remembered(W(q), tails[q], restoreTask)
      /\ restoreTask = 0 \/ restoreTask \in Restores(tasks)
  BY DEF MirrorInv, Chains
<1>7. \A q : \A t \in W(q) : t \in Nat /\ 0 < t /\ t <= e /\ t < n /\ t <= n /\ t # n
  BY <1>2, <1>3
<1>8. n \in Nat
  BY <1>2, <1>3
<1>9. ASSUME NEW q \in Records PROVE Follows(tasks', Writers(tasks', q))
  <2>1. Follows(tasks, W(q))
    BY DEF MirrorInv, Chains
  <2>2. W(q) \in SUBSET Nat /\ W(q) \subseteq DOMAIN tasks /\ \A t \in W(q) : t < n
    BY <1>3, <1>7 DEF Pending
  <2>3. CASE q \in R
    <3>1. \A t \in W(q) : \E v \in x.deps \cap W(q) : t <= v
      <4> SUFFICES ASSUME NEW t \in W(q) PROVE \E v \in x.deps \cap W(q) : t <= v
        OBVIOUS
      <4>1. t \in Nat /\ 0 < t
        BY <1>7
      <4>2. CASE t <= tails[q]
        <5>1. tails[q] # 0
          BY <1>3, <4>1, <4>2
        <5>2. tails[q] \in W(q)
          BY <5>1, <1>6 DEF Remembered
        <5>3. tails[q] \in x.deps
          BY <5>2, <2>3, <1>3
        <5> QED
          BY <4>2, <5>2, <5>3
      <4>3. CASE t <= restoreTask
        <5>1. restoreTask # 0
          BY <1>3, <4>1, <4>3
        <5>2. restoreTask \in W(q)
          BY <5>1, <1>6, <1>3
        <5>3. restoreTask \in x.deps
          BY <5>2, <2>3, <1>3
        <5> QED
          BY <4>3, <5>2, <5>3
      <4> QED
        BY <4>2, <4>3, <1>6 DEF Remembered
    <3>2. Writers(tasks', q) = W(q) \cup {n}
      BY <2>3, <1>4
    <3> QED
      BY <3>1, <3>2, <2>1, <2>2, <1>8, FollowsGrows
  <2>4. CASE q \notin R
    <3>1. Writers(tasks', q) = W(q)
      BY <2>4, <1>4
    <3> QED
      BY <3>1, <2>1, <2>2, <1>8, FollowsGrows
  <2> QED
    BY <2>3, <2>4
<1>10. ASSUME NEW q \in Records PROVE Remembered(Writers(tasks', q), tails'[q], restoreTask')
  <2>1. \A t \in Writers(tasks', q) : t <= n
    <3>1. n <= n
      BY <1>8
    <3> QED
      BY <3>1, <1>4, <1>7
  <2>2. CASE restoreTask' = n /\ tails' = tails
    BY <2>1, <2>2, <1>4, <1>6 DEF Remembered
  <2>3. CASE restoreTask' = restoreTask /\ tails'[q] = IF q \in R THEN n ELSE tails[q]
    <3>1. CASE q \in R
      <4>1. n \in Writers(tasks', q) /\ tails'[q] = n
        BY <2>3, <3>1, <1>4
      <4> QED
        BY <4>1, <2>1 DEF Remembered
    <3>2. CASE q \notin R
      <4>1. Writers(tasks', q) = W(q) /\ tails'[q] = tails[q]
        BY <2>3, <3>2, <1>4
      <4> QED
        BY <4>1, <2>3, <1>6 DEF Remembered
    <3> QED
      BY <3>1, <3>2
  <2> QED
    BY <2>2, <2>3
<1>11. ASSUME NEW q \in Records
       PROVE  Channel(db'.records[q], mirror'.records[q],
                      Writers(tasks', q) \cap Unwritten(tasks'), failure')
  <2>1. Channel(db.records[q], mirror.records[q], W(q) \cap Unwritten(tasks), failure)
    BY DEF MirrorInv, Values
  <2>2. PICK d \in Nat : d = db.records[q] /\ d = db'.records[q]
    BY <1>3
  <2>3. PICK m \in Nat : m = mirror.records[q] /\ m <= e
    BY <1>3
  <2>4. d <= m
    BY <2>1, <2>2, <2>3 DEF Channel
  <2>5. CASE q \in R
    <3>1. mirror'.records[q] = n
      BY <2>5
    <3>2. Writers(tasks', q) \cap Unwritten(tasks') = (W(q) \cap Unwritten(tasks)) \cup {n}
      BY <2>5, <1>4, <1>5, <1>7
    <3>3. \A t \in W(q) \cap Unwritten(tasks) : d < t /\ t <= n
      BY <2>1, <2>2, <1>7 DEF Channel
    <3>4. d < n /\ n <= n /\ d <= n
      BY <2>3, <2>4, <1>2, <1>3
    <3> QED
      BY <3>1, <3>2, <3>3, <3>4, <2>2 DEF Channel
  <2>6. CASE q \notin R
    <3>1. mirror'.records[q] = mirror.records[q]
      BY <2>6
    <3>2. Writers(tasks', q) \cap Unwritten(tasks') = W(q) \cap Unwritten(tasks)
      BY <2>6, <1>4, <1>5, <1>7
    <3> QED
      BY <3>1, <3>2, <2>1
  <2> QED
    BY <2>5, <2>6
<1> QED
  BY <1>9, <1>10, <1>11

(* A new task that waits for the last task with events. *)
LEMMA EventfulGrows ==
  ASSUME MirrorAssumption, MirrorInv, ~failure,
         NEW n, n = enqueued + 1, NEW x, Grown(tasks, tasks', n, x),
         \/ x.kind = "put" /\ lastEventTask' = lastEventTask /\ restoreTask' = restoreTask
         \/ /\ x.kind # "put" /\ {restoreTask, lastEventTask} \cap Pending \subseteq x.deps
            /\ \/ x.kind = "restore" /\ restoreTask' = n /\ lastEventTask' = lastEventTask
               \/ restoreTask' = restoreTask /\ lastEventTask' = n
  PROVE  /\ Follows(tasks', Eventful(tasks'))
         /\ Remembered(Eventful(tasks'), lastEventTask', restoreTask')
         /\ restoreTask' = 0 \/ restoreTask' \in Restores(tasks')
<1>1. PICK e : e = enqueued
  OBVIOUS
<1>2. n = e + 1
  BY <1>1
<1>3. PICK W : W = Eventful(tasks)
  OBVIOUS
<1>4. /\ e \in Nat
      /\ \A t \in Pending : t \in Nat /\ 0 < t /\ t < n
      /\ W \subseteq Pending /\ Restores(tasks) \subseteq W
      /\ restoreTask \in Nat /\ lastEventTask \in Nat
  BY <1>1, <1>2, <1>3, Numbers DEF MirrorInv
<1>5. n \in Nat /\ n <= n
  BY <1>2, <1>4
<1>6. \A t \in W : t \in Nat /\ 0 < t /\ t < n /\ t <= n
  BY <1>4, <1>5
<1>7. /\ Eventful(tasks') = W \cup {t \in {n} : x.kind # "put"}
      /\ Restores(tasks') = Restores(tasks) \cup {t \in {n} : x.kind = "restore"}
  BY <1>3, GrownSets
<1>8. Follows(tasks, W) /\ Remembered(W, lastEventTask, restoreTask)
      /\ (restoreTask = 0 \/ restoreTask \in Restores(tasks))
  BY <1>3 DEF MirrorInv, Chains
<1>9. W \in SUBSET Nat /\ W \subseteq DOMAIN tasks /\ \A t \in W : t < n
  BY <1>4, <1>6 DEF Pending
<1>10. CASE x.kind = "put" /\ lastEventTask' = lastEventTask /\ restoreTask' = restoreTask
  <2>1. Eventful(tasks') = W
    BY <1>7, <1>10
  <2>2. Follows(tasks', W)
    BY <1>5, <1>8, <1>9, FollowsGrows
  <2> QED
    BY <2>1, <2>2, <1>7, <1>8, <1>10
<1>11. CASE /\ x.kind # "put" /\ {restoreTask, lastEventTask} \cap Pending \subseteq x.deps
            /\ \/ x.kind = "restore" /\ restoreTask' = n /\ lastEventTask' = lastEventTask
               \/ restoreTask' = restoreTask /\ lastEventTask' = n
  <2>1. Eventful(tasks') = W \cup {n}
    BY <1>7, <1>11
  <2>2. \A t \in W : \E v \in x.deps \cap W : t <= v
    <3> SUFFICES ASSUME NEW t \in W PROVE \E v \in x.deps \cap W : t <= v
      OBVIOUS
    <3>1. t \in Nat /\ 0 < t
      BY <1>6
    <3>2. CASE t <= lastEventTask
      <4>1. lastEventTask # 0
        BY <3>1, <3>2, <1>4
      <4>2. lastEventTask \in W
        BY <4>1, <1>8 DEF Remembered
      <4> QED
        BY <4>2, <3>2, <1>4, <1>11
    <3>3. CASE t <= restoreTask
      <4>1. restoreTask # 0
        BY <3>1, <3>3, <1>4
      <4>2. restoreTask \in W
        BY <4>1, <1>8, <1>4
      <4> QED
        BY <4>2, <3>3, <1>4, <1>11
    <3> QED
      BY <3>2, <3>3, <1>8 DEF Remembered
  <2>3. Follows(tasks', Eventful(tasks'))
    BY <2>1, <2>2, <1>5, <1>8, <1>9, FollowsGrows
  <2>4. \A t \in Eventful(tasks') : t <= n
    BY <2>1, <1>5, <1>6
  <2>5. Remembered(Eventful(tasks'), lastEventTask', restoreTask')
    BY <2>1, <2>4, <1>8, <1>11 DEF Remembered
  <2>6. restoreTask' = 0 \/ restoreTask' \in Restores(tasks')
    BY <1>7, <1>8, <1>11
  <2> QED
    BY <2>3, <2>5, <2>6
<1> QED
  BY <1>10, <1>11
-----------------------------------------------------------------------------
(* The facts the operations that enqueue a task have in common. *)
LEMMA EnqueueKeeps ==
  ASSUME MirrorAssumption, MirrorInv, ~failure, failure' = failure, db' = db,
         promised' = promised, flushing' = flushing,
         NEW x, TaskOK(x, enqueued + 1), x.phase = "queued", Enqueue(x),
         x.deps \subseteq Pending, x.waits \subseteq Pending,
         x.kind = "put" => \A d \in x.deps : tasks[d].kind # "batch",
         \A w \in x.waits : tasks[w].kind # "batch",
         \/ eventBatch' \in {0, enqueued + 1}
         \/ eventBatch' = eventBatch /\ x.kind = "put",
         mirror' \in Contents, mirror'.epoch <= enqueued + 1,
         NEW R \in SUBSET Records, DOMAIN x.records = R,
         \A q \in R : {restoreTask, tails[q]} \cap Pending \subseteq x.deps,
         \A q \in Records : mirror'.records[q] = IF q \in R THEN enqueued + 1
                                                 ELSE mirror.records[q],
         \/ restoreTask' = enqueued + 1 /\ tails' = tails
         \/ /\ restoreTask' = restoreTask
            /\ tails' = [q \in Records |-> IF q \in R THEN enqueued + 1 ELSE tails[q]],
         \/ x.kind = "put" /\ lastEventTask' = lastEventTask /\ restoreTask' = restoreTask
         \/ /\ x.kind # "put" /\ {restoreTask, lastEventTask} \cap Pending \subseteq x.deps
            /\ \/ x.kind = "restore" /\ restoreTask' = enqueued + 1
                                     /\ lastEventTask' = lastEventTask
               \/ restoreTask' = restoreTask /\ lastEventTask' = enqueued + 1
  PROVE  /\ Shape' /\ ReadyOK(tasks', ready') /\ Slots(tasks', ready') /\ Waiting' /\ Chains'
         /\ Flushes' /\ Durable(promised)'
         /\ \A q \in Records : Channel(db'.records[q], mirror'.records[q],
                                 Writers(tasks', q) \cap Unwritten(tasks'), failure')
         /\ Grown(tasks, tasks', enqueued + 1, x)
<1>1. PICK e \in Nat : e = enqueued
  BY DEF MirrorAssumption, MirrorInv, Shape
<1>2. PICK n \in Nat : n = e + 1
  OBVIOUS
<1>3. n = enqueued + 1
  BY <1>1, <1>2
<1>4. /\ n <= MaxTasks /\ enqueued' = n
      /\ Grown(tasks, tasks', n, x) /\ ReadyOK(tasks', ready') /\ Slots(tasks', ready')
      /\ \A t \in DOMAIN tasks' : TaskOK(tasks'[t], t)
  BY <1>3, EnqueueFacts DEF MirrorInv
<1>5. /\ \A q \in Records : mirror.records[q] \in Nat /\ mirror.records[q] <= e
      /\ \A q \in Records : tails[q] \in 0 .. e
      /\ restoreTask \in 0 .. e /\ lastEventTask \in 0 .. e /\ eventBatch \in 0 .. e
  BY <1>1, Numbers DEF MirrorInv, Shape
<1>6. Shape'
  <2>1. \A r \in Records : mirror'.records[r] <= n
    BY <1>2, <1>3, <1>5
  <2>2. tails' \in [Records -> 0 .. n]
    <3>1. n \in 0 .. n /\ \A q \in Records : tails[q] \in 0 .. n
      BY <1>2, <1>5
    <3>2. tails \in [Records -> 0 .. e]
      BY <1>1 DEF MirrorInv, Shape
    <3>3. tails \in [Records -> 0 .. n]
      BY <3>1, <3>2
    <3>4. [q \in Records |-> IF q \in R THEN n ELSE tails[q]] \in [Records -> 0 .. n]
      BY <3>1
    <3> QED
      BY <3>3, <3>4, <1>3
  <2>3. {lastEventTask', restoreTask', eventBatch'} \subseteq 0 .. n
    <3>1. n \in 0 .. n /\ 0 .. e \subseteq 0 .. n /\ 0 \in 0 .. n
      BY <1>2
    <3> QED
      BY <3>1, <1>3, <1>5
  <2> QED
    BY <2>1, <2>2, <2>3, <1>3, <1>4, ShapeGrows DEF MirrorInv
<1>7. Waiting'
  BY <1>3, <1>4, WaitingGrows DEF MirrorInv
<1>9. /\ \A q \in Records : Follows(tasks', Writers(tasks', q))
      /\ \A q \in Records : Remembered(Writers(tasks', q), tails'[q], restoreTask')
      /\ \A q \in Records : Channel(db'.records[q], mirror'.records[q],
                              Writers(tasks', q) \cap Unwritten(tasks'), failure')
  <2>1. \/ restoreTask' = n /\ tails' = tails
        \/ /\ restoreTask' = restoreTask
           /\ \A q \in Records : tails'[q] = IF q \in R THEN n ELSE tails[q]
    BY <1>3
  <2>2. \A q \in Records : mirror'.records[q] = IF q \in R THEN n ELSE mirror.records[q]
    BY <1>3
  <2> QED
    BY <2>1, <2>2, <1>3, <1>4, RecordsGrow
<1>10. /\ Follows(tasks', Eventful(tasks'))
       /\ Remembered(Eventful(tasks'), lastEventTask', restoreTask')
       /\ restoreTask' = 0 \/ restoreTask' \in Restores(tasks')
  BY <1>3, <1>4, EventfulGrows
<1>11. Chains'
  BY <1>9, <1>10 DEF Chains
<1>12. Flushes'
  <2>1. Kept(tasks, tasks')
    BY <1>4, GrownKept
  <2>2. enqueued' \in Nat /\ enqueued <= enqueued'
    BY <1>1, <1>2, <1>4
  <2> QED
    BY <2>1, <2>2, FlushesKept DEF MirrorInv
<1>13. Durable(promised)'
  BY DEF MirrorInv, Durable
<1> QED
  BY <1>3, <1>4, <1>6, <1>7, <1>9, <1>11, <1>12, <1>13

LEMMA PutKeeps ==
  ASSUME MirrorAssumption, MirrorInv, NEW r \in Records, Put(r)
  PROVE  MirrorInv'
<1>1. PICK n : n = enqueued + 1
  OBVIOUS
<1>2. PICK x : x = Task("put", Now(r), <<>>, {restoreTask, tails[r]})
  OBVIOUS
<1>3. Enqueue(x)
  BY <1>2 DEF Put
<1>4. n <= MaxTasks /\ enqueued' = n /\ n \in 0 .. MaxTasks
  BY <1>1, <1>3 DEF Enqueue, MirrorAssumption, MirrorInv, Shape
<1>5. TaskOK(x, n) /\ x.phase = "queued" /\ x.kind = "put" /\ x.waits = {}
      /\ x.deps = {restoreTask, tails[r]} \cap Pending /\ DOMAIN x.records = {r}
  <2>1. <<>> \in Seq(Events) /\ {r} \in SUBSET Records /\ {} \in SUBSET Pending
    OBVIOUS
  <2>2. x = [kind |-> "put", records |-> [y \in {r} |-> enqueued + 1], events |-> <<>>,
             deps |-> {restoreTask, tails[r]} \cap Pending, waits |-> {}, phase |-> "queued"]
    BY <1>2 DEF Task, Now
  <2>3. TaskOK(x, enqueued + 1)
    BY <2>1, <2>2, <1>1, <1>4, TaskIsOK DEF MirrorInv
  <2> QED
    BY <2>2, <2>3, <1>1
<1>6. /\ ~failure /\ failure' = failure /\ db' = db /\ promised' = promised
      /\ flushing' = flushing /\ restoreTask' = restoreTask
      /\ lastEventTask' = lastEventTask /\ eventBatch' = eventBatch
  BY DEF Put, EnsureWritable
<1>7. /\ mirror' \in Contents /\ mirror'.events = mirror.events /\ mirror'.epoch = mirror.epoch
      /\ \A q \in Records : mirror'.records[q] = IF q \in {r} THEN n ELSE mirror.records[q]
  <2>1. mirror \in Contents /\ mirror' = [mirror EXCEPT !.records[r] = n]
    BY <1>1 DEF Put, MirrorInv, Shape
  <2> QED
    BY <2>1, <1>4 DEF Contents
<1>8. tails' = [q \in Records |-> IF q \in {r} THEN n ELSE tails[q]]
  <2>1. tails' = [tails EXCEPT ![r] = n] /\ DOMAIN tails = Records
    BY <1>1 DEF Put, MirrorInv, Shape
  <2> QED
    BY <2>1
<1>9. \A d \in x.deps : tasks[d].kind # "batch"
  <2>1. PICK e : e = enqueued
    OBVIOUS
  <2>2. /\ 0 \notin Pending /\ Restores(tasks) \subseteq Writers(tasks, r)
        /\ \A t \in Writers(tasks, r) : tasks[t].kind # "batch"
    BY <2>1, Numbers DEF MirrorInv
  <2>3. /\ restoreTask = 0 \/ restoreTask \in Restores(tasks)
        /\ tails[r] = 0 \/ tails[r] \in Writers(tasks, r)
    BY <1>6 DEF MirrorInv, Chains, Remembered
  <2> QED
    BY <2>2, <2>3, <1>5
<1>10. mirror'.epoch <= n
  <2>1. PICK e : e = enqueued
    OBVIOUS
  <2>2. e \in Nat /\ mirror.epoch \in Nat /\ mirror.epoch <= e
    BY <2>1, Numbers DEF MirrorInv
  <2> QED
    BY <2>1, <2>2, <1>1, <1>7
<1>11. /\ Shape' /\ ReadyOK(tasks', ready') /\ Slots(tasks', ready') /\ Waiting' /\ Chains'
       /\ Flushes' /\ Durable(promised)'
       /\ \A q \in Records : Channel(db'.records[q], mirror'.records[q],
                               Writers(tasks', q) \cap Unwritten(tasks'), failure')
       /\ Grown(tasks, tasks', n, x)
  <2>1. x.deps \subseteq Pending /\ x.waits \subseteq Pending /\ {r} \in SUBSET Records
        /\ \A w \in x.waits : tasks[w].kind # "batch"
    BY <1>5
  <2>2. \A q \in {r} : {restoreTask, tails[q]} \cap Pending \subseteq x.deps
    BY <1>5
  <2> QED
    BY <2>1, <2>2, <1>1, <1>3, <1>5, <1>6, <1>7, <1>8, <1>9, <1>10, EnqueueKeeps
<1>12. /\ Eventful(tasks') = Eventful(tasks) /\ Restores(tasks') = Restores(tasks)
       /\ Unwritten(tasks') = Unwritten(tasks) \cup {n}
  <2>1. /\ Eventful(tasks') = Eventful(tasks) \cup {t \in {n} : FALSE}
        /\ Restores(tasks') = Restores(tasks) \cup {t \in {n} : FALSE}
        /\ Unwritten(tasks') = Unwritten(tasks) \cup {n}
    BY <1>5, <1>11, GrownSets
  <2> QED
    BY <2>1
<1>13. Values'
  <2>1. n \notin Eventful(tasks) /\ n \notin Restores(tasks)
    BY <1>11 DEF Grown, Eventful, Restores
  <2>2. /\ Restores(tasks') \cap Unwritten(tasks') = Restores(tasks) \cap Unwritten(tasks)
        /\ Eventful(tasks') \cap Unwritten(tasks') = Eventful(tasks) \cap Unwritten(tasks)
    BY <2>1, <1>12
  <2>3. Current(tasks', mirror.epoch) = Current(tasks, mirror.epoch)
    BY <2>2 DEF Current
  <2> QED
    BY <2>2, <2>3, <1>6, <1>7, <1>11 DEF MirrorInv, Values
<1>14. Log'
  BY <1>5, <1>6, <1>7, <1>11, LogKeptByPut DEF MirrorInv
<1> QED
  BY <1>11, <1>13, <1>14 DEF MirrorInv
-----------------------------------------------------------------------------
(* A new task with an event that is, or becomes, one of the mirror's. *)
LEMMA EventJoinsMirror ==
  ASSUME MirrorAssumption, MirrorInv, ~failure, failure' = failure, db' = db,
         NEW n, n = enqueued + 1, NEW x, Grown(tasks, tasks', n, x),
         x.kind \in {"both", "batch"}, NEW e \in Events, x.events = <<e>>,
         mirror' \in Contents, mirror'.epoch = mirror.epoch,
         \/ mirror'.events = Append(mirror.events, e) /\ e \notin ToSet(mirror.events)
         \/ mirror'.events = mirror.events /\ e \in ToSet(mirror.events) /\ eventBatch' = 0,
         eventBatch' = 0 \/ (eventBatch' = n /\ x.kind = "batch"),
         \A q \in Records : Channel(db'.records[q], mirror'.records[q],
                              Writers(tasks', q) \cap Unwritten(tasks'), failure')
  PROVE  Values' /\ Log'
<1> DEFINE C == Current(tasks, mirror.epoch)
<1>1. PICK M \in Seq(Events) : M = mirror.events
  BY DEF MirrorInv, Shape, Contents
<1>2. PICK M2 \in Seq(Events) : M2 = mirror'.events
  BY DEF Contents
<1>3. PICK k \in Nat : k = Len(M) /\ DOMAIN M = 1 .. k
  OBVIOUS
<1>4. PICK k2 \in Nat : k2 = Len(M2) /\ DOMAIN M2 = 1 .. k2
  OBVIOUS
<1>5. PICK h \in Nat : h = enqueued
  BY DEF MirrorInv, Shape, MirrorAssumption
<1>6. /\ n = h + 1 /\ mirror.epoch \in Nat /\ mirror.epoch <= h /\ db.epoch \in Nat
      /\ \A t \in Pending : t \in Nat /\ t < n
      /\ Eventful(tasks) \subseteq Pending /\ Restores(tasks) \subseteq Pending
  BY <1>5, Numbers DEF MirrorInv
<1>7. n \in Nat /\ mirror.epoch <= n /\ ~(n < mirror.epoch) /\ n # 0
  BY <1>5, <1>6
<1>8. /\ Eventful(tasks') = Eventful(tasks) \cup {n}
      /\ Restores(tasks') = Restores(tasks)
      /\ Unwritten(tasks') = Unwritten(tasks) \cup {n}
  <2>1. /\ Eventful(tasks') = Eventful(tasks) \cup {t \in {n} : TRUE}
        /\ Restores(tasks') = Restores(tasks) \cup {t \in {n} : FALSE}
        /\ Unwritten(tasks') = Unwritten(tasks) \cup {n}
    BY GrownSets
  <2> QED
    BY <2>1
<1>9. n \notin Eventful(tasks) /\ n \notin Restores(tasks) /\ n \notin C
  BY DEF Grown, Eventful, Restores, Current
<1>10. Current(tasks', mirror'.epoch) = C \cup {n}
  BY <1>7, <1>8, <1>9 DEF Current
<1>11. Restores(tasks') \cap Unwritten(tasks') = Restores(tasks) \cap Unwritten(tasks)
  BY <1>8, <1>9
<1>12. \A t \in C : /\ tasks'[t].events = tasks[t].events /\ tasks'[t].kind = tasks[t].kind
                    /\ t \in Nat /\ t < n /\ tasks[t].events \in Seq(Events)
  BY <1>6 DEF Current, Eventful, Grown, Same, MirrorInv, Shape, TaskOK, Tasks, Pending
<1>13. tasks'[n].events = <<e>> /\ tasks'[n].kind = x.kind
       /\ tasks'[n].phase \in {"queued", "started"}
  BY DEF Grown, Same
<1>14. Values'
  <2>1. Channel(db.epoch, mirror.epoch, Restores(tasks) \cap Unwritten(tasks), failure)
    BY DEF MirrorInv, Values
  <2>2. Channel(db'.epoch, mirror'.epoch, Restores(tasks') \cap Unwritten(tasks'), failure')
    BY <2>1, <1>11
  <2>3. \A t \in Eventful(tasks') \cap Unwritten(tasks') :
          t < mirror'.epoch => db'.epoch < mirror'.epoch
    BY <1>7, <1>8, <1>9 DEF MirrorInv, Values
  <2>4. db.epoch = mirror.epoch \/ mirror.epoch \in Restores(tasks) \cap Unwritten(tasks)
    BY <2>1, <1>6 DEF Channel
  <2>5. \A t \in Current(tasks', mirror'.epoch) :
          \/ db'.epoch = mirror'.epoch
          \/ mirror'.epoch \in Restores(tasks') \cap Unwritten(tasks')
    BY <2>4, <1>11
  <2> QED
    BY <2>2, <2>3, <2>5 DEF Values
<1>15. IsInjective(M)
  BY <1>1 DEF MirrorInv, Log
<1>16. k <= k2 /\ \A i \in 1 .. k : M2[i] = M[i]
  BY <1>1, <1>2, <1>3, <1>4, SMTT(30)
<1>17. IsInjective(M2)
  <2>1. CASE M2 = M
    BY <2>1, <1>15
  <2>2. CASE M2 = Append(M, e) /\ e \notin ToSet(M)
    <3>1. IsInjective(Append(M, e))
      BY <2>2, <1>15, AppendKeepsDistinct, Zenon
    <3> QED
      BY <2>2, <3>1
  <2> QED
    BY <2>1, <2>2, <1>1, <1>2
<1>18. db'.epoch = mirror'.epoch =>
         /\ Len(db'.events) <= k2 /\ \A i \in 1 .. Len(db'.events) : db'.events[i] = M2[i]
  <2> SUFFICES ASSUME db.epoch = mirror.epoch
               PROVE  /\ Len(db.events) <= k2
                      /\ \A i \in 1 .. Len(db.events) : db.events[i] = M2[i]
    OBVIOUS
  <2>1. PICK d \in Nat : d = Len(db.events)
    BY DEF MirrorInv, Shape, Contents
  <2>2. d <= k /\ \A i \in 1 .. d : db.events[i] = M[i]
    BY <2>1, <1>1, <1>3 DEF MirrorInv, Log
  <2>3. d <= k2 /\ \A i \in 1 .. d : i \in 1 .. k
    BY <2>2, <1>16
  <2> QED
    BY <2>1, <2>2, <2>3, <1>16
<1>19. \A i : Stands(i)' <=> Stands(i)
  BY DEF Stands
<1>20. \A t \in C : \E p \in 0 .. k2 : PlacedAt(t, p)'
  <2> SUFFICES ASSUME NEW t \in C PROVE \E p \in 0 .. k2 : PlacedAt(t, p)'
    OBVIOUS
  <2>1. PICK p \in 0 .. k : PlacedAt(t, p)
    BY <1>1, <1>3 DEF MirrorInv, Log
  <2>2. p \in 0 .. k2 /\ p \in Nat
    BY <1>16
  <2>3. \A u \in C : /\ u \in Current(tasks', mirror.epoch)
                     /\ ToSet(tasks[u].events) \subseteq ToSet(tasks'[u].events)
    BY <1>10, <1>12
  <2>4. PlacedAt(t, p)'
    BY <2>1, <2>2, <2>3, <1>1, <1>2, <1>3, <1>4, <1>12, <1>16, <1>19, PlacedKept
  <2> QED
    BY <2>2, <2>4
<1>21. \A i \in 1 .. k : Stands(i)' \/ \E u \in C : Carries(tasks'[u], M2[i])
  BY <1>1, <1>3, <1>12, <1>16, <1>19 DEF MirrorInv, Log, Carries
<1>22. PICK p \in Nat : p <= k /\ p + 1 <= k2 /\ M2[p + 1] = e
                        /\ (eventBatch' # 0 => k2 = p + 1)
  <2>1. CASE M2 = Append(M, e)
    BY <2>1, <1>3, <1>4
  <2>2. CASE M2 = M /\ e \in ToSet(M) /\ eventBatch' = 0
    <3>1. PICK i \in 1 .. k : M[i] = e
      BY <2>2, <1>3 DEF ToSet
    <3>2. i - 1 \in Nat /\ i - 1 <= k /\ (i - 1) + 1 <= k2 /\ M2[(i - 1) + 1] = e
      BY <3>1, <2>2, <1>3, <1>4
    <3> QED
      BY <3>2, <2>2
  <2> QED
    BY <2>1, <2>2, <1>1, <1>2
<1>23. PlacedAt(n, p)'
  <2>1. Len(<<e>>) = 1 /\ DOMAIN <<e>> = {1} /\ <<e>>[1] = e
    OBVIOUS
  <2>2. \A i \in 1 .. p : \/ Stands(i)'
                          \/ \E u \in C \cup {n} : u < n /\ Carries(tasks'[u], M2[i])
    <3>1. \A i \in 1 .. p : i \in 1 .. k
      BY <1>22
    <3> QED
      BY <3>1, <1>12, <1>21
  <2>3. p + Len(tasks'[n].events) <= Len(mirror'.events)
    BY <2>1, <1>2, <1>4, <1>13, <1>22
  <2>4. \A a \in DOMAIN tasks'[n].events : mirror'.events[p + a] = tasks'[n].events[a]
    BY <2>1, <1>2, <1>13, <1>22
  <2> QED
    BY <2>2, <2>3, <2>4, <1>2, <1>10 DEF PlacedAt
<1>24. \A t \in C \cup {n} : \E q \in 0 .. k2 : PlacedAt(t, q)'
  <2>1. p \in 0 .. k2
    BY <1>16, <1>22
  <2> QED
    BY <2>1, <1>20, <1>23
<1>25. \A i \in 1 .. k2 : Stands(i)' \/ \E u \in C \cup {n} : Carries(tasks'[u], M2[i])
  <2> SUFFICES ASSUME NEW i \in 1 .. k2
               PROVE  Stands(i)' \/ \E u \in C \cup {n} : Carries(tasks'[u], M2[i])
    OBVIOUS
  <2>1. CASE i \in 1 .. k
    BY <2>1, <1>21
  <2>2. CASE i \notin 1 .. k
    <3>1. M2[i] = e
      BY <2>2, <1>1, <1>2, <1>3, <1>4
    <3>2. Carries(tasks'[n], e)
      <4>1. e \in ToSet(<<e>>)
        BY DEF ToSet
      <4> QED
        BY <4>1, <1>13 DEF Carries
    <3> QED
      BY <3>1, <3>2
  <2> QED
    BY <2>1, <2>2
<1>26. eventBatch' # 0 =>
         /\ eventBatch' \in C \cup {n}
         /\ tasks'[eventBatch'].kind = "batch"
         /\ tasks'[eventBatch'].phase \in {"queued", "started"}
         /\ M2 # <<>>
         /\ tasks'[eventBatch'].events[Len(tasks'[eventBatch'].events)] = M2[Len(M2)]
  <2> SUFFICES ASSUME eventBatch' = n /\ x.kind = "batch"
               PROVE  /\ tasks'[n].kind = "batch"
                      /\ tasks'[n].phase \in {"queued", "started"}
                      /\ M2 # <<>>
                      /\ tasks'[n].events[Len(tasks'[n].events)] = M2[Len(M2)]
    OBVIOUS
  <2>1. k2 = p + 1 /\ M2[k2] = e
    BY <1>7, <1>22
  <2>2. Len(<<e>>) = 1 /\ <<e>>[1] = e
    OBVIOUS
  <2>3. M2 # <<>>
    BY <2>1, <1>4
  <2> QED
    BY <2>1, <2>2, <2>3, <1>4, <1>13
<1>27. Log'
  BY <1>2, <1>4, <1>10, <1>17, <1>18, <1>24, <1>25, <1>26 DEF Log
<1> QED
  BY <1>14, <1>27

LEMMA PutAndAppendKeeps ==
  ASSUME MirrorAssumption, MirrorInv, NEW r \in Records, NEW e \in Events, PutAndAppend(r, e)
  PROVE  MirrorInv'
<1>1. PICK n : n = enqueued + 1
  OBVIOUS
<1>2. PICK x : x = Task("both", Now(r), <<e>>, {restoreTask, lastEventTask, tails[r]})
  OBVIOUS
<1>3. Enqueue(x)
  BY <1>2 DEF PutAndAppend
<1>4. n <= MaxTasks /\ enqueued' = n /\ n \in 0 .. MaxTasks
  BY <1>1, <1>3 DEF Enqueue, MirrorAssumption, MirrorInv, Shape
<1>5. TaskOK(x, n) /\ x.phase = "queued" /\ x.kind = "both" /\ x.waits = {} /\ x.events = <<e>>
      /\ x.deps = {restoreTask, lastEventTask, tails[r]} \cap Pending /\ DOMAIN x.records = {r}
  <2>1. <<e>> \in Seq(Events) /\ {r} \in SUBSET Records /\ {} \in SUBSET Pending
    OBVIOUS
  <2>2. x = [kind |-> "both", records |-> [y \in {r} |-> enqueued + 1], events |-> <<e>>,
             deps |-> {restoreTask, lastEventTask, tails[r]} \cap Pending, waits |-> {},
             phase |-> "queued"]
    BY <1>2 DEF Task, Now
  <2>3. TaskOK(x, enqueued + 1)
    BY <2>1, <2>2, <1>1, <1>4, TaskIsOK DEF MirrorInv
  <2> QED
    BY <2>2, <2>3, <1>1
<1>6. /\ ~failure /\ failure' = failure /\ db' = db /\ promised' = promised
      /\ flushing' = flushing /\ restoreTask' = restoreTask
      /\ lastEventTask' = n /\ eventBatch' = 0
  BY <1>1 DEF PutAndAppend, EnsureWritable, BatchCloses
<1>7. mirror \in Contents
      /\ mirror' = [mirror EXCEPT !.records[r] = n, !.events = Added(@, e)]
  BY <1>1 DEF PutAndAppend, MirrorInv, Shape
<1>8. PICK M \in Seq(Events) : M = mirror.events
  BY <1>7 DEF Contents
<1>9. Added(M, e) \in Seq(Events)
      /\ \/ Added(M, e) = Append(M, e) /\ e \notin ToSet(M)
         \/ Added(M, e) = M /\ e \in ToSet(M)
  BY DEF Added
<1>10. /\ mirror' \in Contents /\ mirror'.events = Added(M, e) /\ mirror'.epoch = mirror.epoch
       /\ \A q \in Records : mirror'.records[q] = IF q \in {r} THEN n ELSE mirror.records[q]
  BY <1>4, <1>7, <1>8, <1>9 DEF Contents
<1>11. tails' = [q \in Records |-> IF q \in {r} THEN n ELSE tails[q]]
  <2>1. tails' = [tails EXCEPT ![r] = n] /\ DOMAIN tails = Records
    BY <1>1 DEF PutAndAppend, MirrorInv, Shape
  <2> QED
    BY <2>1
<1>12. mirror'.epoch <= n
  <2>1. PICK h : h = enqueued
    OBVIOUS
  <2>2. h \in Nat /\ mirror.epoch \in Nat /\ mirror.epoch <= h
    BY <2>1, Numbers DEF MirrorInv
  <2> QED
    BY <2>1, <2>2, <1>1, <1>10
<1>13. /\ Shape' /\ ReadyOK(tasks', ready') /\ Slots(tasks', ready') /\ Waiting' /\ Chains'
       /\ Flushes' /\ Durable(promised)'
       /\ \A q \in Records : Channel(db'.records[q], mirror'.records[q],
                               Writers(tasks', q) \cap Unwritten(tasks'), failure')
       /\ Grown(tasks, tasks', n, x)
  <2>1. x.deps \subseteq Pending /\ x.waits \subseteq Pending /\ {r} \in SUBSET Records
        /\ \A w \in x.waits : tasks[w].kind # "batch"
    BY <1>5
  <2>2. \A q \in {r} : {restoreTask, tails[q]} \cap Pending \subseteq x.deps
    BY <1>5
  <2>3. x.kind # "put" /\ {restoreTask, lastEventTask} \cap Pending \subseteq x.deps
    BY <1>5
  <2> QED
    BY <2>1, <2>2, <2>3, <1>1, <1>3, <1>5, <1>6, <1>10, <1>11, <1>12, EnqueueKeeps
<1>14. Values' /\ Log'
  BY <1>1, <1>5, <1>6, <1>8, <1>9, <1>10, <1>13, EventJoinsMirror, ZenonT(40)
<1> QED
  BY <1>13, <1>14 DEF MirrorInv

LEMMA NewBatchKeeps ==
  ASSUME MirrorAssumption, MirrorInv, NEW e \in Events, AppendEvent(e), eventBatch = 0
  PROVE  MirrorInv'
<1>1. PICK n : n = enqueued + 1
  OBVIOUS
<1>2. PICK y : y = Task("batch", [r \in {} |-> 0], <<e>>, {lastEventTask, restoreTask})
  OBVIOUS
<1>3. PICK x : x = [y EXCEPT !.waits = BatchWaits]
  OBVIOUS
<1>4. Enqueue(x) /\ eventBatch' = (IF StillOpen(1) THEN enqueued + 1 ELSE 0)
      /\ lastEventTask' = enqueued + 1
  BY <1>2, <1>3 DEF AppendEvent
<1>5. n <= MaxTasks /\ enqueued' = n /\ n \in 0 .. MaxTasks
  BY <1>1, <1>4 DEF Enqueue, MirrorAssumption, MirrorInv, Shape
<1>6. BatchWaits \subseteq Pending /\ \A w \in BatchWaits : tasks[w].kind # "batch"
  <2>1. restoreTask = 0 \/ restoreTask \in Restores(tasks)
    BY DEF AppendEvent, EnsureWritable, MirrorInv, Chains
  <2>2. 0 \notin Pending
    BY DEF MirrorInv, Shape
  <2>3. \A w \in PendingPuts : w \in Pending /\ tasks[w].kind # "batch"
    BY DEF PendingPuts
  <2>4. \A w \in {restoreTask} \cap Pending : tasks[w].kind # "batch"
    BY <2>1, <2>2 DEF Restores
  <2> QED
    BY <2>3, <2>4 DEF BatchWaits
<1>7. TaskOK(x, n) /\ x.phase = "queued" /\ x.kind = "batch" /\ x.waits = BatchWaits
      /\ x.events = <<e>> /\ DOMAIN x.records = {}
      /\ x.deps = {lastEventTask, restoreTask} \cap Pending
  <2>1. <<e>> \in Seq(Events) /\ Len(<<e>>) > 0
    OBVIOUS
  <2>2. PICK f : f = [r \in {} |-> enqueued + 1]
    OBVIOUS
  <2>3. f = [r \in {} |-> 0]
    BY <2>2
  <2>4. y = [kind |-> "batch", records |-> f, events |-> <<e>>,
             deps |-> {lastEventTask, restoreTask} \cap Pending, waits |-> {},
             phase |-> "queued"]
    BY <2>3, <1>2 DEF Task
  <2>5. x = [kind |-> "batch", records |-> f, events |-> <<e>>,
             deps |-> {lastEventTask, restoreTask} \cap Pending, waits |-> BatchWaits,
             phase |-> "queued"]
    BY <2>4, <1>3
  <2>6. TaskOK(x, enqueued + 1)
    BY <2>1, <2>2, <2>5, <1>1, <1>5, <1>6, TaskIsOK DEF MirrorInv
  <2> QED
    BY <2>2, <2>5, <2>6, <1>1
<1>8. /\ ~failure /\ failure' = failure /\ db' = db /\ promised' = promised
      /\ flushing' = flushing /\ restoreTask' = restoreTask /\ tails' = tails
  BY DEF AppendEvent, EnsureWritable
<1>9. mirror \in Contents /\ mirror' = [mirror EXCEPT !.events = Append(@, e)] /\ ~Stored(e)
  BY DEF AppendEvent, MirrorInv, Shape
<1>10. PICK M \in Seq(Events) : M = mirror.events
  BY <1>9 DEF Contents
<1>11. e \notin ToSet(M)
  BY <1>9, <1>10 DEF Stored, ToSet
<1>12. /\ mirror' \in Contents /\ mirror'.events = Append(M, e) /\ mirror'.epoch = mirror.epoch
       /\ mirror'.records = mirror.records
  <2>0. Append(M, e) \in Seq(Events)
    OBVIOUS
  <2>1. PICK M2 : M2 = Append(M, e) /\ M2 \in Seq(Events)
    BY <2>0
  <2>2. mirror' = [mirror EXCEPT !.events = M2]
    BY <2>1, <1>9, <1>10
  <2> QED
    BY <2>1, <2>2, <1>9 DEF Contents
<1>13. mirror'.epoch <= n
  <2>1. PICK h : h = enqueued
    OBVIOUS
  <2>2. h \in Nat /\ mirror.epoch \in Nat /\ mirror.epoch <= h
    BY <2>1, Numbers DEF MirrorInv
  <2> QED
    BY <2>1, <2>2, <1>1, <1>12
<1>14. /\ Shape' /\ ReadyOK(tasks', ready') /\ Slots(tasks', ready') /\ Waiting' /\ Chains'
       /\ Flushes' /\ Durable(promised)'
       /\ \A q \in Records : Channel(db'.records[q], mirror'.records[q],
                               Writers(tasks', q) \cap Unwritten(tasks'), failure')
       /\ Grown(tasks, tasks', n, x)
  <2>1. x.deps \subseteq Pending /\ x.waits \subseteq Pending /\ {} \in SUBSET Records
        /\ \A w \in x.waits : tasks[w].kind # "batch"
    BY <1>6, <1>7
  <2>2. /\ \A q \in {} : {restoreTask, tails[q]} \cap Pending \subseteq x.deps
        /\ \A q \in Records : mirror'.records[q] = IF q \in {} THEN n ELSE mirror.records[q]
    BY <1>12
  <2>3. tails' = [q \in Records |-> IF q \in {} THEN n ELSE tails[q]]
    <3>1. tails \in [Records -> 0 .. enqueued]
      BY DEF MirrorInv, Shape
    <3> QED
      BY <3>1, <1>8
  <2>4. x.kind # "put" /\ {restoreTask, lastEventTask} \cap Pending \subseteq x.deps
        /\ eventBatch' \in {0, n}
    BY <1>1, <1>4, <1>7
  <2> QED
    BY <2>1, <2>2, <2>3, <2>4, <1>1, <1>4, <1>7, <1>8, <1>12, <1>13, EnqueueKeeps
<1>15. Values' /\ Log'
  BY <1>1, <1>4, <1>7, <1>8, <1>10, <1>11, <1>12, <1>14, EventJoinsMirror
<1> QED
  BY <1>14, <1>15 DEF MirrorInv

LEMMA RestoreKeeps ==
  ASSUME MirrorAssumption, MirrorInv, NEW es \in Snapshots, Restore(es)
  PROVE  MirrorInv'
<1>0. es = <<>>
  BY DEF Snapshots
<1>1. PICK n : n = enqueued + 1
  OBVIOUS
<1>2. PICK x : x = Task("restore", [r \in Records |-> n], <<>>, Pending)
  OBVIOUS
<1>3. Enqueue(x)
  BY <1>0, <1>1, <1>2 DEF Restore, RestoreFollows
<1>4. n <= MaxTasks /\ enqueued' = n /\ n \in 0 .. MaxTasks
  BY <1>1, <1>3 DEF Enqueue, MirrorAssumption, MirrorInv, Shape
<1>5. TaskOK(x, n) /\ x.phase = "queued" /\ x.kind = "restore" /\ x.waits = {}
      /\ x.events = <<>> /\ x.deps = Pending /\ DOMAIN x.records = Records
  <2>1. <<>> \in Seq(Events) /\ Records \in SUBSET Records /\ {} \in SUBSET Pending
    OBVIOUS
  <2>2. x = [kind |-> "restore", records |-> [y \in Records |-> enqueued + 1],
             events |-> <<>>, deps |-> Pending \cap Pending, waits |-> {}, phase |-> "queued"]
    BY <1>1, <1>2 DEF Task
  <2>3. TaskOK(x, enqueued + 1)
    BY <2>1, <2>2, <1>1, <1>4, TaskIsOK DEF MirrorInv
  <2> QED
    BY <2>2, <2>3, <1>1
<1>6. /\ ~failure /\ failure' = failure /\ db' = db /\ promised' = promised
      /\ flushing' = flushing /\ tails' = tails /\ restoreTask' = n
      /\ lastEventTask' = lastEventTask /\ eventBatch' = 0
  BY <1>1 DEF Restore, EnsureWritable
<1>7. mirror' = [records |-> [r \in Records |-> n], events |-> <<>>, epoch |-> n]
  BY <1>0, <1>1 DEF Restore
<1>8. /\ mirror' \in Contents /\ mirror'.events = <<>> /\ mirror'.epoch = n
      /\ \A q \in Records : mirror'.records[q] = n
  BY <1>4, <1>7 DEF Contents
<1>9. PICK h \in Nat : h = enqueued
  BY DEF MirrorInv, Shape, MirrorAssumption
<1>10. /\ n = h + 1 /\ n \in Nat /\ n <= n
       /\ mirror.epoch <= h /\ mirror.epoch \in Nat /\ db.epoch \in Nat
       /\ \A t \in Pending : t \in Nat /\ t < n
       /\ Eventful(tasks) \subseteq Pending /\ Restores(tasks) \subseteq Pending
  BY <1>1, <1>9, Numbers DEF MirrorInv
<1>11. /\ Shape' /\ ReadyOK(tasks', ready') /\ Slots(tasks', ready') /\ Waiting' /\ Chains'
       /\ Flushes' /\ Durable(promised)'
       /\ \A q \in Records : Channel(db'.records[q], mirror'.records[q],
                               Writers(tasks', q) \cap Unwritten(tasks'), failure')
       /\ Grown(tasks, tasks', n, x)
  <2>1. x.deps \subseteq Pending /\ x.waits \subseteq Pending /\ Records \in SUBSET Records
        /\ \A w \in x.waits : tasks[w].kind # "batch"
    BY <1>5
  <2>2. \A q \in Records : {restoreTask, tails[q]} \cap Pending \subseteq x.deps
    BY <1>5
  <2>3. x.kind # "put" /\ {restoreTask, lastEventTask} \cap Pending \subseteq x.deps
        /\ mirror'.epoch <= n
    BY <1>5, <1>8, <1>10
  <2> QED
    BY <2>1, <2>2, <2>3, <1>1, <1>3, <1>5, <1>6, <1>8, EnqueueKeeps
<1>12. /\ Eventful(tasks') = Eventful(tasks) \cup {n}
       /\ Restores(tasks') = Restores(tasks) \cup {n}
       /\ Unwritten(tasks') = Unwritten(tasks) \cup {n}
  <2>1. /\ Eventful(tasks') = Eventful(tasks) \cup {t \in {n} : TRUE}
        /\ Restores(tasks') = Restores(tasks) \cup {t \in {n} : TRUE}
        /\ Unwritten(tasks') = Unwritten(tasks) \cup {n}
    BY <1>5, <1>11, GrownSets
  <2> QED
    BY <2>1
<1>13. db.epoch <= mirror.epoch
       /\ \A t \in Restores(tasks) \cap Unwritten(tasks) : db.epoch < t
  BY DEF MirrorInv, Values, Channel
<1>14. db'.epoch < n
  BY <1>6, <1>10, <1>13
<1>15. Values'
  <2>1. Channel(db'.epoch, mirror'.epoch, Restores(tasks') \cap Unwritten(tasks'), failure')
    <3>1. \A t \in Restores(tasks') \cap Unwritten(tasks') : db'.epoch < t /\ t <= n
      <4> SUFFICES ASSUME NEW t \in Restores(tasks') \cap Unwritten(tasks')
                   PROVE  db'.epoch < t /\ t <= n
        OBVIOUS
      <4>1. CASE t = n
        BY <4>1, <1>10, <1>14
      <4>2. CASE t # n
        <5>1. t \in Restores(tasks) \cap Unwritten(tasks) /\ t \in Pending
          BY <4>2, <1>10, <1>12
        <5>2. t \in Nat /\ t < n
          BY <5>1, <1>10
        <5> QED
          BY <5>1, <5>2, <1>6, <1>10, <1>13
      <4> QED
        BY <4>1, <4>2
    <3>2. n \in Restores(tasks') \cap Unwritten(tasks')
      BY <1>12
    <3>3. db'.epoch <= n
      BY <1>6, <1>10, <1>14
    <3> QED
      BY <3>1, <3>2, <3>3, <1>8 DEF Channel
  <2>2. \A t \in Eventful(tasks') \cap Unwritten(tasks') :
          t < mirror'.epoch => db'.epoch < mirror'.epoch
    BY <1>8, <1>14
  <2>3. \A t \in Current(tasks', mirror'.epoch) :
          \/ db'.epoch = mirror'.epoch
          \/ mirror'.epoch \in Restores(tasks') \cap Unwritten(tasks')
    BY <1>8, <1>12
  <2> QED
    BY <2>1, <2>2, <2>3, <1>11 DEF Values
<1>16. Log'
  <2>1. Len(<<>>) = 0 /\ DOMAIN <<>> = {} /\ 1 .. 0 = {}
    OBVIOUS
  <2>2. db'.epoch # mirror'.epoch
    BY <1>6, <1>8, <1>10, <1>14
  <2>3. ASSUME NEW t \in Current(tasks', mirror'.epoch) PROVE PlacedAt(t, 0)'
    <3>1. t \in Eventful(tasks') /\ t >= n
      BY <2>3, <1>8 DEF Current
    <3>2. t = n
      <4>1. CASE t \in Pending
        BY <4>1, <3>1, <1>10
      <4> QED
        BY <4>1, <3>1, <1>10, <1>12
    <3>3. tasks'[t].events = <<>>
      BY <3>2, <1>5, <1>11 DEF Grown, Same
    <3> QED
      BY <3>3, <2>1, <1>8 DEF PlacedAt
  <2>4. 0 \in 0 .. Len(mirror'.events)
    BY <2>1, <1>8
  <2>5. IsInjective(mirror'.events)
    BY <2>1, <1>8 DEF IsInjective
  <2>6. 1 .. Len(mirror'.events) = {}
    BY <2>1, <1>8
  <2> QED
    BY <2>2, <2>3, <2>4, <2>5, <2>6, <1>6 DEF Log
<1> QED
  BY <1>11, <1>15, <1>16 DEF MirrorInv
-----------------------------------------------------------------------------
(* A step that neither adds, starts nor settles a task. *)
LEMMA QueueKept ==
  ASSUME MirrorAssumption, MirrorInv,
         DOMAIN tasks' = DOMAIN tasks,
         \A t \in DOMAIN tasks :
           /\ TaskOK(tasks'[t], t)
           /\ tasks'[t].kind = tasks[t].kind /\ tasks'[t].records = tasks[t].records
           /\ tasks'[t].deps = tasks[t].deps
           /\ tasks'[t].phase = "queued" <=> tasks[t].phase = "queued"
           /\ \A w \in tasks'[t].waits :
                \/ w \in tasks[t].waits
                \/ /\ w \in Pending /\ tasks[w].kind # "batch"
                   /\ \A u \in Eventful(tasks) : ~(t < u),
         ready' = ready, enqueued' = enqueued, tails' = tails, lastEventTask' = lastEventTask,
         restoreTask' = restoreTask, failure' = failure, promised' = promised,
         eventBatch' \in {0, eventBatch},
         mirror' \in Contents, mirror'.records = mirror.records, mirror'.epoch = mirror.epoch,
         db' \in Contents, IsInjective(db'.events)
  PROVE  /\ Shape' /\ ReadyOK(tasks', ready') /\ Slots(tasks', ready') /\ Waiting' /\ Chains'
         /\ \A r : Writers(tasks', r) = Writers(tasks, r)
         /\ Eventful(tasks') = Eventful(tasks) /\ Restores(tasks') = Restores(tasks)
<1>1. /\ \A r : Writers(tasks', r) = Writers(tasks, r)
      /\ Eventful(tasks') = Eventful(tasks) /\ Restores(tasks') = Restores(tasks)
      /\ Started(tasks') = Started(tasks)
  BY DEF Writers, Eventful, Restores, Started
<1>2. Shape'
  BY DEF MirrorInv, Shape, Pending
<1>3. ReadyOK(tasks', ready')
  BY DEF MirrorInv, ReadyOK
<1>4. Slots(tasks', ready')
  BY <1>1 DEF MirrorInv, Slots
<1>5. Chains'
  <2>1. \A W : W \subseteq DOMAIN tasks /\ Follows(tasks, W) => Follows(tasks', W)
    BY DEF Follows
  <2>2. (\A r : Writers(tasks, r) \subseteq DOMAIN tasks) /\ Eventful(tasks) \subseteq DOMAIN tasks
    BY DEF Writers, Eventful
  <2> QED
    BY <2>1, <2>2, <1>1 DEF MirrorInv, Chains
<1>6. Waiting'
  <2>1. \A t \in DOMAIN tasks : t \in 1 .. enqueued
    BY DEF MirrorInv, Shape, Pending
  <2>2. \A t \in DOMAIN tasks : t <= enqueued
    BY <2>1 DEF MirrorInv, Shape, MirrorAssumption
  <2>3. \A b \in DOMAIN tasks : \A w \in tasks'[b].waits : w <= enqueued
    BY <2>2 DEF MirrorInv, Waiting, Pending
  <2>4. ASSUME NEW b \in DOMAIN tasks, NEW w \in tasks'[b].waits \cap DOMAIN tasks
        PROVE  tasks'[w].kind # "batch" /\ \A u \in Eventful(tasks) : b < u => w < u
    BY DEF MirrorInv, Waiting, Pending
  <2>5. \A t \in DOMAIN tasks : tasks'[t].deps \subseteq DOMAIN tasks
    BY DEF MirrorInv, Waiting, Pending
  <2>6. \A t \in DOMAIN tasks : tasks'[t].kind = "put" =>
          \A d \in tasks'[t].deps : tasks'[d].kind # "batch"
    BY <2>5 DEF MirrorInv, Waiting, Pending
  <2>7. failure => \A t \in DOMAIN tasks : tasks'[t].phase # "queued"
    BY DEF MirrorInv, Waiting, Pending
  <2>8. ~failure /\ eventBatch' # 0 => \A u \in Eventful(tasks) : u <= eventBatch'
    BY DEF MirrorInv, Waiting
  <2> QED
    BY <2>3, <2>4, <2>5, <2>6, <2>7, <2>8, <1>1 DEF Waiting, Pending
<1> QED
  BY <1>1, <1>2, <1>3, <1>4, <1>5, <1>6

LEMMA JoinKeeps ==
  ASSUME MirrorAssumption, MirrorInv, NEW e \in Events, AppendEvent(e), eventBatch # 0
  PROVE  MirrorInv'
<1>1. PICK b : b = eventBatch
  OBVIOUS
<1>2. PICK y : y = tasks[b]
  OBVIOUS
<1>3. PICK x : x = [y EXCEPT !.events = Append(@, e), !.waits = @ \cup BatchWaits]
  OBVIOUS
<1>4. /\ tasks' = [tasks EXCEPT ![b] = x] /\ eventBatch' \in {0, b}
      /\ ready' = ready /\ lastEventTask' = lastEventTask /\ enqueued' = enqueued
  BY <1>1, <1>2, <1>3 DEF AppendEvent
<1>5. /\ ~failure /\ failure' = failure /\ db' = db /\ promised' = promised
      /\ flushing' = flushing /\ restoreTask' = restoreTask /\ tails' = tails
  BY DEF AppendEvent, EnsureWritable
<1>6. mirror \in Contents /\ mirror' = [mirror EXCEPT !.events = Append(@, e)] /\ ~Stored(e)
  BY DEF AppendEvent, MirrorInv, Shape
<1>7. PICK M \in Seq(Events) : M = mirror.events
  BY <1>6 DEF Contents
<1>8. e \notin ToSet(M)
  BY <1>6, <1>7 DEF Stored, ToSet
<1>a. Append(M, e) \in Seq(Events)
  OBVIOUS
<1>9. PICK M2 : M2 = Append(M, e) /\ M2 \in Seq(Events)
  BY <1>a
<1>10. mirror' = [mirror EXCEPT !.events = M2]
  BY <1>6, <1>7, <1>9
<1>11. /\ mirror' \in Contents /\ mirror'.events = M2 /\ mirror'.epoch = mirror.epoch
       /\ mirror'.records = mirror.records
  BY <1>6, <1>9, <1>10 DEF Contents
<1> DEFINE C == Current(tasks, mirror.epoch)
<1>12. b \in C /\ y.kind = "batch" /\ y.phase \in {"queued", "started"}
       /\ M # <<>> /\ y.events[Len(y.events)] = M[Len(M)]
  BY <1>1, <1>2, <1>5, <1>7 DEF MirrorInv, Log
<1>13. b \in Pending /\ TaskOK(y, b)
  BY <1>2, <1>12 DEF Current, Eventful, Pending, MirrorInv, Shape
<1>14. y \in Tasks /\ y.events \in Seq(Events) /\ Len(y.events) > 0
  BY <1>12, <1>13 DEF TaskOK, Tasks
<1>15. BatchWaits \subseteq Pending /\ \A w \in BatchWaits : tasks[w].kind # "batch"
  <2>1. restoreTask = 0 \/ restoreTask \in Restores(tasks)
    BY <1>5 DEF MirrorInv, Chains
  <2>2. 0 \notin Pending
    BY DEF MirrorInv, Shape
  <2>3. \A w \in PendingPuts : w \in Pending /\ tasks[w].kind # "batch"
    BY DEF PendingPuts
  <2>4. \A w \in {restoreTask} \cap Pending : tasks[w].kind # "batch"
    BY <2>1, <2>2 DEF Restores
  <2> QED
    BY <2>3, <2>4 DEF BatchWaits
<1>16. PICK l \in Nat : l = Len(y.events) /\ DOMAIN y.events = 1 .. l /\ l > 0
  BY <1>14
<1>17. PICK es : es = Append(y.events, e)
  OBVIOUS
<1>18. /\ es \in Seq(Events) /\ Len(es) = l + 1 /\ DOMAIN es = 1 .. l + 1 /\ es[l + 1] = e
       /\ \A a \in 1 .. l : es[a] = y.events[a]
  BY <1>14, <1>16, <1>17
<1>19. PICK ws : ws = y.waits \cup BatchWaits
  OBVIOUS
<1>20. x = [y EXCEPT !.events = es, !.waits = ws]
  BY <1>3, <1>17, <1>19
<1>21. ws \subseteq 1 .. MaxTasks
  <2>1. y.waits \subseteq 1 .. MaxTasks
    BY <1>14 DEF Tasks
  <2>2. \A t \in Pending : t \in 1 .. enqueued
    BY DEF MirrorInv, Shape
  <2>3. 1 .. enqueued \subseteq 1 .. MaxTasks
    BY DEF MirrorInv, Shape, MirrorAssumption
  <2> QED
    BY <2>1, <2>2, <2>3, <1>15, <1>19
<1>22. /\ x \in Tasks /\ x.kind = y.kind /\ x.records = y.records /\ x.deps = y.deps
       /\ x.phase = y.phase /\ x.events = es /\ x.waits = ws
  BY <1>14, <1>18, <1>20, <1>21 DEF Tasks
<1>23. TaskOK(x, b)
  <2>1. Len(es) > 0
    BY <1>18
  <2> QED
    BY <2>1, <1>12, <1>13, <1>22 DEF TaskOK
<1>24. DOMAIN tasks' = DOMAIN tasks /\ tasks'[b] = x
       /\ \A t \in DOMAIN tasks : t # b => tasks'[t] = tasks[t]
  BY <1>4, <1>13 DEF Pending
<1>25. \A u \in Eventful(tasks) : ~(b < u)
  <2>1. \A u \in Eventful(tasks) : u <= b
    BY <1>1, <1>5 DEF MirrorInv, Waiting
  <2>2. b \in Nat /\ \A u \in Eventful(tasks) : u \in Nat
    <3>1. PICK h : h = enqueued
      OBVIOUS
    <3> QED
      BY <3>1, <1>13, Numbers DEF MirrorInv
  <2> QED
    BY <2>1, <2>2
<1>26. /\ Shape' /\ ReadyOK(tasks', ready') /\ Slots(tasks', ready') /\ Waiting' /\ Chains'
       /\ \A r : Writers(tasks', r) = Writers(tasks, r)
       /\ Eventful(tasks') = Eventful(tasks) /\ Restores(tasks') = Restores(tasks)
  <2>1. ASSUME NEW t \in DOMAIN tasks
        PROVE  /\ TaskOK(tasks'[t], t)
               /\ tasks'[t].kind = tasks[t].kind /\ tasks'[t].records = tasks[t].records
               /\ tasks'[t].deps = tasks[t].deps
               /\ tasks'[t].phase = "queued" <=> tasks[t].phase = "queued"
               /\ \A w \in tasks'[t].waits :
                    \/ w \in tasks[t].waits
                    \/ /\ w \in Pending /\ tasks[w].kind # "batch"
                       /\ \A u \in Eventful(tasks) : ~(t < u)
    <3>1. CASE t = b
      BY <3>1, <1>2, <1>15, <1>19, <1>22, <1>23, <1>24, <1>25
    <3>2. CASE t # b
      BY <3>2, <1>24 DEF MirrorInv, Shape, Pending
    <3> QED
      BY <3>1, <3>2
  <2>2. db' \in Contents /\ IsInjective(db'.events)
    BY <1>5 DEF MirrorInv, Shape
  <2> QED
    BY <2>1, <2>2, <1>1, <1>4, <1>5, <1>11, <1>24, QueueKept
<1>27. Unwritten(tasks') = Unwritten(tasks)
  BY <1>2, <1>22, <1>24 DEF Unwritten
<1>28. Current(tasks', mirror'.epoch) = C
  BY <1>11, <1>26, <1>27 DEF Current
<1>29. Values'
  BY <1>5, <1>11, <1>26, <1>27, <1>28 DEF MirrorInv, Values
<1>30. Kept(tasks, tasks')
  <2>1. ToSet(y.events) \subseteq ToSet(es)
    BY <1>16, <1>18 DEF ToSet
  <2>2. ASSUME NEW t \in Unwritten(tasks)
        PROVE  /\ tasks'[t].kind = tasks[t].kind /\ tasks'[t].records = tasks[t].records
               /\ ToSet(tasks[t].events) \subseteq ToSet(tasks'[t].events)
    <3>1. CASE t = b
      BY <3>1, <2>1, <1>2, <1>22, <1>24
    <3>2. CASE t # b
      BY <3>2, <1>24 DEF Unwritten
    <3> QED
      BY <3>1, <3>2
  <2> QED
    BY <2>2, <1>27 DEF Kept
<1>31. Flushes'
  <2>1. enqueued' \in Nat /\ enqueued <= enqueued'
    BY <1>4 DEF MirrorInv, Shape, MirrorAssumption
  <2> QED
    BY <2>1, <1>5, <1>30, FlushesKept DEF MirrorInv
<1>32. PICK k \in Nat : k = Len(M) /\ DOMAIN M = 1 .. k
  OBVIOUS
<1>33. /\ Len(M2) = k + 1 /\ DOMAIN M2 = 1 .. k + 1 /\ M2[k + 1] = e
       /\ \A i \in 1 .. k : M2[i] = M[i]
  BY <1>9, <1>32
<1>34. IsInjective(M)
  BY <1>7 DEF MirrorInv, Log
<1>35. IsInjective(M2)
  <2>1. IsInjective(Append(M, e))
    BY <1>8, <1>34, AppendKeepsDistinct, Zenon
  <2> QED
    BY <2>1, <1>9
<1>36. db'.epoch = mirror'.epoch =>
         /\ Len(db'.events) <= k + 1 /\ \A i \in 1 .. Len(db'.events) : db'.events[i] = M2[i]
  <2> SUFFICES ASSUME db.epoch = mirror.epoch
               PROVE  /\ Len(db.events) <= k + 1
                      /\ \A i \in 1 .. Len(db.events) : db.events[i] = M2[i]
    BY <1>5, <1>11
  <2>1. PICK d \in Nat : d = Len(db.events)
    BY DEF MirrorInv, Shape, Contents
  <2>2. d <= k /\ \A i \in 1 .. d : db.events[i] = M[i]
    BY <2>1, <1>7, <1>32 DEF MirrorInv, Log
  <2>3. d <= k + 1 /\ \A i \in 1 .. d : i \in 1 .. k
    BY <2>2
  <2> QED
    BY <2>1, <2>2, <2>3, <1>33
<1>37. \A i : Stands(i)' <=> Stands(i)
  BY <1>5, <1>11 DEF Stands
<1>38. \A t \in C : t \in Unwritten(tasks) /\ t \in DOMAIN tasks
  BY DEF Current, Unwritten
<1>39. \A u \in C : ToSet(tasks[u].events) \subseteq ToSet(tasks'[u].events)
  BY <1>30, <1>38 DEF Kept
<1>40. ASSUME NEW t \in C PROVE \E p \in 0 .. k + 1 : PlacedAt(t, p)'
  <2>1. PICK p \in 0 .. k : PlacedAt(t, p)
    BY <1>7, <1>32 DEF MirrorInv, Log
  <2>2. p \in 0 .. k + 1 /\ p \in Nat
    OBVIOUS
  <2>3. CASE t # b
    <3>1. tasks'[t].events = tasks[t].events
      BY <2>3, <1>24, <1>38
    <3>2. tasks[t].events \in Seq(Events)
      BY <1>38 DEF MirrorInv, Shape, TaskOK, Tasks, Pending
    <3>3. \A u \in C : /\ u \in Current(tasks', mirror.epoch)
                       /\ ToSet(tasks[u].events) \subseteq ToSet(tasks'[u].events)
      BY <1>11, <1>28, <1>39
    <3>4. Len(mirror.events) <= Len(mirror'.events)
          /\ \A i \in 1 .. Len(mirror.events) : mirror'.events[i] = mirror.events[i]
      BY <1>7, <1>11, <1>32, <1>33
    <3>5. PlacedAt(t, p)'
      BY <2>1, <2>2, <3>1, <3>2, <3>3, <3>4, <1>7, <1>9, <1>11, <1>37, PlacedKept
    <3> QED
      BY <2>2, <3>5
  <2>4. CASE t = b
    <3>1. p + l <= k /\ \A a \in 1 .. l : M[p + a] = y.events[a]
      BY <2>1, <2>4, <1>2, <1>7, <1>16, <1>32 DEF PlacedAt
    <3>2. M[p + l] = M[k] /\ p + l \in DOMAIN M /\ k \in DOMAIN M
      BY <3>1, <1>12, <1>16, <1>32
    <3>3. p + l = k
      BY <3>2, <1>34 DEF IsInjective
    <3>4. ASSUME NEW a \in 1 .. l + 1 PROVE M2[p + a] = es[a]
      <4>1. CASE a \in 1 .. l
        <5>1. p + a \in 1 .. k
          BY <4>1, <3>3
        <5> QED
          BY <4>1, <5>1, <3>1, <1>18, <1>33
      <4>2. CASE a \notin 1 .. l
        <5>1. a = l + 1 /\ p + a = k + 1
          BY <4>2, <3>3
        <5> QED
          BY <5>1, <1>18, <1>33
      <4> QED
        BY <4>1, <4>2
    <3>5. ASSUME NEW i \in 1 .. p
          PROVE  Stands(i)' \/ \E u \in C : u < t /\ Carries(tasks'[u], M2[i])
      <4>1. i \in 1 .. k /\ M2[i] = M[i]
        BY <1>33
      <4>2. Stands(i) \/ \E u \in C : u < t /\ Carries(tasks[u], M[i])
        BY <2>1, <1>7 DEF PlacedAt
      <4> QED
        BY <4>1, <4>2, <1>37, <1>39 DEF Carries
    <3>6. p + (l + 1) <= k + 1
      BY <3>3
    <3>7. tasks'[t].events = es
      BY <2>4, <1>22, <1>24
    <3>8. PlacedAt(t, p)'
      BY <3>4, <3>5, <3>6, <3>7, <1>11, <1>18, <1>28, <1>33 DEF PlacedAt
    <3> QED
      BY <2>2, <3>8
  <2> QED
    BY <2>3, <2>4
<1>41. ASSUME NEW i \in 1 .. k + 1
       PROVE  Stands(i)' \/ \E u \in C : Carries(tasks'[u], M2[i])
  <2>1. CASE i \in 1 .. k
    <3>1. Stands(i) \/ \E u \in C : Carries(tasks[u], M[i])
      BY <2>1, <1>5, <1>7, <1>32 DEF MirrorInv, Log
    <3> QED
      BY <2>1, <3>1, <1>33, <1>37, <1>39 DEF Carries
  <2>2. CASE i \notin 1 .. k
    <3>1. M2[i] = e
      BY <2>2, <1>33
    <3>2. e \in ToSet(es)
      BY <1>18 DEF ToSet
    <3> QED
      BY <3>1, <3>2, <1>12, <1>22, <1>24 DEF Carries
  <2> QED
    BY <2>1, <2>2
<1>42. eventBatch' # 0 =>
         /\ eventBatch' \in C
         /\ tasks'[eventBatch'].kind = "batch"
         /\ tasks'[eventBatch'].phase \in {"queued", "started"}
         /\ M2 # <<>>
         /\ tasks'[eventBatch'].events[Len(tasks'[eventBatch'].events)] = M2[Len(M2)]
  <2>1. M2 # <<>>
    BY <1>33
  <2> QED
    BY <2>1, <1>4, <1>12, <1>18, <1>22, <1>24, <1>33
<1>43. Log'
  BY <1>11, <1>28, <1>33, <1>35, <1>36, <1>40, <1>41, <1>42 DEF Log
<1>44. Durable(promised)'
  BY <1>5 DEF MirrorInv, Durable
<1> QED
  BY <1>26, <1>29, <1>31, <1>43, <1>44 DEF MirrorInv
-----------------------------------------------------------------------------
(* The statement of a task reaches the database: nothing of its channels   *)
(* is pending before it.                                                   *)
LEMMA WriteFacts ==
  ASSUME MirrorAssumption, MirrorInv, NEW t \in Pending, Write(t), NEW x, x = tasks[t]
  PROVE  /\ Shape' /\ ReadyOK(tasks', ready') /\ Slots(tasks', ready') /\ Waiting' /\ Chains'
         /\ \A r : Writers(tasks', r) = Writers(tasks, r)
         /\ Eventful(tasks') = Eventful(tasks) /\ Restores(tasks') = Restores(tasks)
         /\ t \in Unwritten(tasks) /\ Unwritten(tasks') = Unwritten(tasks) \ {t}
         /\ \A u \in Pending : tasks'[u].events = tasks[u].events
         /\ \A r \in Records : db'.records[r] = IF t \in Writers(tasks, r) THEN t
                                                ELSE db.records[r]
         /\ db'.epoch = IF t \in Restores(tasks) THEN t ELSE db.epoch
         /\ t \in Restores(tasks) => db'.events = <<>> /\ x.events = <<>>
         /\ t \notin Restores(tasks) => db'.events = AddedAll(db.events, x.events)
         /\ t \notin Eventful(tasks) => x.events = <<>>
         /\ \A r \in Records : t \in Writers(tasks, r) =>
              \A u \in Writers(tasks, r) : u = t \/ t < u
         /\ t \in Eventful(tasks) => \A u \in Eventful(tasks) : u = t \/ t < u
         /\ mirror' = mirror /\ eventBatch' = eventBatch /\ failure' = failure
         /\ promised' = promised /\ flushing' = flushing
         /\ x.events \in Seq(Events)
<1>1. TaskOK(x, t) /\ x \in Tasks /\ x.phase # "queued" /\ x.phase # "written" /\ x.deps = {}
  <2>1. TaskOK(x, t)
    BY DEF MirrorInv, Shape
  <2>2. x.phase = "closed" \/ x.phase = "started"
    BY DEF Write, Runnable
  <2> QED
    BY <2>1, <2>2 DEF TaskOK
<1>2. /\ tasks' = [tasks EXCEPT ![t].phase = "written"]
      /\ mirror' = mirror /\ eventBatch' = eventBatch /\ failure' = failure
      /\ promised' = promised /\ flushing' = flushing /\ db' = Applied(t)
      /\ ready' = ready /\ enqueued' = enqueued /\ tails' = tails
      /\ lastEventTask' = lastEventTask /\ restoreTask' = restoreTask
  BY DEF Write
<1>3. PICK y : y = [x EXCEPT !.phase = "written"]
  OBVIOUS
<1>4. /\ y \in Tasks /\ y.kind = x.kind /\ y.records = x.records /\ y.events = x.events
      /\ y.deps = x.deps /\ y.waits = x.waits /\ y.phase = "written"
  BY <1>1, <1>3 DEF Tasks
<1>5. DOMAIN tasks' = DOMAIN tasks /\ tasks'[t] = y
      /\ \A u \in DOMAIN tasks : u # t => tasks'[u] = tasks[u]
  BY <1>2, <1>3 DEF Pending
<1>6. x.events \in Seq(Events)
  BY <1>1 DEF Tasks
<1>7. db \in Contents /\ db.events \in Seq(Events)
  BY DEF MirrorInv, Shape, Contents
<1>8. t \in Restores(tasks) <=> x.kind = "restore"
  BY DEF Restores, Pending
<1>9. \A r : t \in Writers(tasks, r) <=> r \in DOMAIN x.records
  BY DEF Writers, Pending
<1>10. t \in 0 .. MaxTasks
  BY DEF MirrorInv, Shape, MirrorAssumption
<1>11. /\ db' \in Contents
       /\ \A r \in Records : db'.records[r] = IF r \in DOMAIN x.records THEN t
                                              ELSE db.records[r]
       /\ db'.epoch = IF x.kind = "restore" THEN t ELSE db.epoch
       /\ x.kind = "restore" => db'.events = <<>> /\ x.events = <<>>
       /\ x.kind # "restore" => db'.events = AddedAll(db.events, x.events)
  <2>1. CASE x.kind = "restore"
    <3>1. /\ db' = [records |-> x.records, events |-> <<>>, epoch |-> t]
          /\ DOMAIN x.records = Records /\ x.events = <<>>
      BY <2>1, <1>1, <1>2 DEF Applied, TaskOK
    <3>2. x.records \in [Records -> 0 .. MaxTasks]
      <4>1. PICK Q \in SUBSET Records : x.records \in [Q -> 1 .. MaxTasks]
        BY <1>1 DEF Tasks
      <4>2. x.records = [r \in Records |-> x.records[r]]
        BY <4>1, <3>1
      <4>3. \A r \in Records : x.records[r] = t
        BY <3>1, <1>1 DEF TaskOK
      <4> QED
        BY <4>2, <4>3, <1>10
    <3>3. \A r \in Records : x.records[r] = t
      BY <3>1, <1>1 DEF TaskOK
    <3>4. <<>> \in Seq(Events)
      OBVIOUS
    <3> QED
      BY <2>1, <3>1, <3>2, <3>3, <3>4, <1>10 DEF Contents
  <2>2. CASE x.kind # "restore"
    <3>1. PICK f : f = [r \in Records |-> IF r \in DOMAIN x.records THEN x.records[r]
                                          ELSE db.records[r]]
      OBVIOUS
    <3>2. PICK es : es = AddedAll(db.events, x.events)
      OBVIOUS
    <3>3. es \in Seq(Events)
      BY <3>2, <1>6, <1>7, AddedAllHolds
    <3>4. db' = [db EXCEPT !.records = f, !.events = es]
      BY <2>2, <3>1, <3>2, <1>2 DEF Applied
    <3>5. \A r \in Records : f[r] = IF r \in DOMAIN x.records THEN t ELSE db.records[r]
      BY <3>1, <1>1 DEF TaskOK
    <3>6. f \in [Records -> 0 .. MaxTasks]
      BY <3>1, <3>5, <1>7, <1>10 DEF Contents
    <3> QED
      BY <2>2, <3>2, <3>3, <3>4, <3>5, <3>6, <1>7 DEF Contents
  <2> QED
    BY <2>1, <2>2
<1>12. /\ Shape' /\ ReadyOK(tasks', ready') /\ Slots(tasks', ready') /\ Waiting' /\ Chains'
       /\ \A r : Writers(tasks', r) = Writers(tasks, r)
       /\ Eventful(tasks') = Eventful(tasks) /\ Restores(tasks') = Restores(tasks)
  <2>1. TaskOK(y, t)
    BY <1>1, <1>4 DEF TaskOK
  <2>2. ASSUME NEW u \in DOMAIN tasks
        PROVE  /\ TaskOK(tasks'[u], u)
               /\ tasks'[u].kind = tasks[u].kind /\ tasks'[u].records = tasks[u].records
               /\ tasks'[u].deps = tasks[u].deps
               /\ tasks'[u].phase = "queued" <=> tasks[u].phase = "queued"
               /\ \A w \in tasks'[u].waits : w \in tasks[u].waits
    <3>1. CASE u = t
      BY <3>1, <2>1, <1>1, <1>4, <1>5
    <3>2. CASE u # t
      BY <3>2, <1>5 DEF MirrorInv, Shape, Pending
    <3> QED
      BY <3>1, <3>2
  <2>3. mirror' \in Contents
    BY <1>2 DEF MirrorInv, Shape
  <2>4. IsInjective(db'.events)
    <3>1. CASE x.kind = "restore"
      BY <3>1, <1>11 DEF IsInjective
    <3>2. CASE x.kind # "restore"
      BY <3>2, <1>6, <1>7, <1>11, AddedAllInjective DEF MirrorInv, Shape
    <3> QED
      BY <3>1, <3>2
  <2> QED
    BY <2>2, <2>3, <2>4, <1>2, <1>5, <1>11, QueueKept
<1>13. t \in Unwritten(tasks) /\ Unwritten(tasks') = Unwritten(tasks) \ {t}
  BY <1>1, <1>4, <1>5 DEF Unwritten, Pending
<1>14. \A u \in Pending : tasks'[u].events = tasks[u].events
  BY <1>4, <1>5 DEF Pending
<1>15. \A W : Follows(tasks, W) /\ t \in W /\ W \subseteq Pending =>
                \A u \in W : u = t \/ t < u
  <2> SUFFICES ASSUME NEW W, Follows(tasks, W), t \in W, W \subseteq Pending, NEW u \in W
               PROVE  u = t \/ t < u
    OBVIOUS
  <2>1. ~(u < t)
    BY <1>1 DEF Follows
  <2>2. u \in Nat /\ t \in Nat
    <3>1. PICK h : h = enqueued
      OBVIOUS
    <3> QED
      BY <3>1, Numbers DEF MirrorInv
  <2> QED
    BY <2>1, <2>2
<1>16. /\ \A r \in Records : Follows(tasks, Writers(tasks, r)) /\ Writers(tasks, r) \subseteq Pending
       /\ Follows(tasks, Eventful(tasks)) /\ Eventful(tasks) \subseteq Pending
  BY DEF MirrorInv, Chains, Writers, Eventful, Pending
<1>17. t \notin Eventful(tasks) => x.events = <<>>
  BY <1>1 DEF Eventful, TaskOK, Pending
<1> QED
  BY <1>2, <1>6, <1>8, <1>9, <1>11, <1>12, <1>13, <1>14, <1>15, <1>16, <1>17

LEMMA WriteValues ==
  ASSUME MirrorAssumption, MirrorInv, NEW t \in Pending, Write(t)
  PROVE  Values'
<1>1. PICK x : x = tasks[t]
  OBVIOUS
<1>2. /\ \A r : Writers(tasks', r) = Writers(tasks, r)
      /\ Eventful(tasks') = Eventful(tasks) /\ Restores(tasks') = Restores(tasks)
      /\ t \in Unwritten(tasks) /\ Unwritten(tasks') = Unwritten(tasks) \ {t}
      /\ \A r \in Records : db'.records[r] = IF t \in Writers(tasks, r) THEN t
                                             ELSE db.records[r]
      /\ db'.epoch = IF t \in Restores(tasks) THEN t ELSE db.epoch
      /\ \A r \in Records : t \in Writers(tasks, r) =>
           \A u \in Writers(tasks, r) : u = t \/ t < u
      /\ t \in Eventful(tasks) => \A u \in Eventful(tasks) : u = t \/ t < u
      /\ mirror' = mirror /\ failure' = failure
  BY <1>1, WriteFacts
<1>3. PICK h : h = enqueued
  OBVIOUS
<1>4. /\ h \in Nat /\ \A u \in Pending : u \in Nat
      /\ Eventful(tasks) \subseteq Pending /\ Restores(tasks) \subseteq Eventful(tasks)
      /\ \A r \in Records : mirror.records[r] \in Nat /\ db.records[r] \in Nat
      /\ mirror.epoch \in Nat /\ db.epoch \in Nat
  BY <1>3, Numbers DEF MirrorInv
<1>5. \A d, m, U : /\ Channel(d, m, U, failure) /\ t \in U /\ (\A u \in U : u = t \/ t < u)
                   /\ d \in Nat /\ m \in Nat
                   => Channel(t, m, U \ {t}, failure)
  <2> SUFFICES ASSUME NEW d \in Nat, NEW m \in Nat, NEW U, Channel(d, m, U, failure), t \in U,
                      \A u \in U : u = t \/ t < u
               PROVE  Channel(t, m, U \ {t}, failure)
    OBVIOUS
  <2>1. d < t /\ t <= m /\ t \in Nat
    BY <1>4 DEF Channel
  <2>2. ~(m <= d)
    BY <2>1
  <2>3. ~failure => m <= t \/ m \in U \ {t}
    BY <2>1, <2>2 DEF Channel
  <2> QED
    BY <2>1, <2>3 DEF Channel
<1>6. ASSUME NEW r \in Records
      PROVE  Channel(db'.records[r], mirror'.records[r],
                     Writers(tasks', r) \cap Unwritten(tasks'), failure')
  <2>1. PICK U : U = Writers(tasks, r) \cap Unwritten(tasks)
    OBVIOUS
  <2>2. Channel(db.records[r], mirror.records[r], U, failure)
    BY <2>1 DEF MirrorInv, Values
  <2>3. Writers(tasks', r) \cap Unwritten(tasks') = U \ {t}
    BY <2>1, <1>2
  <2>4. CASE t \in Writers(tasks, r)
    <3>1. t \in U /\ \A u \in U : u = t \/ t < u
      BY <2>1, <2>4, <1>2
    <3>2. db'.records[r] = t /\ db.records[r] \in Nat /\ mirror.records[r] \in Nat
      BY <2>4, <1>2, <1>4
    <3> QED
      BY <2>2, <2>3, <3>1, <3>2, <1>2, <1>5
  <2>5. CASE t \notin Writers(tasks, r)
    <3>1. U \ {t} = U /\ db'.records[r] = db.records[r]
      BY <2>1, <2>5, <1>2
    <3> QED
      BY <2>2, <2>3, <3>1, <1>2
  <2> QED
    BY <2>4, <2>5
<1>7. PICK R : R = Restores(tasks) \cap Unwritten(tasks)
  OBVIOUS
<1>8. Channel(db.epoch, mirror.epoch, R, failure)
  BY <1>7 DEF MirrorInv, Values
<1>9. Restores(tasks') \cap Unwritten(tasks') = R \ {t}
  BY <1>2, <1>7
<1>10. CASE t \in Restores(tasks)
  <2>1. t \in R /\ \A u \in R : u = t \/ t < u
    BY <1>2, <1>4, <1>7, <1>10
  <2>2. Channel(t, mirror.epoch, R \ {t}, failure)
    BY <2>1, <1>4, <1>5, <1>8
  <2>3. db.epoch < t /\ t <= mirror.epoch /\ t \in Nat
    BY <2>1, <1>4, <1>8 DEF Channel
  <2>4. ASSUME NEW u \in Eventful(tasks) \cap (Unwritten(tasks) \ {t}), u < mirror.epoch
        PROVE  t < mirror.epoch
    <3>1. t < u /\ u \in Nat
      BY <1>2, <1>4, <1>10
    <3> QED
      BY <2>3, <2>4, <3>1, <1>4
  <2>5. ASSUME NEW u \in Current(tasks', mirror.epoch)
        PROVE  t = mirror.epoch \/ mirror.epoch \in R \ {t}
    <3>1. u \in Current(tasks, mirror.epoch)
      BY <1>2 DEF Current
    <3>2. db.epoch = mirror.epoch \/ mirror.epoch \in R
      BY <3>1, <1>7 DEF MirrorInv, Values
    <3>3. db.epoch # mirror.epoch
      BY <2>3, <1>4
    <3> QED
      BY <3>2, <3>3
  <2> QED
    BY <2>2, <2>4, <2>5, <1>2, <1>6, <1>9, <1>10 DEF Values
<1>11. CASE t \notin Restores(tasks)
  <2>1. R \ {t} = R /\ db'.epoch = db.epoch
    BY <1>2, <1>7, <1>11
  <2>2. ASSUME NEW u \in Current(tasks', mirror.epoch)
        PROVE  db.epoch = mirror.epoch \/ mirror.epoch \in R
    <3>1. u \in Current(tasks, mirror.epoch)
      BY <1>2 DEF Current
    <3> QED
      BY <3>1, <1>7 DEF MirrorInv, Values
  <2>3. \A u \in Eventful(tasks) \cap (Unwritten(tasks) \ {t}) :
          u < mirror.epoch => db.epoch < mirror.epoch
    BY DEF MirrorInv, Values
  <2> QED
    BY <2>1, <2>2, <2>3, <1>2, <1>6, <1>8, <1>9 DEF Values
<1> QED
  BY <1>10, <1>11

LEMMA WriteDurable ==
  ASSUME MirrorAssumption, MirrorInv, NEW t \in Pending, Write(t),
         NEW m \in Contents, Durable(m)
  PROVE  Durable(m)'
<1>1. PICK x : x = tasks[t]
  OBVIOUS
<1>2. /\ t \in Unwritten(tasks) /\ x.events \in Seq(Events)
      /\ \A r \in Records : db'.records[r] = IF t \in Writers(tasks, r) THEN t
                                             ELSE db.records[r]
      /\ db'.epoch = IF t \in Restores(tasks) THEN t ELSE db.epoch
      /\ t \notin Restores(tasks) => db'.events = AddedAll(db.events, x.events)
  BY <1>1, WriteFacts
<1>3. PICK h : h = enqueued
  OBVIOUS
<1>4. /\ t \in Nat /\ db.epoch \in Nat /\ \A r \in Records : db.records[r] \in Nat
  BY <1>3, Numbers DEF MirrorInv
<1>5. m.epoch \in Nat /\ \A r \in Records : m.records[r] \in Nat
  BY DEF Contents, MirrorAssumption
<1>6. CASE t \in Restores(tasks)
  <2>1. db.epoch < t
    BY <1>2, <1>6 DEF MirrorInv, Values, Channel
  <2>2. db.epoch >= m.epoch
    BY <1>4, <1>5 DEF Durable
  <2>3. db'.epoch > m.epoch
    BY <2>1, <2>2, <1>2, <1>4, <1>5, <1>6
  <2> QED
    BY <2>3 DEF Durable
<1>7. CASE t \notin Restores(tasks)
  <2>1. CASE db.epoch > m.epoch
    BY <2>1, <1>2, <1>7 DEF Durable
  <2>2. CASE ~(db.epoch > m.epoch)
    <3>1. /\ db.epoch = m.epoch /\ \A r \in Records : db.records[r] >= m.records[r]
          /\ ToSet(m.events) \subseteq ToSet(db.events)
      BY <2>2 DEF Durable
    <3>2. ASSUME NEW r \in Records PROVE db'.records[r] >= m.records[r]
      <4>1. CASE t \in Writers(tasks, r)
        <5>1. db.records[r] < t
          BY <4>1, <1>2 DEF MirrorInv, Values, Channel
        <5>2. db.records[r] >= m.records[r] /\ db'.records[r] = t
          BY <3>1, <4>1, <1>2
        <5> QED
          BY <5>1, <5>2, <1>4, <1>5
      <4>2. CASE t \notin Writers(tasks, r)
        BY <4>2, <3>1, <1>2
      <4> QED
        BY <4>1, <4>2
    <3>3. db.events \in Seq(Events)
      BY DEF MirrorInv, Shape, Contents
    <3>4. ToSet(db.events) \subseteq ToSet(db'.events)
      BY <3>3, <1>2, <1>7, AddedAllHolds
    <3> QED
      BY <3>1, <3>2, <3>4, <1>2, <1>7 DEF Durable
  <2> QED
    BY <2>1, <2>2
<1> QED
  BY <1>6, <1>7
LEMMA WriteLog ==
  ASSUME MirrorAssumption, MirrorInv, NEW t \in Pending, Write(t)
  PROVE  Log'
<1>1. PICK x : x = tasks[t]
  OBVIOUS
<1>2. /\ Eventful(tasks') = Eventful(tasks) /\ Restores(tasks') = Restores(tasks)
      /\ t \in Unwritten(tasks) /\ Unwritten(tasks') = Unwritten(tasks) \ {t}
      /\ \A u \in Pending : tasks'[u].events = tasks[u].events
      /\ db'.epoch = IF t \in Restores(tasks) THEN t ELSE db.epoch
      /\ t \in Restores(tasks) => db'.events = <<>> /\ x.events = <<>>
      /\ t \notin Restores(tasks) => db'.events = AddedAll(db.events, x.events)
      /\ t \notin Eventful(tasks) => x.events = <<>>
      /\ t \in Eventful(tasks) => \A u \in Eventful(tasks) : u = t \/ t < u
      /\ mirror' = mirror /\ failure' = failure /\ eventBatch' = eventBatch
      /\ x.events \in Seq(Events) /\ Shape'
  BY <1>1, WriteFacts
<1>3. PICK h : h = enqueued
  OBVIOUS
<1>4. /\ h \in Nat /\ \A u \in Pending : u \in Nat
      /\ Eventful(tasks) \subseteq Pending /\ Restores(tasks) \subseteq Eventful(tasks)
      /\ mirror.epoch \in Nat /\ db.epoch \in Nat
  BY <1>3, Numbers DEF MirrorInv
<1>5. PICK M \in Seq(Events) : M = mirror.events
  BY DEF MirrorInv, Shape, Contents
<1>6. PICK D \in Seq(Events) : D = db.events
  BY DEF MirrorInv, Shape, Contents
<1>7. PICK D2 \in Seq(Events) : D2 = db'.events
  BY <1>2 DEF Shape, Contents
<1>8. PICK k \in Nat : k = Len(M) /\ DOMAIN M = 1 .. k
  OBVIOUS
<1>9. PICK n \in Nat : n = Len(D)
  OBVIOUS
<1>10. PICK q \in Nat : q = Len(D2)
  OBVIOUS
<1>11. PICK l \in Nat : l = Len(x.events) /\ DOMAIN x.events = 1 .. l
  BY <1>2
<1>a. PICK es \in Seq(Events) : es = x.events
  BY <1>2
<1>12. IsInjective(M)
  BY <1>5 DEF MirrorInv, Log
<1> DEFINE C == Current(tasks, mirror.epoch)
<1>13. Current(tasks', mirror'.epoch) = C \ {t}
  BY <1>2 DEF Current
<1>14. C \subseteq Pending
  BY DEF Current, Eventful, Pending
<1>15. ~failure /\ eventBatch # 0 => eventBatch # t
  <2>1. x.kind = "batch" => x.phase = "closed"
    BY <1>1 DEF Write, Runnable
  <2> QED
    BY <2>1, <1>1 DEF MirrorInv, Log
(* The events in the database are still the first ones of the mirror, and  *)
(* an event the task carried is one of them.                               *)
<1>16. /\ db'.epoch = mirror.epoch => q <= k /\ \A i \in 1 .. q : D2[i] = M[i]
       /\ \A i \in 1 .. k : Stands(i) => Stands(i)'
       /\ t \in C => \A i \in 1 .. k : Carries(x, M[i]) => Stands(i)'
  <2>0. \A i : Stands(i) <=> db.epoch = mirror.epoch /\ i <= n
    BY <1>6, <1>9 DEF Stands
  <2>s. \A i : Stands(i)' <=> db'.epoch = mirror.epoch /\ i <= q
    BY <1>2, <1>7, <1>10 DEF Stands
  <2>p. db.epoch = mirror.epoch => n <= k /\ \A i \in 1 .. n : D[i] = M[i]
    BY <1>5, <1>6, <1>8, <1>9 DEF MirrorInv, Log
  <2>1. CASE t \in Restores(tasks)
    <3>1. q = 0 /\ db'.epoch = t /\ l = 0 /\ t \in Nat
      BY <2>1, <1>2, <1>4, <1>7, <1>10, <1>11
    <3>2. db.epoch < t /\ t <= mirror.epoch
      BY <2>1, <1>2 DEF MirrorInv, Values, Channel
    <3>3. db.epoch # mirror.epoch
      BY <3>1, <3>2, <1>4
    <3>4. \A e : ~Carries(x, e)
      BY <3>1, <1>11 DEF Carries, ToSet
    <3>5. q <= k /\ \A i \in 1 .. q : D2[i] = M[i]
      BY <3>1
    <3> QED
      BY <2>0, <3>3, <3>4, <3>5
  <2>2. CASE t \notin Restores(tasks) /\ t \in C
    <3>1. db'.epoch = db.epoch /\ D2 = AddedAll(D, x.events)
      BY <2>2, <1>2, <1>6, <1>7
    <3>2. PICK p \in 0 .. k : PlacedAt(t, p)
      BY <2>2, <1>5, <1>8 DEF MirrorInv, Log
    <3>3. p + l <= k /\ \A a \in 1 .. l : M[p + a] = x.events[a]
      BY <3>2, <1>1, <1>5, <1>8, <1>11 DEF PlacedAt
    <3>4. \A i \in 1 .. p : Stands(i)
      <4>1. ASSUME NEW u \in C, u < t PROVE FALSE
        <5>1. t \in Eventful(tasks) /\ u \in Eventful(tasks)
          BY <2>2 DEF Current
        <5>2. u \in Nat /\ t \in Nat
          BY <5>1, <1>4
        <5>3. u = t \/ t < u
          BY <5>1, <1>2
        <5> QED
          BY <4>1, <5>2, <5>3
      <4> QED
        BY <4>1, <3>2 DEF PlacedAt
    <3>5. db.epoch = mirror.epoch
      <4>1. db.epoch = mirror.epoch \/ mirror.epoch \in Restores(tasks)
        BY <2>2 DEF MirrorInv, Values
      <4>2. ASSUME mirror.epoch \in Restores(tasks) PROVE FALSE
        <5>1. t \in Eventful(tasks) /\ t >= mirror.epoch /\ t \in Nat
          BY <2>2, <1>4 DEF Current
        <5>2. mirror.epoch = t \/ t < mirror.epoch
          BY <5>1, <4>2, <1>2, <1>4
        <5> QED
          BY <5>1, <5>2, <4>2, <2>2, <1>4
      <4> QED
        BY <4>1, <4>2
    <3>6. p <= n
      <4>1. CASE p = 0
        BY <4>1
      <4>2. CASE p # 0
        BY <4>2, <3>4, <2>0
      <4> QED
        BY <4>1, <4>2
    <3>7. n <= k /\ \A i \in 1 .. n : D[i] = M[i]
      BY <2>p, <3>5
    <3>8. /\ q = IF p + l > n THEN p + l ELSE n
          /\ \A i \in 1 .. q : D2[i] = M[i]
      <4>1. Opens(D, M)
        BY <1>8, <1>9, <3>7 DEF Opens
      <4>2. LiesAt(es, M, p)
        BY <1>8, <1>11, <1>a, <3>3 DEF LiesAt
      <4>3. p \in Nat /\ p <= Len(D)
        BY <1>9, <3>6
      <4>4. /\ Opens(AddedAll(D, es), M)
            /\ Len(AddedAll(D, es)) = IF p + Len(es) > Len(D) THEN p + Len(es) ELSE Len(D)
        BY <4>1, <4>2, <4>3, <1>12, AddedAllExtends
      <4>5. D2 = AddedAll(D, es)
        BY <3>1, <1>a
      <4> QED
        BY <4>4, <4>5, <1>9, <1>10, <1>11, <1>a DEF Opens
    <3>9. n <= q /\ p + l <= q /\ q <= k
      BY <3>3, <3>7, <3>8
    <3>10. ASSUME NEW i \in 1 .. k, Carries(x, M[i]) PROVE i <= q
      <4>1. PICK a \in 1 .. l : x.events[a] = M[i]
        BY <3>10, <1>11 DEF Carries, ToSet
      <4>2. M[p + a] = M[i] /\ p + a \in 1 .. k
        BY <4>1, <3>3
      <4>3. p + a = i
        BY <4>2, <1>8, <1>12 DEF IsInjective
      <4> QED
        BY <4>3, <3>9
    <3>11. \A i \in 1 .. k : Stands(i) => Stands(i)'
      BY <2>0, <2>s, <3>1, <3>5, <3>9
    <3>12. \A i \in 1 .. k : Carries(x, M[i]) => Stands(i)'
      BY <2>s, <3>1, <3>5, <3>10
    <3> QED
      BY <3>8, <3>9, <3>11, <3>12
  <2>3. CASE t \notin Restores(tasks) /\ t \notin C
    <3>1. db'.epoch = db.epoch /\ D2 = AddedAll(D, x.events)
      BY <2>3, <1>2, <1>6, <1>7
    <3>2. CASE t \in Eventful(tasks)
      <4>1. ~(t >= mirror.epoch)
        BY <2>3, <3>2, <1>2 DEF Current
      <4>2. db.epoch < mirror.epoch
        BY <4>1, <3>2, <1>2, <1>4 DEF MirrorInv, Values
      <4>3. db.epoch # mirror.epoch
        BY <4>2, <1>4
      <4> QED
        BY <2>0, <2>3, <3>1, <4>3
    <3>3. CASE t \notin Eventful(tasks)
      <4>1. l = 0
        BY <3>3, <1>2, <1>11
      <4>2. es = <<>>
        BY <4>1, <1>11, <1>a
      <4>3. D2 = D
        BY <4>2, <3>1, <1>a, AddedNothing
      <4>4. q = n
        BY <4>3, <1>9, <1>10
      <4> QED
        BY <2>0, <2>s, <2>p, <2>3, <3>1, <4>3, <4>4
    <3> QED
      BY <3>2, <3>3
  <2> QED
    BY <2>1, <2>2, <2>3
<1>17. \A u \in C : u # t =>
         /\ u \in C \ {t} /\ tasks'[u].events = tasks[u].events
         /\ tasks[u].events \in Seq(Events)
  BY <1>2, <1>14 DEF MirrorInv, Shape, TaskOK, Tasks
<1>18. ASSUME NEW i \in 1 .. k, NEW u \in C, Carries(tasks[u], M[i])
       PROVE  Stands(i)' \/ (u \in C \ {t} /\ Carries(tasks'[u], M[i]))
  <2>1. CASE u = t
    BY <2>1, <1>1, <1>16, <1>18
  <2>2. CASE u # t
    BY <2>2, <1>17, <1>18 DEF Carries
  <2> QED
    BY <2>1, <2>2
<1>19. ASSUME NEW u \in C \ {t} PROVE \E p \in 0 .. k : PlacedAt(u, p)'
  <2>1. PICK p \in 0 .. k : PlacedAt(u, p)
    BY <1>5, <1>8 DEF MirrorInv, Log
  <2>2. /\ p + Len(tasks'[u].events) <= k
        /\ \A a \in DOMAIN tasks'[u].events : M[p + a] = tasks'[u].events[a]
    BY <2>1, <1>5, <1>8, <1>17 DEF PlacedAt
  <2>3. ASSUME NEW i \in 1 .. p
        PROVE  Stands(i)' \/ \E v \in C \ {t} : v < u /\ Carries(tasks'[v], M[i])
    <3>0. i \in 1 .. k
      OBVIOUS
    <3>1. Stands(i) \/ \E v \in C : v < u /\ Carries(tasks[v], M[i])
      BY <2>1, <1>5 DEF PlacedAt
    <3>2. CASE Stands(i)
      BY <3>0, <3>2, <1>16
    <3>3. CASE \E v \in C : v < u /\ Carries(tasks[v], M[i])
      <4>1. PICK v \in C : v < u /\ Carries(tasks[v], M[i])
        BY <3>3
      <4>2. Stands(i)' \/ (v \in C \ {t} /\ Carries(tasks'[v], M[i]))
        BY <4>1, <3>0, <1>18
      <4> QED
        BY <4>1, <4>2
    <3> QED
      BY <3>1, <3>2, <3>3
  <2>4. PlacedAt(u, p)'
    BY <2>2, <2>3, <1>2, <1>5, <1>8, <1>13 DEF PlacedAt
  <2> QED
    BY <2>4
<1>20. ASSUME ~failure, NEW i \in 1 .. k
       PROVE  Stands(i)' \/ \E u \in C \ {t} : Carries(tasks'[u], M[i])
  <2>1. Stands(i) \/ \E u \in C : Carries(tasks[u], M[i])
    BY <1>5, <1>8, <1>20 DEF MirrorInv, Log
  <2>2. CASE Stands(i)
    BY <2>2, <1>16
  <2>3. CASE \E u \in C : Carries(tasks[u], M[i])
    BY <2>3, <1>18
  <2> QED
    BY <2>1, <2>2, <2>3
<1>21. ASSUME ~failure, eventBatch # 0
       PROVE  /\ eventBatch \in C \ {t}
              /\ tasks'[eventBatch].kind = "batch"
              /\ tasks'[eventBatch].phase \in {"queued", "started"}
              /\ M # <<>>
              /\ tasks'[eventBatch].events[Len(tasks'[eventBatch].events)] = M[Len(M)]
  <2>1. /\ eventBatch \in C /\ tasks[eventBatch].kind = "batch"
        /\ tasks[eventBatch].phase \in {"queued", "started"} /\ M # <<>>
        /\ tasks[eventBatch].events[Len(tasks[eventBatch].events)] = M[Len(M)]
    BY <1>5, <1>21 DEF MirrorInv, Log
  <2>2. eventBatch # t
    BY <1>15, <1>21
  <2>3. tasks'[eventBatch] = tasks[eventBatch]
    BY <2>1, <2>2, <1>14 DEF Write, Pending
  <2> QED
    BY <2>1, <2>2, <2>3
<1> QED
  <2>1. db'.epoch = mirror.epoch => Len(D2) <= Len(M) /\ \A i \in 1 .. Len(D2) : D2[i] = M[i]
    BY <1>8, <1>10, <1>16
  <2> HIDE DEF C
  <2> QED
    BY <2>1, <1>2, <1>5, <1>7, <1>8, <1>12, <1>13, <1>19, <1>20, <1>21 DEF Log
LEMMA WriteFlushes ==
  ASSUME MirrorAssumption, MirrorInv, NEW t \in Pending, Write(t)
  PROVE  Flushes'
<1>1. PICK x : x = tasks[t]
  OBVIOUS
<1>2. /\ \A r : Writers(tasks', r) = Writers(tasks, r)
      /\ Eventful(tasks') = Eventful(tasks) /\ Restores(tasks') = Restores(tasks)
      /\ t \in Unwritten(tasks) /\ Unwritten(tasks') = Unwritten(tasks) \ {t}
      /\ \A u \in Pending : tasks'[u].events = tasks[u].events
      /\ \A r \in Records : db'.records[r] = IF t \in Writers(tasks, r) THEN t
                                             ELSE db.records[r]
      /\ db'.epoch = IF t \in Restores(tasks) THEN t ELSE db.epoch
      /\ t \in Restores(tasks) => x.events = <<>>
      /\ t \notin Restores(tasks) => db'.events = AddedAll(db.events, x.events)
      /\ t \notin Eventful(tasks) => x.events = <<>>
      /\ t \in Eventful(tasks) => \A u \in Eventful(tasks) : u = t \/ t < u
      /\ failure' = failure /\ flushing' = flushing /\ x.events \in Seq(Events)
  BY <1>1, WriteFacts
<1>3. PICK h : h = enqueued
  OBVIOUS
<1>4. /\ h \in Nat /\ \A u \in Pending : u \in Nat
      /\ Eventful(tasks) \subseteq Pending /\ Restores(tasks) \subseteq Eventful(tasks)
      /\ Unwritten(tasks) \subseteq Pending
      /\ \A r \in Records : db.records[r] \in Nat
      /\ db.epoch \in Nat
  BY <1>3, Numbers DEF MirrorInv
<1>5. enqueued' = enqueued
  BY DEF Write
<1>6. \A r \in Records : t \in Writers(tasks, r) => db.records[r] < t
  BY <1>2 DEF MirrorInv, Values, Channel
<1>7. t \in Restores(tasks) => db.epoch < t
  BY <1>2 DEF MirrorInv, Values, Channel
<1>8. ASSUME NEW w, NEW m \in Contents, Coming(w, m) PROVE Coming(w, m)'
  <2>1. PICK U : U = w \cap Unwritten(tasks)
    OBVIOUS
  <2>2. w \cap Unwritten(tasks') = U \ {t}
    BY <2>1, <1>2
  <2>3. m.epoch \in Nat /\ \A r \in Records : m.records[r] \in Nat
    BY DEF Contents, MirrorAssumption
  <2>4. /\ \A r \in Records : \/ m.records[r] <= db.records[r]
                              \/ m.records[r] \in Writers(tasks, r) \cap U
        /\ m.epoch <= db.epoch \/ m.epoch \in Restores(tasks) \cap U
        /\ \A e \in ToSet(m.events) :
             \/ db.epoch > m.epoch
             \/ db.epoch = m.epoch /\ e \in ToSet(db.events)
             \/ \E u \in U : u >= m.epoch /\ Carries(tasks[u], e)
    BY <2>1, <1>8 DEF Coming
  <2>5. ASSUME NEW r \in Records
        PROVE  \/ m.records[r] <= db'.records[r]
               \/ m.records[r] \in Writers(tasks, r) \cap (U \ {t})
    <3>1. t \in Nat /\ db.records[r] \in Nat /\ m.records[r] \in Nat
      BY <1>4, <2>3
    <3>2. CASE t \in Writers(tasks, r)
      <4>1. db'.records[r] = t /\ db.records[r] < t
        BY <3>2, <1>2, <1>6
      <4> QED
        BY <4>1, <3>1, <2>4
    <3>3. CASE t \notin Writers(tasks, r)
      BY <3>3, <1>2, <2>4
    <3> QED
      BY <3>2, <3>3
  <2>6. m.epoch <= db'.epoch \/ m.epoch \in Restores(tasks) \cap (U \ {t})
    <3>1. CASE t \in Restores(tasks)
      <4>1. db'.epoch = t /\ db.epoch < t /\ t \in Nat
        BY <3>1, <1>2, <1>4, <1>7
      <4> QED
        BY <4>1, <1>4, <2>3, <2>4
    <3>2. CASE t \notin Restores(tasks)
      BY <3>2, <1>2, <2>4
    <3> QED
      BY <3>1, <3>2
  <2>7. ASSUME NEW e \in ToSet(m.events)
        PROVE  \/ db'.epoch > m.epoch
               \/ db'.epoch = m.epoch /\ e \in ToSet(db'.events)
               \/ \E u \in U \ {t} : u >= m.epoch /\ Carries(tasks'[u], e)
    <3>0. \A u \in U : Carries(tasks'[u], e) <=> Carries(tasks[u], e)
      BY <2>1, <1>2, <1>4 DEF Carries
    <3>1. CASE t \in Restores(tasks)
      <4>1. db'.epoch = t /\ db.epoch < t /\ t \in Nat
        BY <3>1, <1>2, <1>4, <1>7
      <4>2. ~Carries(tasks[t], e)
        BY <3>1, <1>1, <1>2 DEF Carries, ToSet
      <4>3. CASE \E u \in U : u >= m.epoch /\ Carries(tasks[u], e)
        BY <4>2, <4>3, <3>0
      <4>4. CASE db.epoch > m.epoch \/ db.epoch = m.epoch
        BY <4>1, <4>4, <1>4, <2>3
      <4> QED
        BY <4>3, <4>4, <2>4
    <3>2. CASE t \notin Restores(tasks)
      <4>1. db'.epoch = db.epoch
        BY <3>2, <1>2
      <4>2. ToSet(db'.events) = ToSet(db.events) \cup ToSet(x.events)
        <5>1. db.events \in Seq(Events)
          BY DEF MirrorInv, Shape, Contents
        <5> QED
          BY <5>1, <3>2, <1>2, AddedAllHolds
      <4>3. CASE Carries(x, e) /\ t \in U /\ t >= m.epoch
        <5>1. e \in ToSet(db'.events)
          BY <4>2, <4>3 DEF Carries
        <5>2. t \in Eventful(tasks)
          BY <4>3, <1>2 DEF Carries, ToSet
        <5>3. m.epoch \notin Restores(tasks)
          <6> SUFFICES ASSUME m.epoch \in Restores(tasks) PROVE FALSE
            OBVIOUS
          <6>1. m.epoch = t \/ t < m.epoch
            BY <5>2, <1>2, <1>4
          <6> QED
            BY <6>1, <4>3, <3>2, <1>4, <2>3
        <5>4. m.epoch <= db.epoch
          BY <5>3, <2>4
        <5> QED
          BY <5>1, <5>4, <4>1, <1>4, <2>3
      <4>4. CASE ~(Carries(x, e) /\ t \in U /\ t >= m.epoch)
        <5>1. CASE \E u \in U : u >= m.epoch /\ Carries(tasks[u], e)
          BY <5>1, <4>4, <3>0, <1>1
        <5>2. CASE db.epoch > m.epoch
          BY <5>2, <4>1
        <5>3. CASE db.epoch = m.epoch /\ e \in ToSet(db.events)
          BY <5>3, <4>1, <4>2
        <5> QED
          BY <5>1, <5>2, <5>3, <2>4
      <4> QED
        BY <4>3, <4>4
    <3> QED
      BY <3>1, <3>2
  <2> QED
    BY <2>2, <2>5, <2>6, <2>7, <1>2 DEF Coming
<1>9. ASSUME NEW c \in Requests
      PROVE  /\ flushing'[c] \in [waits : SUBSET (1 .. enqueued), covers : SUBSET Contents]
             /\ flushing'[c] # NoFlush => flushing'[c].covers # {}
             /\ ~failure => \A m \in flushing'[c].covers : Coming(flushing[c].waits, m)'
  <2>1. /\ flushing[c] \in [waits : SUBSET (1 .. enqueued), covers : SUBSET Contents]
        /\ flushing[c] # NoFlush => flushing[c].covers # {}
        /\ ~failure => \A m \in flushing[c].covers : Coming(flushing[c].waits, m)
    BY DEF MirrorInv, Flushes
  <2> QED
    BY <2>1, <1>2, <1>8
<1>10. flushing' = [c \in Requests |-> flushing'[c]]
  BY <1>2 DEF MirrorInv, Flushes
<1> QED
  BY <1>2, <1>5, <1>9, <1>10 DEF Flushes

LEMMA WriteKeeps ==
  ASSUME MirrorAssumption, MirrorInv, NEW t \in Pending, Write(t)
  PROVE  MirrorInv'
<1>1. PICK x : x = tasks[t]
  OBVIOUS
<1>2. /\ Shape' /\ ReadyOK(tasks', ready') /\ Slots(tasks', ready') /\ Waiting' /\ Chains'
      /\ promised' = promised
  BY <1>1, WriteFacts
<1>3. PICK m \in Contents : m = promised
  BY DEF MirrorInv, Shape
<1>4. Durable(m)'
  BY <1>3, WriteDurable DEF MirrorInv
<1>5. Durable(promised)'
  BY <1>2, <1>3, <1>4
<1> QED
  BY <1>2, <1>5, WriteValues, WriteLog, WriteFlushes DEF MirrorInv
-----------------------------------------------------------------------------
(* flushEventBatch: the batch takes no event any more.                     *)
LEMMA BatchTurnKeeps ==
  ASSUME MirrorAssumption, MirrorInv, NEW t \in Pending, BatchTurn(t)
  PROVE  MirrorInv'
<1>1. PICK x : x = tasks[t]
  OBVIOUS
<1>2. TaskOK(x, t) /\ x \in Tasks /\ x.kind = "batch" /\ x.phase = "started"
  BY <1>1 DEF BatchTurn, MirrorInv, Shape, TaskOK
<1>3. /\ tasks' = [tasks EXCEPT ![t].phase = "closed"]
      /\ mirror' = mirror /\ failure' = failure /\ db' = db
      /\ promised' = promised /\ flushing' = flushing
      /\ ready' = ready /\ enqueued' = enqueued /\ tails' = tails
      /\ lastEventTask' = lastEventTask /\ restoreTask' = restoreTask
      /\ eventBatch' = IF eventBatch = t THEN 0 ELSE eventBatch
  BY DEF BatchTurn
<1>4. PICK y : y = [x EXCEPT !.phase = "closed"]
  OBVIOUS
<1>5. /\ y \in Tasks /\ y.kind = x.kind /\ y.records = x.records /\ y.events = x.events
      /\ y.deps = x.deps /\ y.waits = x.waits /\ y.phase = "closed"
  BY <1>2, <1>4 DEF Tasks
<1>6. DOMAIN tasks' = DOMAIN tasks /\ tasks'[t] = y
      /\ \A u \in DOMAIN tasks : u # t => tasks'[u] = tasks[u]
  BY <1>1, <1>3, <1>4 DEF Pending
<1>7. TaskOK(y, t)
  BY <1>2, <1>5 DEF TaskOK
<1>8. \A u \in DOMAIN tasks :
        /\ TaskOK(tasks'[u], u)
        /\ tasks'[u].kind = tasks[u].kind /\ tasks'[u].records = tasks[u].records
        /\ tasks'[u].events = tasks[u].events
        /\ tasks'[u].deps = tasks[u].deps /\ tasks'[u].waits = tasks[u].waits
        /\ tasks'[u].phase = "queued" <=> tasks[u].phase = "queued"
  <2>1. ASSUME NEW u \in DOMAIN tasks
        PROVE  /\ TaskOK(tasks'[u], u)
               /\ tasks'[u].kind = tasks[u].kind /\ tasks'[u].records = tasks[u].records
               /\ tasks'[u].events = tasks[u].events
               /\ tasks'[u].deps = tasks[u].deps /\ tasks'[u].waits = tasks[u].waits
               /\ tasks'[u].phase = "queued" <=> tasks[u].phase = "queued"
    <3>1. CASE u = t
      BY <3>1, <1>1, <1>2, <1>5, <1>6, <1>7
    <3>2. CASE u # t
      BY <3>2, <1>6 DEF MirrorInv, Shape, Pending
    <3> QED
      BY <3>1, <3>2
  <2> QED
    BY <2>1
<1>9. mirror' \in Contents /\ db' \in Contents /\ IsInjective(db'.events)
  BY <1>3 DEF MirrorInv, Shape
<1>10. eventBatch' \in {0, eventBatch}
  BY <1>3
<1>11. /\ Shape' /\ ReadyOK(tasks', ready') /\ Slots(tasks', ready') /\ Waiting' /\ Chains'
       /\ \A r : Writers(tasks', r) = Writers(tasks, r)
       /\ Eventful(tasks') = Eventful(tasks) /\ Restores(tasks') = Restores(tasks)
  BY <1>3, <1>6, <1>8, <1>9, <1>10, QueueKept
<1>12. Unwritten(tasks') = Unwritten(tasks)
  <2>1. \A u \in DOMAIN tasks : tasks'[u].phase # "written" <=> tasks[u].phase # "written"
    BY <1>1, <1>2, <1>5, <1>6
  <2> QED
    BY <2>1, <1>6 DEF Unwritten
<1>13. Current(tasks', mirror'.epoch) = Current(tasks, mirror.epoch)
  BY <1>3, <1>11, <1>12 DEF Current
<1>14. Values'
  BY <1>3, <1>11, <1>12, <1>13 DEF MirrorInv, Values
<1>15. Flushes'
  <2>1. enqueued' \in Nat /\ enqueued <= enqueued'
    BY <1>3 DEF MirrorInv, Shape, MirrorAssumption
  <2>2. Kept(tasks, tasks')
    BY <1>8, <1>12 DEF Kept, Unwritten
  <2> QED
    BY <2>1, <2>2, <1>3, FlushesKept DEF MirrorInv
<1>16. Log'
  <2>1. \A u \in Current(tasks, mirror.epoch) : u \in DOMAIN tasks
    BY DEF Current, Eventful
  <2>2. \A i : Stands(i)' <=> Stands(i)
    BY <1>3 DEF Stands
  <2>3. \A u \in Current(tasks, mirror.epoch) : \A e :
          Carries(tasks'[u], e) <=> Carries(tasks[u], e)
    BY <2>1, <1>8 DEF Carries
  <2>4. ASSUME NEW u \in Current(tasks, mirror.epoch), NEW p, PlacedAt(u, p)
        PROVE  PlacedAt(u, p)'
    BY <2>1, <2>2, <2>3, <2>4, <1>3, <1>8, <1>13, SMTT(30) DEF PlacedAt
  <2>5. eventBatch' # 0 => eventBatch' # t /\ eventBatch' = eventBatch
    BY <1>3
  <2> QED
    BY <2>1, <2>2, <2>3, <2>4, <2>5, <1>3, <1>6, <1>13 DEF MirrorInv, Log
<1>17. Durable(promised)'
  BY <1>3 DEF MirrorInv, Durable
<1> QED
  BY <1>11, <1>14, <1>15, <1>16, <1>17 DEF MirrorInv
-----------------------------------------------------------------------------
(* settle: the ready tasks and the ones that waited for the settled task   *)
(* alone are what pump starts from.                                        *)
LEMMA SettleFacts ==
  ASSUME MirrorAssumption, MirrorInv, NEW t \in Pending, Settle(t)
  PROVE  /\ tasks[t].deps = {} /\ tasks[t].phase = "written"
         /\ DOMAIN tasks' = Pending \ {t}
         /\ ReadyOK(tasks', ready') /\ Slots(tasks', ready')
         /\ \A u \in Pending \ {t} :
              /\ TaskOK(tasks'[u], u)
              /\ tasks'[u].kind = tasks[u].kind /\ tasks'[u].records = tasks[u].records
              /\ tasks'[u].events = tasks[u].events
              /\ tasks'[u].deps = tasks[u].deps \ {t}
              /\ tasks'[u].waits = tasks[u].waits \ {t}
              /\ \/ tasks'[u].phase = tasks[u].phase
                 \/ tasks'[u].phase = "started" /\ tasks[u].phase = "queued"
<1>1. PICK P : P = Pending \ {t}
  OBVIOUS
<1>2. PICK left : left = [u \in P |-> [tasks[u] EXCEPT !.deps = @ \ {t}, !.waits = @ \ {t}]]
  OBVIOUS
<1>3. PICK old : old = [u \in P |-> tasks[u]]
  OBVIOUS
<1>4. PICK rd : rd = ready \o Released(old, {t})
  OBVIOUS
<1>5. Pump(left, rd) /\ tasks[t].phase = "written"
  BY <1>1, <1>2, <1>3, <1>4 DEF Settle, Settled
<1>6. \A u \in Pending : TaskOK(tasks[u], u) /\ tasks[u] \in Tasks
  BY DEF MirrorInv, Shape, TaskOK
<1>7. tasks[t].deps = {}
  BY <1>5, <1>6 DEF TaskOK
<1>8. ASSUME NEW u \in P
      PROVE  /\ left[u] \in Tasks /\ left[u].kind = tasks[u].kind
             /\ left[u].records = tasks[u].records /\ left[u].events = tasks[u].events
             /\ left[u].deps = tasks[u].deps \ {t} /\ left[u].waits = tasks[u].waits \ {t}
             /\ left[u].phase = tasks[u].phase
  <2>1. PICK x \in Tasks : x = tasks[u]
    BY <1>1, <1>6
  <2>2. left[u] = [x EXCEPT !.deps = @ \ {t}, !.waits = @ \ {t}]
    BY <2>1, <1>2
  <2>3. x.deps \ {t} \in SUBSET (1 .. MaxTasks) /\ x.waits \ {t} \in SUBSET (1 .. MaxTasks)
    BY DEF Tasks
  <2> QED
    BY <2>1, <2>2, <2>3 DEF Tasks
<1>9. DOMAIN left = P
  BY <1>2
<1>10. PICK h \in Nat : h = enqueued
  BY DEF MirrorInv, Shape, MirrorAssumption
<1>11. P \in SUBSET (1 .. h)
  BY <1>1, <1>10 DEF MirrorInv, Shape
<1>12. PICK S : S = {u \in P : /\ tasks[u].phase = "queued" /\ tasks[u].deps # {}
                               /\ tasks[u].deps \subseteq {t}}
  OBVIOUS
<1>13. Released(old, {t}) = Ascending(S)
  <2>1. {u \in DOMAIN old : /\ old[u].phase = "queued" /\ old[u].deps # {}
                            /\ old[u].deps \subseteq {t}} = S
    BY <1>3, <1>12
  <2> QED
    BY <2>1 DEF Released
<1>14. PICK a : a = Ascending(S)
  OBVIOUS
<1>15. S \in SUBSET (1 .. h) /\ S \subseteq P
  BY <1>11, <1>12
<1>16. /\ a \in Seq(S) /\ IsInjective(a) /\ \A u \in S : \E i \in DOMAIN a : a[i] = u
  BY <1>14, <1>15, AscendingFacts
<1>17. rd = ready \o a
  BY <1>4, <1>13, <1>14
<1>18. /\ ready \in Seq(Pending) /\ IsInjective(ready)
       /\ \A i \in DOMAIN ready : tasks[ready[i]].phase = "queued" /\ tasks[ready[i]].deps = {}
       /\ \A u \in Pending : tasks[u].phase = "queued" /\ tasks[u].deps = {} =>
                             \E i \in DOMAIN ready : ready[i] = u
  BY DEF MirrorInv, ReadyOK, Pending
<1>19. \A i \in DOMAIN ready : ready[i] \in P
  BY <1>1, <1>5, <1>18
<1>20. PICK m \in Nat : m = Len(ready) /\ DOMAIN ready = 1 .. m
  BY <1>18
<1>21. PICK n \in Nat : n = Len(a) /\ DOMAIN a = 1 .. n
  BY <1>16
<1>22. ready \in Seq(P)
  BY <1>18, <1>19, <1>20
<1>23. a \in Seq(P)
  <2>1. a \in [1 .. n -> S]
    BY <1>16, <1>21
  <2>2. a \in [1 .. n -> P]
    BY <2>1, <1>15
  <2> QED
    BY <2>2
<1>24. /\ rd \in Seq(P) /\ DOMAIN rd = 1 .. m + n
       /\ \A i \in 1 .. m : rd[i] = ready[i]
       /\ \A i \in 1 .. n : rd[m + i] = a[i]
  BY <1>17, <1>20, <1>21, <1>22, <1>23
<1>25. \A i \in 1 .. m + n : i \in 1 .. m \/ (i - m \in 1 .. n /\ rd[i] = a[i - m])
  <2> SUFFICES ASSUME NEW i \in 1 .. m + n, i \notin 1 .. m
               PROVE  i - m \in 1 .. n /\ rd[i] = a[i - m]
    OBVIOUS
  <2>1. PICK j \in 1 .. n : j = i - m /\ i = m + j
    OBVIOUS
  <2> QED
    BY <2>1, <1>24
<1>26. \A i \in 1 .. n : a[i] \in S /\ tasks[a[i]].deps # {}
  BY <1>12, <1>16, <1>21
<1>27. IsInjective(rd)
  <2> SUFFICES ASSUME NEW i \in 1 .. m + n, NEW j \in 1 .. m + n, rd[i] = rd[j] PROVE i = j
    BY <1>24 DEF IsInjective
  <2>1. CASE i \in 1 .. m /\ j \in 1 .. m
    BY <2>1, <1>18, <1>20, <1>24 DEF IsInjective
  <2>2. CASE i \in 1 .. m /\ j \notin 1 .. m
    <3>1. j - m \in 1 .. n /\ rd[j] = a[j - m]
      BY <2>2, <1>25
    <3>2. rd[i] = ready[i] /\ tasks[ready[i]].deps = {}
      BY <2>2, <1>18, <1>20, <1>24
    <3> QED
      BY <3>1, <3>2, <1>26
  <2>3. CASE i \notin 1 .. m /\ j \in 1 .. m
    <3>1. i - m \in 1 .. n /\ rd[i] = a[i - m]
      BY <2>3, <1>25
    <3>2. rd[j] = ready[j] /\ tasks[ready[j]].deps = {}
      BY <2>3, <1>18, <1>20, <1>24
    <3> QED
      BY <3>1, <3>2, <1>26
  <2>4. CASE i \notin 1 .. m /\ j \notin 1 .. m
    <3>1. i - m \in 1 .. n /\ rd[i] = a[i - m] /\ j - m \in 1 .. n /\ rd[j] = a[j - m]
      BY <2>4, <1>25
    <3>2. i - m = j - m
      BY <3>1, <1>16, <1>21 DEF IsInjective
    <3> QED
      BY <3>2
  <2> QED
    BY <2>1, <2>2, <2>3, <2>4
<1>28. ASSUME NEW i \in DOMAIN rd PROVE left[rd[i]].phase = "queued" /\ left[rd[i]].deps = {}
  <2>1. CASE i \in 1 .. m
    <3>1. rd[i] = ready[i] /\ rd[i] \in P
      BY <2>1, <1>19, <1>20, <1>24
    <3> QED
      BY <2>1, <3>1, <1>8, <1>18, <1>20
  <2>2. CASE i \notin 1 .. m
    <3>1. rd[i] \in S
      BY <2>2, <1>24, <1>25, <1>26
    <3> QED
      BY <3>1, <1>8, <1>12
  <2> QED
    BY <2>1, <2>2
<1>29. ASSUME NEW u \in P, left[u].phase = "queued", left[u].deps = {}
       PROVE  \E i \in DOMAIN rd : rd[i] = u
  <2>1. tasks[u].phase = "queued" /\ tasks[u].deps \subseteq {t} /\ u \in Pending
    BY <1>1, <1>8, <1>29
  <2>2. CASE tasks[u].deps = {}
    <3>1. PICK i \in 1 .. m : ready[i] = u
      BY <2>1, <2>2, <1>18, <1>20
    <3>2. i \in 1 .. m + n /\ rd[i] = u
      BY <3>1, <1>24
    <3> QED
      BY <3>2, <1>24
  <2>3. CASE tasks[u].deps # {}
    <3>1. u \in S
      BY <2>1, <2>3, <1>12
    <3>2. PICK i \in 1 .. n : a[i] = u
      BY <3>1, <1>16, <1>21
    <3>3. m + i \in 1 .. m + n /\ rd[m + i] = u
      BY <3>2, <1>24
    <3> QED
      BY <3>3, <1>24
  <2> QED
    BY <2>2, <2>3
<1>30. ReadyOK(left, rd)
  BY <1>9, <1>24, <1>27, <1>28, <1>29 DEF ReadyOK
<1>31. Cardinality(Started(left)) <= Concurrency
  <2>1. Started(left) = Started(tasks) \ {t} /\ t \in Started(tasks)
    BY <1>1, <1>5, <1>8, <1>9 DEF Started, Pending
  <2>2. IsFiniteSet(Started(tasks))
    <3>1. 1 \in Int /\ h \in Int
      OBVIOUS
    <3>2. IsFiniteSet(1 .. h)
      BY <3>1, FS_Interval, Zenon
    <3>3. Started(tasks) \subseteq 1 .. h
      BY <1>10 DEF Started, MirrorInv, Shape, Pending
    <3> QED
      BY <3>2, <3>3, FS_Subset
  <2>3. Cardinality(Started(left)) = Cardinality(Started(tasks)) - 1
        /\ Cardinality(Started(tasks)) \in Nat
    BY <2>1, <2>2, FS_RemoveElement, FS_CardinalityType
  <2>4. Cardinality(Started(tasks)) <= Concurrency
    BY DEF MirrorInv, Slots
  <2>5. Concurrency \in Nat
    BY DEF MirrorAssumption
  <2> QED
    BY <2>3, <2>4, <2>5
<1>32. /\ DOMAIN tasks' = P
       /\ \A u \in P : tasks'[u] \in Tasks /\ Same(tasks'[u], left[u])
       /\ ReadyOK(tasks', ready') /\ Slots(tasks', ready')
  <2>1. \A u \in DOMAIN left : left[u] \in Tasks
    BY <1>8, <1>9
  <2>2. DOMAIN left \in SUBSET (1 .. h)
    BY <1>9, <1>11
  <2>3. /\ DOMAIN tasks' = DOMAIN left
        /\ \A u \in DOMAIN left : tasks'[u] \in Tasks /\ Same(tasks'[u], left[u])
        /\ ReadyOK(tasks', ready') /\ Slots(tasks', ready')
    BY <2>1, <2>2, <1>5, <1>30, <1>31, PumpFacts
  <2> QED
    BY <2>3, <1>9
<1>33. ASSUME NEW u \in P
       PROVE  /\ TaskOK(tasks'[u], u)
              /\ tasks'[u].kind = tasks[u].kind /\ tasks'[u].records = tasks[u].records
              /\ tasks'[u].events = tasks[u].events
              /\ tasks'[u].deps = tasks[u].deps \ {t}
              /\ tasks'[u].waits = tasks[u].waits \ {t}
              /\ \/ tasks'[u].phase = tasks[u].phase
                 \/ tasks'[u].phase = "started" /\ tasks[u].phase = "queued"
  <2>1. PICK x : x = tasks[u]
    OBVIOUS
  <2>2. PICK y : y = tasks'[u]
    OBVIOUS
  <2>3. TaskOK(x, u)
    BY <2>1, <1>1, <1>6
  <2>4. /\ y \in Tasks /\ y.kind = x.kind /\ y.records = x.records /\ y.events = x.events
        /\ y.deps = x.deps \ {t} /\ y.waits = x.waits \ {t}
        /\ \/ y.phase = x.phase
           \/ y.phase = "started" /\ x.phase = "queued" /\ y.deps = {}
    BY <2>1, <2>2, <1>8, <1>32 DEF Same
  <2>5. TaskOK(y, u)
    BY <2>3, <2>4 DEF TaskOK
  <2> QED
    BY <2>1, <2>2, <2>4, <2>5
<1> QED
  BY <1>1, <1>5, <1>7, <1>32, <1>33

(* A channel after the task t at its head was settled. *)
LEMMA ChannelSettles ==
  ASSUME NEW ts, NEW us, NEW W \in SUBSET Nat, NEW t \in Nat,
         W \subseteq DOMAIN ts, Follows(ts, W), t \in W => ts[t].deps = {},
         \A u \in W \ {t} : us[u].deps = ts[u].deps \ {t}
  PROVE  /\ Follows(us, W \ {t})
         /\ \A final, restore :
              /\ Remembered(W, final, restore) /\ final \in Nat /\ restore \in Nat
              /\ restore = 0 \/ restore \in W
              => Remembered(W \ {t}, Forget(final, {t}), Forget(restore, {t}))
<1>1. ASSUME NEW u \in W, t \in W, u < t PROVE FALSE
  BY <1>1 DEF Follows
<1>2. Follows(us, W \ {t})
  <2> SUFFICES ASSUME NEW a \in W \ {t}, NEW u \in W \ {t}, a < u
               PROVE  \E v \in us[u].deps \cap (W \ {t}) : a <= v
    BY DEF Follows
  <2>1. PICK v \in ts[u].deps \cap W : a <= v
    BY DEF Follows
  <2>2. v # t
    <3> SUFFICES ASSUME v = t PROVE FALSE
      OBVIOUS
    <3>1. a < t
      BY <2>1
    <3> QED
      BY <3>1, <1>1, <2>1
  <2> QED
    BY <2>1, <2>2
<1>3. ASSUME NEW final \in Nat, NEW restore \in Nat, Remembered(W, final, restore),
             restore = 0 \/ restore \in W
      PROVE  Remembered(W \ {t}, Forget(final, {t}), Forget(restore, {t}))
  <2>1. (final = 0 \/ final \in W) /\ \A u \in W : u <= final \/ u <= restore
    BY <1>3 DEF Remembered
  <2>2. Forget(final, {t}) = 0 \/ Forget(final, {t}) \in W \ {t}
    BY <2>1 DEF Forget
  <2>3. ASSUME NEW u \in W \ {t}
        PROVE  u <= Forget(final, {t}) \/ u <= Forget(restore, {t})
    <3>0. u \in Nat
      OBVIOUS
    <3>1. ASSUME NEW z \in Nat, u <= z, z = 0 \/ z \in W PROVE u <= Forget(z, {t})
      <4>1. CASE z = t /\ t # 0
        <5>1. t \in W /\ u < t
          BY <3>1, <4>1
        <5> QED
          BY <5>1, <1>1
      <4>2. CASE z # t
        BY <3>1, <4>2 DEF Forget
      <4>3. CASE z = t /\ t = 0
        BY <3>1, <4>3 DEF Forget
      <4> QED
        BY <4>1, <4>2, <4>3
    <3> QED
      BY <2>1, <3>1, <1>3
  <2> QED
    BY <2>2, <2>3 DEF Remembered
<1> QED
  BY <1>2, <1>3

LEMMA SettleKeeps ==
  ASSUME MirrorAssumption, MirrorInv, NEW t \in Pending, Settle(t)
  PROVE  MirrorInv'
<1>1. PICK P : P = Pending \ {t}
  OBVIOUS
<1>2. tasks[t].deps = {} /\ tasks[t].phase = "written" /\ DOMAIN tasks' = P
      /\ ReadyOK(tasks', ready') /\ Slots(tasks', ready')
  BY <1>1, SettleFacts
<1>3. \A u \in P :
        /\ TaskOK(tasks'[u], u)
        /\ tasks'[u].kind = tasks[u].kind /\ tasks'[u].records = tasks[u].records
        /\ tasks'[u].events = tasks[u].events
        /\ tasks'[u].deps = tasks[u].deps \ {t}
        /\ tasks'[u].waits = tasks[u].waits \ {t}
        /\ \/ tasks'[u].phase = tasks[u].phase
           \/ tasks'[u].phase = "started" /\ tasks[u].phase = "queued"
  BY <1>1, SettleFacts
<1>4. /\ tails' = [r \in Records |-> Forget(tails[r], {t})]
      /\ lastEventTask' = Forget(lastEventTask, {t})
      /\ restoreTask' = Forget(restoreTask, {t})
      /\ flushing' = [c \in Requests |-> [flushing[c] EXCEPT !.waits = @ \ {t}]]
      /\ mirror' = mirror /\ db' = db /\ eventBatch' = eventBatch /\ failure' = failure
      /\ promised' = promised /\ enqueued' = enqueued
  BY DEF Settle, Settled
<1>5. /\ \A r : Writers(tasks', r) = Writers(tasks, r) \ {t}
      /\ Eventful(tasks') = Eventful(tasks) \ {t} /\ Restores(tasks') = Restores(tasks) \ {t}
  BY <1>1, <1>2, <1>3 DEF Writers, Eventful, Restores, Pending
<1>6. Unwritten(tasks') = Unwritten(tasks) /\ t \notin Unwritten(tasks)
  BY <1>1, <1>2, <1>3 DEF Unwritten, Pending
<1>7. PICK h : h = enqueued
  OBVIOUS
<1>8. /\ \A r : Writers(tasks, r) \subseteq Pending
      /\ Eventful(tasks) \subseteq Pending /\ Restores(tasks) \subseteq Eventful(tasks)
      /\ \A r \in Records : Restores(tasks) \subseteq Writers(tasks, r) /\ tails[r] \in Nat
      /\ Unwritten(tasks) \subseteq Pending
      /\ Pending \subseteq Nat /\ lastEventTask \in Nat /\ restoreTask \in Nat
  BY <1>7, Numbers DEF MirrorInv
<1>9. Shape'
  <2>1. tails \in [Records -> 0 .. h]
        /\ {lastEventTask, restoreTask, eventBatch} \subseteq 0 .. h /\ h \in Nat
    BY <1>7 DEF MirrorInv, Shape, MirrorAssumption
  <2>2. tails' \in [Records -> 0 .. h]
    BY <2>1, <1>4 DEF Forget
  <2>3. {lastEventTask', restoreTask', eventBatch'} \subseteq 0 .. h
    BY <2>1, <1>4 DEF Forget
  <2>4. P \subseteq 1 .. h
    BY <1>1, <1>7 DEF MirrorInv, Shape
  <2>5. \A u \in P : TaskOK(tasks'[u], u)
    BY <1>3
  <2> QED
    BY <2>2, <2>3, <2>4, <2>5, <1>2, <1>4, <1>7 DEF MirrorInv, Shape, Pending
<1>10. Waiting'
  <2>1. \A u \in Pending : tasks[u].deps \subseteq Pending
    BY DEF MirrorInv, Waiting
  <2>2. \A u \in P : tasks'[u].deps \subseteq P
    BY <2>1, <1>1, <1>3
  <2>3. \A u \in P : tasks'[u].kind = "put" => \A d \in tasks'[u].deps : tasks'[d].kind # "batch"
    BY <2>2, <1>1, <1>3 DEF MirrorInv, Waiting
  <2>4. \A b \in P : \A w \in tasks'[b].waits : w <= enqueued
    BY <1>1, <1>3 DEF MirrorInv, Waiting
  <2>5. ASSUME NEW b \in P, NEW w \in tasks'[b].waits \cap P
        PROVE  tasks'[w].kind # "batch" /\ \A u \in Eventful(tasks') : b < u => w < u
    <3>1. w \in tasks[b].waits \cap Pending /\ b \in Pending
      BY <1>1, <1>3
    <3>2. tasks[w].kind # "batch" /\ \A u \in Eventful(tasks) : b < u => w < u
      BY <3>1 DEF MirrorInv, Waiting
    <3> QED
      BY <3>2, <1>3, <1>5
  <2>6. failure => \A u \in P : tasks'[u].phase # "queued"
    BY <1>1, <1>3 DEF MirrorInv, Waiting
  <2>7. ~failure /\ eventBatch # 0 => \A u \in Eventful(tasks') : u <= eventBatch
    BY <1>5 DEF MirrorInv, Waiting
  <2> QED
    BY <2>2, <2>3, <2>4, <2>5, <2>6, <2>7, <1>2, <1>4 DEF Waiting, Pending
<1>11. ASSUME NEW W, W \subseteq Pending, Follows(tasks, W)
       PROVE  /\ Follows(tasks', W \ {t})
              /\ \A final, restore :
                   /\ Remembered(W, final, restore) /\ final \in Nat /\ restore \in Nat
                   /\ restore = 0 \/ restore \in W
                   => Remembered(W \ {t}, Forget(final, {t}), Forget(restore, {t}))
  <2>1. W \in SUBSET Nat /\ t \in Nat /\ W \subseteq DOMAIN tasks
    BY <1>8, <1>11 DEF Pending
  <2>2. \A u \in W \ {t} : tasks'[u].deps = tasks[u].deps \ {t}
    BY <1>1, <1>3, <1>11
  <2>3. t \in W => tasks[t].deps = {}
    BY <1>2
  <2> QED
    BY <2>1, <2>2, <2>3, <1>11, ChannelSettles
<1>12. Chains'
  <2>1. ASSUME NEW r \in Records
        PROVE  /\ Follows(tasks', Writers(tasks', r))
               /\ ~failure => Remembered(Writers(tasks', r), tails'[r], restoreTask')
    <3>1. PICK W : W = Writers(tasks, r)
      OBVIOUS
    <3>2. W \subseteq Pending /\ Follows(tasks, W)
      BY <3>1, <1>8 DEF MirrorInv, Chains
    <3>3. Follows(tasks', W \ {t})
      BY <3>2, <1>11
    <3>4. ASSUME ~failure PROVE Remembered(W \ {t}, tails'[r], restoreTask')
      <4>1. Remembered(W, tails[r], restoreTask) /\ (restoreTask = 0 \/ restoreTask \in W)
        BY <3>1, <3>4, <1>8 DEF MirrorInv, Chains
      <4>2. tails[r] \in Nat /\ restoreTask \in Nat
        BY <1>8
      <4>3. Remembered(W \ {t}, Forget(tails[r], {t}), Forget(restoreTask, {t}))
        BY <3>2, <4>1, <4>2, <1>11
      <4> QED
        BY <4>3, <1>4
    <3> QED
      BY <3>1, <3>3, <3>4, <1>5
  <2>2. /\ Follows(tasks', Eventful(tasks'))
        /\ ~failure => Remembered(Eventful(tasks'), lastEventTask', restoreTask')
    <3>1. PICK W : W = Eventful(tasks)
      OBVIOUS
    <3>2. W \subseteq Pending /\ Follows(tasks, W)
      BY <3>1, <1>8 DEF MirrorInv, Chains
    <3>3. Follows(tasks', W \ {t})
      BY <3>2, <1>11
    <3>4. ASSUME ~failure PROVE Remembered(W \ {t}, lastEventTask', restoreTask')
      <4>1. Remembered(W, lastEventTask, restoreTask) /\ (restoreTask = 0 \/ restoreTask \in W)
        BY <3>1, <3>4, <1>8 DEF MirrorInv, Chains
      <4>2. lastEventTask \in Nat /\ restoreTask \in Nat
        BY <1>8
      <4>3. Remembered(W \ {t}, Forget(lastEventTask, {t}), Forget(restoreTask, {t}))
        BY <3>2, <4>1, <4>2, <1>11
      <4> QED
        BY <4>3, <1>4
    <3> QED
      BY <3>1, <3>3, <3>4, <1>5
  <2>3. ~failure => restoreTask' = 0 \/ restoreTask' \in Restores(tasks')
    <3>1. ~failure => restoreTask = 0 \/ restoreTask \in Restores(tasks)
      BY DEF MirrorInv, Chains
    <3> QED
      BY <3>1, <1>4, <1>5 DEF Forget
  <2> QED
    BY <2>1, <2>2, <2>3, <1>4 DEF Chains
<1>13. Values' /\ Current(tasks', mirror'.epoch) = Current(tasks, mirror.epoch)
  <2>1. \A W : (W \ {t}) \cap Unwritten(tasks) = W \cap Unwritten(tasks)
    BY <1>6
  <2>2. /\ \A r \in Records : Writers(tasks', r) \cap Unwritten(tasks')
                              = Writers(tasks, r) \cap Unwritten(tasks)
        /\ Restores(tasks') \cap Unwritten(tasks') = Restores(tasks) \cap Unwritten(tasks)
        /\ Eventful(tasks') \cap Unwritten(tasks') = Eventful(tasks) \cap Unwritten(tasks)
    BY <2>1, <1>5, <1>6
  <2>3. Current(tasks', mirror'.epoch) = Current(tasks, mirror.epoch)
    BY <2>2, <1>4 DEF Current
  <2> QED
    BY <2>2, <2>3, <1>4 DEF MirrorInv, Values
<1>14. \A u \in Current(tasks, mirror.epoch) : u \in P
  BY <1>1, <1>6, <1>8 DEF Current
<1>15. Log'
  <2>1. \A i : Stands(i)' <=> Stands(i)
    BY <1>4 DEF Stands
  <2>2. \A u \in Current(tasks, mirror.epoch) : \A e :
          Carries(tasks'[u], e) <=> Carries(tasks[u], e)
    BY <1>3, <1>14 DEF Carries
  <2>3. ASSUME NEW u \in Current(tasks, mirror.epoch), NEW p, PlacedAt(u, p)
        PROVE  PlacedAt(u, p)'
    BY <2>1, <2>2, <2>3, <1>3, <1>4, <1>13, <1>14 DEF PlacedAt
  <2>4. ASSUME ~failure, eventBatch # 0
        PROVE  /\ eventBatch \in Current(tasks, mirror.epoch)
               /\ tasks'[eventBatch].kind = "batch"
               /\ tasks'[eventBatch].phase \in {"queued", "started"}
               /\ mirror.events # <<>>
               /\ tasks'[eventBatch].events[Len(tasks'[eventBatch].events)]
                    = mirror.events[Len(mirror.events)]
    BY <2>4, <1>3, <1>14 DEF MirrorInv, Log
  <2> QED
    BY <2>1, <2>2, <2>3, <2>4, <1>4, <1>13 DEF MirrorInv, Log
<1>16. Flushes'
  <2>1. ASSUME NEW w, NEW m, Coming(w, m) PROVE Coming(w \ {t}, m)'
    <3>1. (w \ {t}) \cap Unwritten(tasks') = w \cap Unwritten(tasks)
      BY <1>6
    <3>2. PICK U : U = w \cap Unwritten(tasks)
      OBVIOUS
    <3>3. \A u \in U : u \in P /\ u # t
      BY <3>2, <1>1, <1>6, <1>8
    <3>4. /\ \A r : Writers(tasks', r) \cap U = Writers(tasks, r) \cap U
          /\ Restores(tasks') \cap U = Restores(tasks) \cap U
          /\ \A u \in U : \A e : Carries(tasks'[u], e) <=> Carries(tasks[u], e)
      BY <3>3, <1>3, <1>5 DEF Carries
    <3> QED
      BY <2>1, <3>1, <3>2, <3>4, <1>4 DEF Coming
  <2>2. ASSUME NEW c \in Requests
        PROVE  /\ flushing'[c] \in [waits : SUBSET (1 .. enqueued), covers : SUBSET Contents]
               /\ flushing'[c] # NoFlush => flushing'[c].covers # {}
               /\ ~failure => \A m \in flushing'[c].covers : Coming(flushing[c].waits, m)'
    <3>1. PICK f : f = flushing[c]
      OBVIOUS
    <3>2. /\ f \in [waits : SUBSET (1 .. enqueued), covers : SUBSET Contents]
          /\ f # NoFlush => f.covers # {}
          /\ ~failure => \A m \in f.covers : Coming(f.waits, m)
      BY <3>1 DEF MirrorInv, Flushes
    <3>3. flushing'[c] = [f EXCEPT !.waits = @ \ {t}]
      BY <3>1, <1>4
    <3>4. f = NoFlush => flushing'[c] = NoFlush
      BY <3>3 DEF NoFlush
    <3>5. flushing'[c] = [waits |-> f.waits \ {t}, covers |-> f.covers]
      BY <3>2, <3>3
    <3>6. f.waits \ {t} \in SUBSET (1 .. enqueued)
      BY <3>2
    <3>7. flushing'[c].waits = f.waits \ {t} /\ flushing'[c].covers = f.covers
      BY <3>5
    <3>8. ASSUME ~failure, NEW m \in f.covers PROVE Coming(flushing[c].waits, m)'
      <4>1. Coming(f.waits \ {t}, m)'
        BY <2>1, <3>2, <3>8
      <4> QED
        BY <4>1, <3>7 DEF Coming
    <3> QED
      BY <3>2, <3>4, <3>5, <3>6, <3>7, <3>8
  <2>3. flushing' = [c \in Requests |-> flushing'[c]]
    BY <1>4
  <2> QED
    BY <2>2, <2>3, <1>4 DEF Flushes
<1>17. Durable(promised)'
  BY <1>4 DEF MirrorInv, Durable
<1> QED
  BY <1>2, <1>9, <1>10, <1>12, <1>13, <1>15, <1>16, <1>17 DEF MirrorInv
-----------------------------------------------------------------------------
(* After the first failure only tasks are left that had started, and each  *)
(* of them is the first of its channels.                                   *)
LEMMA FailKeeps ==
  ASSUME MirrorAssumption, MirrorInv, NEW t \in Pending, Fail(t)
  PROVE  MirrorInv'
<1>1. PICK P : P = Started(tasks) \ {t}
  OBVIOUS
<1>2. /\ tasks' = [u \in P |-> [tasks[u] EXCEPT !.deps = {}]]
      /\ ready' = <<>> /\ failure' = TRUE
      /\ mirror' = mirror /\ db' = db /\ tails' = tails /\ lastEventTask' = lastEventTask
      /\ restoreTask' = restoreTask /\ eventBatch' = eventBatch /\ flushing' = flushing
      /\ promised' = promised /\ enqueued' = enqueued
  BY <1>1 DEF Fail
<1>3. P \subseteq Pending /\ \A u \in P : tasks[u].phase # "queued"
  BY <1>1 DEF Started, Pending
<1>4. ASSUME NEW u \in P
      PROVE  /\ TaskOK(tasks'[u], u) /\ tasks[u].deps = {} /\ tasks'[u].deps = {}
             /\ tasks'[u].kind = tasks[u].kind /\ tasks'[u].records = tasks[u].records
             /\ tasks'[u].events = tasks[u].events /\ tasks'[u].waits = tasks[u].waits
             /\ tasks'[u].phase = tasks[u].phase
  <2>1. PICK x : x = tasks[u]
    OBVIOUS
  <2>2. TaskOK(x, u) /\ x \in Tasks /\ x.phase # "queued"
    BY <2>1, <1>3 DEF MirrorInv, Shape, TaskOK
  <2>3. PICK y : y = tasks'[u]
    OBVIOUS
  <2>4. y = [x EXCEPT !.deps = {}]
    BY <2>1, <2>3, <1>2
  <2>5. /\ y \in Tasks /\ y.kind = x.kind /\ y.records = x.records /\ y.events = x.events
        /\ y.deps = {} /\ y.waits = x.waits /\ y.phase = x.phase
    BY <2>2, <2>4 DEF Tasks
  <2>6. TaskOK(y, u)
    BY <2>2, <2>5 DEF TaskOK
  <2> QED
    BY <2>1, <2>2, <2>3, <2>5, <2>6 DEF TaskOK
<1>5. DOMAIN tasks' = P
  BY <1>2
<1>6. /\ \A r : Writers(tasks', r) = Writers(tasks, r) \cap P
      /\ Eventful(tasks') = Eventful(tasks) \cap P
      /\ Restores(tasks') = Restores(tasks) \cap P
      /\ Unwritten(tasks') = Unwritten(tasks) \cap P
  BY <1>3, <1>4, <1>5 DEF Writers, Eventful, Restores, Unwritten, Pending
<1>7. PICK h : h = enqueued
  OBVIOUS
<1>8. /\ Eventful(tasks) \subseteq Pending /\ Restores(tasks) \subseteq Eventful(tasks)
      /\ Pending \subseteq Nat /\ mirror.epoch \in Nat
  BY <1>7, Numbers DEF MirrorInv
<1>9. Shape'
  BY <1>2, <1>3, <1>4, <1>5 DEF MirrorInv, Shape, Pending
<1>10. ReadyOK(tasks', ready')
  BY <1>2, <1>3, <1>4, <1>5 DEF ReadyOK, IsInjective
<1>11. Slots(tasks', ready')
  <2>1. Started(tasks') \subseteq Started(tasks)
    BY <1>1, <1>5 DEF Started
  <2>2. h \in Nat
    BY <1>7 DEF MirrorInv, Shape, MirrorAssumption
  <2>3. 1 \in Int /\ h \in Int
    BY <2>2
  <2>4. IsFiniteSet(1 .. h)
    BY <2>3, FS_Interval, Zenon
  <2>5. Started(tasks) \subseteq 1 .. h
    BY <1>7 DEF Started, MirrorInv, Shape, Pending
  <2>6. IsFiniteSet(Started(tasks))
    BY <2>4, <2>5, FS_Subset
  <2>7. /\ Cardinality(Started(tasks')) <= Cardinality(Started(tasks))
        /\ IsFiniteSet(Started(tasks'))
    BY <2>1, <2>6, FS_Subset
  <2>8. Cardinality(Started(tasks')) \in Nat /\ Cardinality(Started(tasks)) \in Nat
    BY <2>6, <2>7, FS_CardinalityType
  <2>9. Cardinality(Started(tasks)) <= Concurrency /\ Concurrency \in Nat
    BY DEF MirrorInv, Slots, MirrorAssumption
  <2>10. Cardinality(Started(tasks')) <= Concurrency
    BY <2>7, <2>8, <2>9
  <2> QED
    BY <2>10, <1>2 DEF Slots
<1>12. Waiting'
  <2>1. \A b \in P : \A w \in tasks'[b].waits : w <= enqueued
    BY <1>3, <1>4 DEF MirrorInv, Waiting
  <2>2. ASSUME NEW b \in P, NEW w \in tasks'[b].waits \cap P
        PROVE  tasks'[w].kind # "batch" /\ \A u \in Eventful(tasks') : b < u => w < u
    <3>1. w \in tasks[b].waits \cap Pending /\ b \in Pending
      BY <1>3, <1>4
    <3>2. tasks[w].kind # "batch" /\ \A u \in Eventful(tasks) : b < u => w < u
      BY <3>1 DEF MirrorInv, Waiting
    <3> QED
      BY <3>2, <1>4, <1>6
  <2> QED
    BY <2>1, <2>2, <1>2, <1>3, <1>4, <1>5, ZenonT(40) DEF Waiting, Pending
<1>13. \A W : Follows(tasks, W) => \A a \in W, u \in W \cap P : ~(a < u)
  BY <1>4 DEF Follows
<1>14. Chains'
  <2>1. \A W : Follows(tasks, W) => Follows(tasks', W \cap P)
    BY <1>13 DEF Follows
  <2> QED
    BY <2>1, <1>2, <1>6 DEF MirrorInv, Chains
<1>15. ASSUME NEW u \in Current(tasks', mirror.epoch)
       PROVE  /\ u \in Current(tasks, mirror.epoch) /\ u \in Eventful(tasks) \cap P
              /\ \A v \in Eventful(tasks) : ~(v < u)
              /\ u \in Nat /\ u >= mirror.epoch /\ u \in Unwritten(tasks)
  <2>1. u \in Eventful(tasks) \cap P /\ u \in Unwritten(tasks) /\ u >= mirror.epoch
    BY <1>6 DEF Current
  <2>2. Follows(tasks, Eventful(tasks))
    BY DEF MirrorInv, Chains
  <2> QED
    BY <2>1, <2>2, <1>8, <1>13 DEF Current
<1>16. Values'
  <2>1. \A d, m, U : Channel(d, m, U, failure) => Channel(d, m, U \cap P, TRUE)
    BY DEF Channel
  <2>2. \A r \in Records : Channel(db.records[r], mirror.records[r],
                                   Writers(tasks', r) \cap Unwritten(tasks'), TRUE)
    <3> SUFFICES ASSUME NEW r \in Records
                 PROVE  Channel(db.records[r], mirror.records[r],
                                Writers(tasks', r) \cap Unwritten(tasks'), TRUE)
      OBVIOUS
    <3>1. PICK U : U = Writers(tasks, r) \cap Unwritten(tasks)
      OBVIOUS
    <3>2. Writers(tasks', r) \cap Unwritten(tasks') = U \cap P
      BY <3>1, <1>6
    <3>3. Channel(db.records[r], mirror.records[r], U, failure)
      BY <3>1 DEF MirrorInv, Values
    <3> QED
      BY <3>2, <3>3, <2>1
  <2>3. Channel(db.epoch, mirror.epoch, Restores(tasks') \cap Unwritten(tasks'), TRUE)
    <3>1. PICK U : U = Restores(tasks) \cap Unwritten(tasks)
      OBVIOUS
    <3>2. Restores(tasks') \cap Unwritten(tasks') = U \cap P
      BY <3>1, <1>6
    <3>3. Channel(db.epoch, mirror.epoch, U, failure)
      BY <3>1 DEF MirrorInv, Values
    <3> QED
      BY <3>2, <3>3, <2>1
  <2>4. \A u \in Eventful(tasks') \cap Unwritten(tasks') :
          u < mirror.epoch => db.epoch < mirror.epoch
    BY <1>6 DEF MirrorInv, Values
  <2>5. ASSUME NEW u \in Current(tasks', mirror.epoch)
        PROVE  \/ db.epoch = mirror.epoch
               \/ mirror.epoch \in Restores(tasks') \cap Unwritten(tasks')
    <3>1. \/ db.epoch = mirror.epoch
          \/ mirror.epoch \in Restores(tasks) \cap Unwritten(tasks)
      BY <1>15 DEF MirrorInv, Values
    <3>2. CASE mirror.epoch \in Restores(tasks) \cap Unwritten(tasks)
      <4>1. ~(mirror.epoch < u)
        BY <3>2, <1>8, <1>15
      <4>2. mirror.epoch = u
        BY <4>1, <1>8, <1>15
      <4> QED
        BY <3>2, <4>2, <1>6, <1>15
    <3> QED
      BY <3>1, <3>2
  <2> QED
    BY <2>2, <2>3, <2>4, <2>5, <1>2 DEF Values
<1>17. Log'
  <2>1. ASSUME NEW u \in Current(tasks', mirror.epoch)
        PROVE  \E p \in 0 .. Len(mirror.events) : PlacedAt(u, p)'
    <3>1. PICK p \in 0 .. Len(mirror.events) : PlacedAt(u, p)
      BY <1>15 DEF MirrorInv, Log
    <3>2. Current(tasks, mirror.epoch) \subseteq Eventful(tasks)
      BY DEF Current
    <3>3. \A i \in 1 .. p : Stands(i)
      BY <3>1, <3>2, <1>15 DEF PlacedAt
    <3>4. \A i : Stands(i)' <=> Stands(i)
      BY <1>2 DEF Stands
    <3>5. u \in P
      BY <1>15
    <3>6. PlacedAt(u, p)'
      BY <3>1, <3>3, <3>4, <3>5, <1>2, <1>4 DEF PlacedAt
    <3> QED
      BY <3>6
  <2> QED
    BY <2>1, <1>2 DEF MirrorInv, Log
<1>18. Flushes'
  <2>1. ASSUME NEW c \in Requests
        PROVE  /\ flushing[c] \in [waits : SUBSET (1 .. enqueued), covers : SUBSET Contents]
               /\ flushing[c] # NoFlush => flushing[c].covers # {}
    BY DEF MirrorInv, Flushes
  <2>2. flushing = [c \in Requests |-> flushing[c]]
    BY DEF MirrorInv, Flushes
  <2> QED
    BY <2>1, <2>2, <1>2 DEF Flushes
<1>19. Durable(promised)'
  BY <1>2 DEF MirrorInv, Durable
<1> QED
  BY <1>9, <1>10, <1>11, <1>12, <1>14, <1>16, <1>17, <1>18, <1>19 DEF MirrorInv
-----------------------------------------------------------------------------
(* A step that leaves the mirror, the queue and the database alone. *)
LEMMA Untouched ==
  ASSUME MirrorInv, mirror' = mirror, db' = db, tasks' = tasks, ready' = ready,
         tails' = tails, lastEventTask' = lastEventTask, restoreTask' = restoreTask,
         eventBatch' = eventBatch, failure' = failure, enqueued' = enqueued
  PROVE  /\ promised' \in Contents => Shape'
         /\ ReadyOK(tasks', ready') /\ Slots(tasks', ready') /\ Waiting'
         /\ Chains' /\ Values' /\ Log'
         /\ \A w, m : Coming(w, m) => Coming(w, m)'
         /\ \A m : Durable(m) => Durable(m)'
         /\ flushing' = flushing => Flushes'
<1>1. promised' \in Contents => Shape'
  BY DEF MirrorInv, Shape, Pending
<1>2. ReadyOK(tasks', ready') /\ Slots(tasks', ready')
  BY DEF MirrorInv
<1>3. Waiting'
  BY DEF MirrorInv, Waiting, Pending
<1>4. Chains' /\ Values'
  BY DEF MirrorInv, Chains, Values
<1>5. Log'
  <2>1. \A u, p : PlacedAt(u, p) => PlacedAt(u, p)'
    BY DEF PlacedAt, Stands
  <2>2. \A i : Stands(i)' <=> Stands(i)
    BY DEF Stands
  <2> QED
    BY <2>1, <2>2 DEF MirrorInv, Log
<1>6. \A w, m : Coming(w, m) => Coming(w, m)'
  BY DEF Coming
<1>7. \A m : Durable(m) => Durable(m)'
  BY DEF Durable
<1>8. flushing' = flushing => Flushes'
  BY <1>6 DEF MirrorInv, Flushes, Coming
<1> QED
  BY <1>1, <1>2, <1>3, <1>4, <1>5, <1>6, <1>7, <1>8

(* flush covers what the mirror holds: all of it is in the database or     *)
(* carried by a pending task.                                              *)
LEMMA BeginFlushKeeps ==
  ASSUME MirrorAssumption, MirrorInv, NEW c \in Requests, BeginFlush(c)
  PROVE  MirrorInv'
<1>1. /\ mirror' = mirror /\ db' = db /\ tasks' = tasks /\ ready' = ready
      /\ tails' = tails /\ lastEventTask' = lastEventTask /\ restoreTask' = restoreTask
      /\ eventBatch' = eventBatch /\ failure' = failure /\ enqueued' = enqueued
      /\ promised' = promised
  BY DEF BeginFlush, queue
<1>2. PICK M \in Seq(Events) : M = mirror.events
  BY DEF MirrorInv, Shape, Contents
<1>3. PICK D \in Seq(Events) : D = db.events
  BY DEF MirrorInv, Shape, Contents
<1>4. ASSUME ~failure PROVE Coming(Pending, mirror)
  <2>1. Pending \cap Unwritten(tasks) = Unwritten(tasks)
    BY DEF Pending, Unwritten
  <2>2. \A r \in Records : \/ mirror.records[r] <= db.records[r]
                           \/ mirror.records[r] \in Writers(tasks, r) \cap Unwritten(tasks)
    BY <1>4 DEF MirrorInv, Values, Channel
  <2>3. mirror.epoch <= db.epoch \/ mirror.epoch \in Restores(tasks) \cap Unwritten(tasks)
    BY <1>4 DEF MirrorInv, Values, Channel
  <2>4. ASSUME NEW e \in ToSet(M)
        PROVE  \/ db.epoch = mirror.epoch /\ e \in ToSet(D)
               \/ \E u \in Unwritten(tasks) : u >= mirror.epoch /\ Carries(tasks[u], e)
    <3>1. PICK i \in 1 .. Len(M) : M[i] = e
      BY DEF ToSet
    <3>2. \/ Stands(i)
          \/ \E u \in Current(tasks, mirror.epoch) : Carries(tasks[u], e)
      BY <3>1, <1>2, <1>4 DEF MirrorInv, Log
    <3>3. CASE Stands(i)
      <4>1. db.epoch = mirror.epoch /\ i \in 1 .. Len(D)
        BY <3>3, <1>3 DEF Stands
      <4>2. D[i] = M[i]
        BY <4>1, <1>2, <1>3 DEF MirrorInv, Log
      <4>3. e \in ToSet(D)
        BY <3>1, <4>1, <4>2 DEF ToSet
      <4> QED
        BY <4>1, <4>3
    <3>4. CASE \E u \in Current(tasks, mirror.epoch) : Carries(tasks[u], e)
      BY <3>4 DEF Current
    <3> QED
      BY <3>2, <3>3, <3>4
  <2> QED
    BY <2>1, <2>2, <2>3, <2>4, <1>2, <1>3 DEF Coming
<1>5. PICK f : f = [waits |-> Pending, covers |-> {mirror}]
  OBVIOUS
<1>6. PICK m \in Contents : m = mirror
  BY DEF MirrorInv, Shape
<1>7. /\ flushing = [d \in Requests |-> flushing[d]]
      /\ \A d \in Requests :
           /\ flushing[d] \in [waits : SUBSET (1 .. enqueued), covers : SUBSET Contents]
           /\ flushing[d] # NoFlush => flushing[d].covers # {}
           /\ ~failure => \A x \in flushing[d].covers : Coming(flushing[d].waits, x)
  BY DEF MirrorInv, Flushes
<1>8. /\ flushing' = [d \in Requests |-> flushing'[d]] /\ flushing'[c] = f
      /\ \A d \in Requests : d # c => flushing'[d] = flushing[d]
  BY <1>5, <1>7 DEF BeginFlush
<1>9. f \in [waits : SUBSET (1 .. enqueued), covers : SUBSET Contents] /\ f.covers = {m}
      /\ f.waits = Pending
  BY <1>5, <1>6 DEF MirrorInv, Shape
<1>10. \A w, x : Coming(w, x) => Coming(w, x)'
  BY <1>1, Untouched
<1>11. ASSUME NEW d \in Requests
       PROVE  /\ flushing'[d] \in [waits : SUBSET (1 .. enqueued), covers : SUBSET Contents]
              /\ flushing'[d] # NoFlush => flushing'[d].covers # {}
              /\ ~failure => \A x \in flushing'[d].covers : Coming(flushing[d].waits, x)'
  <2>1. CASE d = c
    <3>1. PICK w : w = Pending
      OBVIOUS
    <3>2. ~failure => Coming(w, m)'
      BY <3>1, <1>4, <1>6, <1>10
    <3>3. flushing'[d].waits = w /\ flushing'[d].covers = {m}
      BY <2>1, <3>1, <1>8, <1>9
    <3>4. ~failure => \A x \in flushing'[d].covers : Coming(flushing[d].waits, x)'
      BY <3>2, <3>3 DEF Coming
    <3> QED
      BY <2>1, <3>3, <3>4, <1>8, <1>9
  <2>2. CASE d # c
    <3>1. PICK w : w = flushing[d].waits
      OBVIOUS
    <3>2. flushing'[d] = flushing[d]
      BY <2>2, <1>8
    <3>3. ASSUME ~failure, NEW x \in flushing'[d].covers PROVE Coming(flushing[d].waits, x)'
      <4>1. Coming(w, x)'
        BY <3>1, <3>2, <3>3, <1>7, <1>10
      <4> QED
        BY <3>1, <3>2, <4>1 DEF Coming
    <3> QED
      BY <3>2, <3>3, <1>7
  <2> QED
    BY <2>1, <2>2
<1>12. Flushes'
  BY <1>1, <1>8, <1>11 DEF Flushes
<1>13. promised' \in Contents /\ Durable(promised)'
  BY <1>1 DEF MirrorInv, Shape, Durable
<1> QED
  BY <1>1, <1>12, <1>13, Untouched DEF MirrorInv

(* The response barrier: what a flush without failure covers is in the     *)
(* database.                                                               *)
LEMMA RespondKeeps ==
  ASSUME MirrorAssumption, MirrorInv, NEW c \in Requests, Respond(c)
  PROVE  MirrorInv'
<1>1. /\ mirror' = mirror /\ db' = db /\ tasks' = tasks /\ ready' = ready
      /\ tails' = tails /\ lastEventTask' = lastEventTask /\ restoreTask' = restoreTask
      /\ eventBatch' = eventBatch /\ failure' = failure /\ enqueued' = enqueued
  BY DEF Respond, queue
<1>2. /\ flushing = [d \in Requests |-> flushing[d]]
      /\ \A d \in Requests :
           /\ flushing[d] \in [waits : SUBSET (1 .. enqueued), covers : SUBSET Contents]
           /\ flushing[d] # NoFlush => flushing[d].covers # {}
           /\ ~failure => \A x \in flushing[d].covers : Coming(flushing[d].waits, x)
  BY DEF MirrorInv, Flushes
<1>3. flushing[c] # NoFlush /\ flushing[c].waits \cap Pending = {}
      /\ flushing' = [flushing EXCEPT ![c] = NoFlush]
  BY DEF Respond
<1>4. PICK m : m = CHOOSE x \in flushing[c].covers : TRUE
  OBVIOUS
<1>5. m \in flushing[c].covers /\ m \in Contents
  <2>1. flushing[c].covers # {} /\ flushing[c].covers \subseteq Contents
    BY <1>2, <1>3
  <2> QED
    BY <2>1, <1>4
<1>6. PICK a \in Contents : a = promised
  BY DEF MirrorInv, Shape
<1>7. PICK z : z = Later(a, m)
  OBVIOUS
<1>8. promised' = IF failure THEN promised ELSE z
  BY <1>4, <1>6, <1>7 DEF Respond, FlushSucceeds
<1>9. /\ a.epoch \in Nat /\ m.epoch \in Nat /\ db.epoch \in Nat
      /\ \A r \in Records : a.records[r] \in Nat /\ m.records[r] \in Nat /\ db.records[r] \in Nat
  BY <1>5, <1>6 DEF MirrorInv, Shape, Contents, MirrorAssumption
<1>10. ASSUME ~failure PROVE Durable(m)
  <2>1. Coming(flushing[c].waits, m)
    BY <1>2, <1>5, <1>10
  <2>2. flushing[c].waits \cap Unwritten(tasks) = {}
    BY <1>3 DEF Unwritten, Pending
  <2>3. /\ \A r \in Records : m.records[r] <= db.records[r]
        /\ m.epoch <= db.epoch
        /\ \A e \in ToSet(m.events) : db.epoch > m.epoch \/ e \in ToSet(db.events)
    BY <2>1, <2>2 DEF Coming
  <2> QED
    BY <2>3, <1>9 DEF Durable
<1>11. ASSUME ~failure PROVE z \in Contents /\ Durable(z)
  <2>1. Durable(a) /\ Durable(m)
    BY <1>6, <1>10, <1>11 DEF MirrorInv
  <2>2. CASE a.epoch > m.epoch
    BY <2>1, <2>2, <1>7 DEF Later
  <2>3. CASE m.epoch > a.epoch
    <3>1. ~(a.epoch > m.epoch)
      BY <2>3, <1>9
    <3> QED
      BY <2>1, <2>3, <3>1, <1>5, <1>7 DEF Later
  <2>4. CASE a.epoch = m.epoch
    <3>1. PICK f : f = [r \in Records |-> IF a.records[r] > m.records[r] THEN a.records[r]
                                          ELSE m.records[r]]
      OBVIOUS
    <3>2. PICK es : es = IF Len(a.events) > Len(m.events) THEN a.events ELSE m.events
      OBVIOUS
    <3>3. z = [records |-> f, events |-> es, epoch |-> a.epoch]
      <4>1. ~(a.epoch > m.epoch) /\ ~(m.epoch > a.epoch)
        BY <2>4, <1>9
      <4> QED
        BY <4>1, <3>1, <3>2, <1>7 DEF Later
    <3>4. f \in [Records -> 0 .. MaxTasks] /\ es \in Seq(Events)
      BY <3>1, <3>2, <1>5 DEF Contents
    <3>5. z \in Contents
      BY <3>3, <3>4 DEF Contents
    <3>6. CASE db.epoch > a.epoch
      BY <3>3, <3>5, <3>6 DEF Durable
    <3>7. CASE ~(db.epoch > a.epoch)
      <4>1. /\ db.epoch = a.epoch
            /\ \A r \in Records : db.records[r] >= a.records[r]
                                  /\ db.records[r] >= m.records[r]
            /\ ToSet(a.events) \subseteq ToSet(db.events)
            /\ ToSet(m.events) \subseteq ToSet(db.events)
        BY <2>1, <2>4, <3>7 DEF Durable
      <4>2. \A r \in Records : db.records[r] >= f[r]
        BY <4>1, <3>1
      <4>3. ToSet(es) \subseteq ToSet(db.events)
        BY <4>1, <3>2
      <4> QED
        BY <4>1, <4>2, <4>3, <3>3, <3>5 DEF Durable
    <3> QED
      BY <3>5, <3>6, <3>7
  <2> QED
    BY <2>2, <2>3, <2>4, <1>9
<1>12. promised' \in Contents /\ Durable(promised)'
  <2>1. PICK b : b = promised'
    OBVIOUS
  <2>2. b \in Contents /\ Durable(b)
    <3>1. CASE failure
      BY <2>1, <3>1, <1>6, <1>8 DEF MirrorInv
    <3>2. CASE ~failure
      BY <2>1, <3>2, <1>8, <1>11
    <3> QED
      BY <3>1, <3>2
  <2>3. Durable(b)'
    BY <2>2, <1>1, Untouched
  <2> QED
    BY <2>1, <2>2, <2>3 DEF Durable
<1>13. ASSUME NEW d \in Requests
       PROVE  /\ flushing'[d] \in [waits : SUBSET (1 .. enqueued), covers : SUBSET Contents]
              /\ flushing'[d] # NoFlush => flushing'[d].covers # {}
              /\ ~failure => \A x \in flushing'[d].covers : Coming(flushing[d].waits, x)'
  <2>1. CASE d = c
    <3>1. flushing'[d] = NoFlush
      BY <2>1, <1>2, <1>3
    <3> QED
      BY <3>1 DEF NoFlush
  <2>2. CASE d # c
    <3>1. PICK w : w = flushing[d].waits
      OBVIOUS
    <3>2. flushing'[d] = flushing[d]
      BY <2>2, <1>3
    <3>3. ASSUME ~failure, NEW x \in flushing'[d].covers PROVE Coming(flushing[d].waits, x)'
      <4>1. Coming(w, x)'
        BY <3>1, <3>2, <3>3, <1>1, <1>2, Untouched
      <4> QED
        BY <3>1, <3>2, <4>1 DEF Coming
    <3> QED
      BY <3>2, <3>3, <1>2
  <2> QED
    BY <2>1, <2>2
<1>14. flushing' = [d \in Requests |-> flushing'[d]]
  BY <1>2, <1>3
<1>15. Flushes'
  BY <1>1, <1>13, <1>14 DEF Flushes
<1> QED
  BY <1>1, <1>12, <1>15, Untouched DEF MirrorInv

LEMMA CloseKeeps ==
  ASSUME MirrorInv, Close \/ UNCHANGED vars
  PROVE  MirrorInv'
<1>1. /\ mirror' = mirror /\ db' = db /\ tasks' = tasks /\ ready' = ready
      /\ tails' = tails /\ lastEventTask' = lastEventTask /\ restoreTask' = restoreTask
      /\ eventBatch' = eventBatch /\ failure' = failure /\ enqueued' = enqueued
      /\ promised' = promised /\ flushing' = flushing
  BY DEF Close, queue, vars
<1>2. promised' \in Contents /\ Durable(promised)'
  BY <1>1 DEF MirrorInv, Shape, Durable
<1> QED
  BY <1>1, <1>2, Untouched DEF MirrorInv

(* An empty queue: the mirror is what the database holds. *)
Fresh ==
  /\ mirror \in Contents /\ db \in Contents /\ promised \in Contents
  /\ mirror.records = db.records /\ mirror.events = db.events /\ mirror.epoch = db.epoch
  /\ enqueued \in 0 .. MaxTasks /\ \A r \in Records : db.records[r] <= enqueued
  /\ db.epoch <= enqueued /\ IsInjective(db.events) /\ Durable(promised)
  /\ DOMAIN tasks = {} /\ ready = <<>> /\ tails = [r \in Records |-> 0]
  /\ lastEventTask = 0 /\ restoreTask = 0 /\ eventBatch = 0 /\ failure = FALSE
  /\ flushing = [c \in Requests |-> NoFlush]

LEMMA EmptyQueue == Fresh => MirrorInv
<1> SUFFICES ASSUME Fresh PROVE MirrorInv
  OBVIOUS
<1> USE MirrorAssumption
<1>1. Shape
  <2>1. tails \in [Records -> 0 .. enqueued]
    BY DEF MirrorAssumption, Fresh
  <2>2. {lastEventTask, restoreTask, eventBatch} \subseteq 0 .. enqueued
    BY DEF MirrorAssumption, Fresh
  <2> QED
    BY <2>1, <2>2 DEF Shape, Pending, Fresh
<1>2. ReadyOK(tasks, ready)
  BY DEF ReadyOK, IsInjective, Fresh
<1>3. Slots(tasks, ready)
  <2>1. Started(tasks) = {}
    BY DEF Started, Fresh
  <2>2. Cardinality(Started(tasks)) = 0
    BY <2>1, FS_EmptySet
  <2> QED
    BY <2>2 DEF Slots, MirrorAssumption, Fresh
<1>4. Waiting
  BY DEF Waiting, Pending, Fresh
<1>5. \A r : Writers(tasks, r) = {}
  BY DEF Writers, Fresh
<1>6. Eventful(tasks) = {} /\ Restores(tasks) = {} /\ Unwritten(tasks) = {}
  BY DEF Eventful, Restores, Unwritten, Fresh
<1>7. Chains
  BY <1>5, <1>6 DEF Chains, Follows, Remembered, Fresh
<1>8. /\ \A r \in Records : db.records[r] \in Nat
      /\ db.epoch \in Nat
  BY DEF Contents, MirrorAssumption, Fresh
<1>9. Current(tasks, mirror.epoch) = {}
  BY <1>6 DEF Current
<1>10. Values
  BY <1>5, <1>6, <1>8, <1>9 DEF Values, Channel, Fresh
<1>11. PICK D \in Seq(Events) : D = db.events
  BY DEF Contents, Fresh
<1>12. Log
  <2>1. Len(D) \in Nat
    OBVIOUS
  <2> QED
    BY <2>1, <1>9, <1>11 DEF Log, Stands, Fresh
<1>13. Flushes
  <2>1. NoFlush \in [waits : SUBSET (1 .. enqueued), covers : SUBSET Contents]
        /\ NoFlush.covers = {}
    BY DEF NoFlush
  <2> QED
    BY <2>1 DEF Flushes, Fresh
<1> QED
  BY <1>1, <1>2, <1>3, <1>4, <1>7, <1>10, <1>12, <1>13 DEF MirrorInv, Fresh

LEMMA RestartKeeps ==
  ASSUME MirrorAssumption, MirrorInv, Restart
  PROVE  MirrorInv'
<1>1. /\ mirror' = [records |-> db.records, events |-> db.events, epoch |-> db.epoch]
      /\ tasks' = [t \in {} |-> {}] /\ ready' = <<>>
      /\ tails' = [r \in Records |-> 0]
      /\ lastEventTask' = 0 /\ restoreTask' = 0 /\ eventBatch' = 0
      /\ failure' = FALSE /\ flushing' = [c \in Requests |-> NoFlush]
      /\ db' = db /\ promised' = promised /\ enqueued' = enqueued
  BY DEF Restart, Loaded
<1>2. mirror' \in Contents
  BY <1>1 DEF MirrorInv, Shape, Contents
<1>3. PICK h : h = enqueued
  OBVIOUS
<1>4. /\ \A r \in Records : /\ mirror.records[r] \in Nat /\ mirror.records[r] <= h
                            /\ db.records[r] \in Nat
      /\ mirror.epoch \in Nat /\ mirror.epoch <= h /\ db.epoch \in Nat /\ h \in Nat
  BY <1>3, Numbers DEF MirrorInv
<1>5. /\ \A r \in Records : db.records[r] <= mirror.records[r]
      /\ db.epoch <= mirror.epoch
  BY DEF MirrorInv, Values, Channel
<1>6. (\A r \in Records : db.records[r] <= h) /\ db.epoch <= h
  BY <1>4, <1>5
<1>7. DOMAIN tasks' = {}
  BY <1>1
<1>8. Durable(promised)'
  BY <1>1 DEF MirrorInv, Durable
<1>9. /\ db' \in Contents /\ promised' \in Contents /\ enqueued' \in 0 .. MaxTasks
      /\ IsInjective(db'.events)
  BY <1>1 DEF MirrorInv, Shape
<1>10. /\ mirror'.records = db'.records /\ mirror'.events = db'.events
       /\ mirror'.epoch = db'.epoch
  BY <1>1
<1>11. (\A r \in Records : db'.records[r] <= enqueued') /\ db'.epoch <= enqueued'
  BY <1>1, <1>3, <1>6
<1>12. Fresh'
  BY <1>1, <1>2, <1>7, <1>8, <1>9, <1>10, <1>11 DEF Fresh
<1>13. (Fresh => MirrorInv)'
  BY EmptyQueue, PTL
<1> QED
  BY <1>12, <1>13
-----------------------------------------------------------------------------
LEMMA MirrorStep == MirrorInv /\ [Next]_vars => MirrorInv'
<1> SUFFICES ASSUME MirrorInv, [Next]_vars PROVE MirrorInv'
  OBVIOUS
<1> USE MirrorAssumption
<1>1. ASSUME NEW r \in Records, Put(r) PROVE MirrorInv'
  BY <1>1, PutKeeps
<1>2. ASSUME NEW r \in Records, NEW e \in Events, PutAndAppend(r, e) PROVE MirrorInv'
  BY <1>2, PutAndAppendKeeps
<1>3. ASSUME NEW e \in Events, AppendEvent(e) PROVE MirrorInv'
  <2>1. CASE eventBatch = 0
    BY <1>3, <2>1, NewBatchKeeps
  <2>2. CASE eventBatch # 0
    BY <1>3, <2>2, JoinKeeps
  <2> QED
    BY <2>1, <2>2
<1>4. ASSUME NEW es \in Snapshots, Restore(es) PROVE MirrorInv'
  BY <1>4, RestoreKeeps
<1>5. ASSUME TaskStep PROVE MirrorInv'
  <2>1. PICK t \in Pending : BatchTurn(t) \/ Write(t) \/ Settle(t) \/ Fail(t)
    BY <1>5 DEF TaskStep
  <2>2. CASE BatchTurn(t)
    BY <2>2, BatchTurnKeeps
  <2>3. CASE Write(t)
    BY <2>3, WriteKeeps
  <2>4. CASE Settle(t)
    BY <2>4, SettleKeeps
  <2>5. CASE Fail(t)
    BY <2>5, FailKeeps
  <2> QED
    BY <2>1, <2>2, <2>3, <2>4, <2>5
<1>6. ASSUME NEW c \in Requests, BeginFlush(c) PROVE MirrorInv'
  BY <1>6, BeginFlushKeeps
<1>7. ASSUME NEW c \in Requests, Respond(c) PROVE MirrorInv'
  BY <1>7, RespondKeeps
<1>8. CASE Close \/ UNCHANGED vars
  BY <1>8, CloseKeeps
<1>9. CASE Restart
  BY <1>9, RestartKeeps
<1> QED
  BY <1>1, <1>2, <1>3, <1>4, <1>5, <1>6, <1>7, <1>8, <1>9 DEF Next

(* The mirror, its queue and the database stay in step: what has been      *)
(* answered is stored, and what is not stored yet still has a task that    *)
(* writes it, in its turn (enqueue, pump, settle, appendEvent and          *)
(* flushEventBatch of DurableMirrorStore).                                 *)
THEOREM MirrorInductive == MCSpec => []MirrorInv
<1>1. MCInit => MirrorInv
  <2> SUFFICES ASSUME MCInit PROVE MirrorInv
    OBVIOUS
  <2>0. Init
    BY DEF MCInit
  <2>1. Empty \in Contents
    <3>1. 0 \in 0 .. MaxTasks
      BY MirrorAssumption
    <3>2. <<>> \in Seq(Events)
      OBVIOUS
    <3> QED
      BY <3>1, <3>2 DEF Empty, Contents
  <2>2. /\ mirror \in Contents /\ db \in Contents /\ promised \in Contents
        /\ mirror.records = db.records /\ mirror.events = db.events /\ mirror.epoch = db.epoch
    BY <2>0, <2>1 DEF Init
  <2>3. /\ enqueued \in 0 .. MaxTasks /\ db.epoch <= enqueued
        /\ \A r \in Records : db.records[r] <= enqueued
        /\ IsInjective(db.events)
    BY <2>0, MirrorAssumption DEF Init, Empty, IsInjective
  <2>4. Durable(promised)
    BY <2>0 DEF Init, Empty, Durable
  <2>5. DOMAIN tasks = {}
    BY <2>0 DEF Init
  <2>6. Fresh
    BY <2>0, <2>2, <2>3, <2>4, <2>5 DEF Fresh, Init
  <2> QED
    BY <2>6, EmptyQueue
<1>2. MirrorInv /\ [MCNext]_<<vars, tableVars, journalVars, part>> => MirrorInv'
  <2> SUFFICES ASSUME MirrorInv, [MCNext]_<<vars, tableVars, journalVars, part>>
               PROVE  MirrorInv'
    OBVIOUS
  <2>1. [Next]_vars
    BY DEF MCNext
  <2> QED
    BY <2>1, MirrorStep
<1> QED
  BY <1>1, <1>2, PTL DEF MCSpec

(* What an answered flush covered is in the database, whatever failed or   *)
(* crashed since, unless a later restore replaced it (flush and the        *)
(* response barrier of the server).                                        *)
THEOREM AnsweredIsDurableHolds == MCSpec => []AnsweredIsDurable
<1>1. MirrorInv => AnsweredIsDurable
  BY DEF MirrorInv, Durable, AnsweredIsDurable
<1> QED
  BY <1>1, MirrorInductive, PTL

(* A record in the database never goes back to an older write, and the     *)
(* events in it are the first ones the mirror took, in their order         *)
(* (appendEventOn and the dependencies enqueue gives a task).              *)
THEOREM WritesKeepTheirOrderHolds == MCSpec => []WritesKeepTheirOrder
<1>1. MirrorInv => WritesKeepTheirOrder
  <2> SUFFICES ASSUME MirrorInv PROVE WritesKeepTheirOrder
    OBVIOUS
  <2>1. \A r \in Records : db.records[r] <= mirror.records[r]
    BY DEF MirrorInv, Values, Channel
  <2>2. ASSUME db.epoch = mirror.epoch PROVE IsPrefix(db.events, mirror.events)
    <3>1. PICK D \in Seq(Events) : D = db.events
      BY DEF MirrorInv, Shape, Contents
    <3>2. PICK M \in Seq(Events) : M = mirror.events
      BY DEF MirrorInv, Shape, Contents
    <3>3. PICK n \in Nat : n = Len(D)
      OBVIOUS
    <3>4. n <= Len(M) /\ \A i \in 1 .. n : D[i] = M[i]
      BY <3>1, <3>2, <3>3, <2>2 DEF MirrorInv, Log
    <3>5. /\ SubSeq(D, 1, n) = [i \in 1 .. n |-> D[i]]
          /\ SubSeq(M, 1, n) = [i \in 1 .. n |-> M[i]]
      BY <3>3, <3>4
    <3>6. [i \in 1 .. n |-> D[i]] = [i \in 1 .. n |-> M[i]]
      BY <3>4
    <3> QED
      BY <3>1, <3>2, <3>3, <3>4, <3>5, <3>6 DEF IsPrefix
  <2> QED
    BY <2>1, <2>2 DEF WritesKeepTheirOrder
<1> QED
  BY <1>1, MirrorInductive, PTL

(* With two writers or more the queue never comes to rest with a task      *)
(* pending: dependencies, batches that wait for writes and the limit on    *)
(* writers do not wait for each other (pump and flushEventBatch).  A       *)
(* single writer can be the batch itself.                                  *)
THEOREM QueueProceedsHolds ==
  ASSUME Concurrency >= 2
  PROVE  MCSpec => []QueueProceeds
<1>1. MirrorInv => QueueProceeds
  <2> SUFFICES ASSUME MirrorInv, Pending # {},
                      \A t \in Pending :
                        /\ ~Runnable(t) /\ tasks[t].phase # "written"
                        /\ ~(tasks[t].kind = "batch" /\ tasks[t].phase = "started")
                        /\ ~(failure /\ tasks[t].phase = "closed"
                             /\ tasks[t].waits \cap Pending = {})
               PROVE  FALSE
    BY DEF QueueProceeds
  <2>1. PICK h : h = enqueued
    OBVIOUS
  <2>2. Pending \subseteq Nat /\ h \in Nat
    BY <2>1, MirrorAssumption, Numbers DEF MirrorInv
  <2>3. \A t \in Pending : TaskOK(tasks[t], t)
    BY DEF MirrorInv, Shape
  <2>4. ASSUME NEW t \in Pending, tasks[t].phase # "queued"
        PROVE  /\ tasks[t].phase = "closed" /\ tasks[t].kind = "batch" /\ tasks[t].deps = {}
               /\ \E w \in Pending : w \in tasks[t].waits
    <3>1. tasks[t].phase \in {"queued", "started", "closed", "written"}
      BY <2>3 DEF TaskOK, Tasks
    <3>2. tasks[t].phase = "started" => FALSE
      BY DEF Runnable
    <3>3. tasks[t].phase = "closed"
      BY <3>1, <3>2, <2>4
    <3>4. tasks[t].kind = "batch" /\ tasks[t].deps = {}
      BY <3>3, <2>3, <2>4 DEF TaskOK
    <3>5. tasks[t].waits \cap Pending # {}
      BY <3>3, <3>4 DEF Runnable
    <3> QED
      BY <3>3, <3>4, <3>5
  <2>5. \A t \in Pending : \A w \in tasks[t].waits \cap Pending :
          /\ tasks[w].kind # "batch"
          /\ \A u \in Eventful(tasks) : t < u => w < u
    BY DEF MirrorInv, Waiting
  <2>6. ~failure
    <3> SUFFICES ASSUME failure PROVE FALSE
      OBVIOUS
    <3>1. \A t \in Pending : tasks[t].phase # "queued"
      BY DEF MirrorInv, Waiting
    <3> QED
      BY <3>1, <2>4, <2>5
  <2>7. \A a, b \in Started(tasks) : a = b
    <3> SUFFICES ASSUME NEW a \in Started(tasks), NEW b \in Started(tasks), a # b PROVE FALSE
      OBVIOUS
    <3>1. /\ a \in Pending /\ b \in Pending
          /\ tasks[a].phase # "queued" /\ tasks[b].phase # "queued"
      BY DEF Started, Pending
    <3>2. a \in Eventful(tasks) /\ b \in Eventful(tasks)
          /\ tasks[a].deps = {} /\ tasks[b].deps = {}
      BY <3>1, <2>4 DEF Eventful, Pending
    <3>3. a < b \/ b < a
      BY <3>1, <2>2
    <3>4. Follows(tasks, Eventful(tasks))
      BY DEF MirrorInv, Chains
    <3> QED
      BY <3>2, <3>3, <3>4 DEF Follows
  <2>8. ready = <<>>
    <3> SUFFICES ASSUME ready # <<>> PROVE FALSE
      OBVIOUS
    <3>1. Cardinality(Started(tasks)) = Concurrency
      BY DEF MirrorInv, Slots
    <3>2. CASE Started(tasks) = {}
      BY <3>1, <3>2, FS_EmptySet, MirrorAssumption
    <3>3. CASE Started(tasks) # {}
      <4>1. PICK b : Started(tasks) = {b}
        BY <3>3, <2>7
      <4> QED
        <5>1. Cardinality({b}) = 1
          BY FS_Singleton
        <5>2. Concurrency = 1
          BY <3>1, <4>1, <5>1
        <5> QED
          BY <5>2
    <3> QED
      BY <3>2, <3>3
  <2>9. \A t \in Pending : tasks[t].phase = "queued" => tasks[t].deps # {}
    BY <2>8 DEF MirrorInv, ReadyOK, Pending
  <2>10. ASSUME NEW t \in Pending PROVE \A d \in tasks[t].deps : d \in Pending /\ d < t
    BY <2>3 DEF TaskOK, MirrorInv, Waiting
  <2>11. PICK l \in Pending : \A t \in Pending : l <= t
    BY <2>2, LeastNat
  <2>12. tasks[l].deps = {}
    <3> SUFFICES ASSUME NEW d \in tasks[l].deps PROVE FALSE
      OBVIOUS
    <3>1. d \in Pending /\ d < l /\ l <= d
      BY <2>10, <2>11
    <3> QED
      BY <3>1, <2>2
  <2>13. tasks[l].phase # "queued"
    BY <2>9, <2>12
  <2>14. tasks[l].kind = "batch" /\ l \in Started(tasks)
    BY <2>4, <2>13 DEF Started, Pending
  <2>15. PICK w \in Pending : w \in tasks[l].waits
    BY <2>4, <2>13
  <2>16. w # l
    BY <2>5, <2>14, <2>15
  <2>17. PICK Q : Q = Pending \ {l}
    OBVIOUS
  <2>18. PICK q \in Q : \A t \in Q : q <= t
    <3>1. Q \in SUBSET Nat /\ Q # {}
      BY <2>2, <2>15, <2>16, <2>17
    <3> QED
      BY <3>1, LeastNat
  <2>19. q \in Pending /\ q # l
    BY <2>17
  <2>20. tasks[q].phase = "queued"
    BY <2>7, <2>14, <2>19 DEF Started, Pending
  <2>21. PICK d \in tasks[q].deps : TRUE
    BY <2>9, <2>19, <2>20
  <2>22. d = l
    <3>1. d \in Pending /\ d < q
      BY <2>10, <2>19
    <3>2. d \notin Q
      BY <3>1, <2>2, <2>18, <2>19
    <3> QED
      BY <3>1, <3>2, <2>17
  <2>23. tasks[q].kind # "put"
    BY <2>14, <2>19, <2>22 DEF MirrorInv, Waiting
  <2>24. q \in Eventful(tasks) /\ l < q
    BY <2>10, <2>19, <2>22, <2>23 DEF Eventful, Pending
  <2>25. w < q
    BY <2>5, <2>15, <2>24
  <2>26. w \in Q /\ q <= w
    BY <2>15, <2>16, <2>17, <2>18
  <2> QED
    BY <2>2, <2>15, <2>19, <2>25, <2>26
<1> QED
  BY <1>1, MirrorInductive, PTL
-----------------------------------------------------------------------------
(* The tables.  What a view of a tenant says of its cursor: nothing beyond *)
(* it is confirmed, and while the sequence never fell behind the tenant,   *)
(* it is at an event and every event up to it is confirmed.                *)
SoundView(v, tn) ==
  /\ IsFiniteSet(v.events)
  /\ \A x \in v.events : x.tenant = tn /\ x.seq \in Nat \ {0}
  /\ v.checkpoint = {} \/ \E k \in Nat : v.checkpoint = {k}
  /\ \A x \in v.confirmed : x.seq \in Nat /\ \E k \in v.checkpoint : x.seq <= k
  /\ ~v.rewound => \A k \in v.checkpoint :
                      /\ \E y \in v.events : y.seq = k
                      /\ \A x \in v.events : x.seq <= k => x \in v.confirmed

TablesShape ==
  /\ last \in Nat
  /\ checkpoint = [tn \in Tenants |-> checkpoint[tn]]
  /\ confirmed = [tn \in Tenants |-> confirmed[tn]]
  /\ backup = [tn \in Tenants |-> backup[tn]]
  /\ snapshot = [tn \in Tenants |-> snapshot[tn]]
  /\ tx = [w \in Sessions |-> tx[w]] /\ batch = [c \in Consumers |-> batch[c]]
  /\ \A tn \in Tenants : \A s \in snapshot[tn] :
       IsFiniteSet(s.events) /\ \A x \in s.events : x.seq \in Nat

Views == \A tn \in Tenants : /\ SoundView(T!View(tn), tn)
                             /\ \A b \in backup[tn] : SoundView(b, tn)

Transactions ==
  \A w \in Sessions : \A x \in tx[w] :
    /\ x = [tenant |-> x.tenant, puts |-> x.puts, todo |-> x.todo, rows |-> x.rows]
    /\ IsFiniteSet(x.rows)
    /\ \A y \in x.rows : y.tenant = x.tenant /\ y.seq \in Nat \ {0}

(* A batch is what follows the cursor of its tenant, without a gap, and no *)
(* other batch is for that tenant.                                         *)
Batches ==
  \A c \in Consumers : \A b \in batch[c] :
    /\ b.tenant \in Tenants /\ IsFiniteSet(b.rows) /\ b.rows # {}
    /\ b.rows \subseteq T!Of(b.tenant, events)
    /\ \A x \in b.rows, k \in checkpoint[b.tenant] : k < x.seq
    /\ \A d \in Consumers : \A a \in batch[d] : a.tenant = b.tenant => d = c /\ a = b
    /\ b.tenant \notin rewound =>
         \A y \in b.rows, x \in T!Of(b.tenant, events) :
           x.seq <= y.seq => x \in b.rows \/ \E k \in checkpoint[b.tenant] : x.seq <= k

(* The numbers to come are above the tenant's, the open ones between them. *)
Ahead ==
  /\ \A tn \in Tenants \ rewound : \A x \in T!Of(tn, events) :
       /\ x.seq <= last
       /\ \A w \in Sessions : \A o \in tx[w] : o.tenant = tn => \A y \in o.rows : x.seq < y.seq
  /\ \A w \in Sessions : \A o \in tx[w] : o.tenant \notin rewound => \A y \in o.rows : y.seq <= last

TablesInv ==
  /\ TablesShape /\ Views /\ Transactions /\ Batches /\ Ahead /\ ~repeated
-----------------------------------------------------------------------------
LEMMA LargestExists ==
  ASSUME NEW S \in SUBSET Nat, IsFiniteSet(S), S # {}
  PROVE  \E m \in S : \A y \in S : y <= m
<1> DEFINE G == {n \in Nat : \A Z \in SUBSET Nat : IsFiniteSet(Z) /\ Cardinality(Z) = n /\ Z # {} =>
                               \E m \in Z : \A y \in Z : y <= m}
<1>1. 0 \in G
  BY FS_EmptySet
<1>2. ASSUME NEW n \in Nat, n \in G PROVE n + 1 \in G
  <2> SUFFICES ASSUME NEW Z \in SUBSET Nat, IsFiniteSet(Z), Cardinality(Z) = n + 1, Z # {}
               PROVE  \E m \in Z : \A y \in Z : y <= m
    OBVIOUS
  <2>1. PICK z \in Z : TRUE
    OBVIOUS
  <2>2. PICK R : R = Z \ {z}
    OBVIOUS
  <2>3. IsFiniteSet(R) /\ Cardinality(R) = n /\ R \in SUBSET Nat
    <3>1. IsFiniteSet(R) /\ Cardinality(R) = Cardinality(Z) - 1
      BY <2>1, <2>2, FS_RemoveElement
    <3> QED
      BY <2>2, <3>1
  <2>4. CASE R = {}
    BY <2>1, <2>2, <2>4
  <2>5. CASE R # {}
    <3>1. PICK m \in R : \A y \in R : y <= m
      BY <1>2, <2>3, <2>5
    <3>2. CASE z <= m
      BY <2>1, <2>2, <3>1, <3>2
    <3>3. CASE ~(z <= m)
      BY <2>1, <2>2, <3>1, <3>3
    <3> QED
      BY <3>2, <3>3
  <2> QED
    BY <2>4, <2>5
<1>3. Nat \subseteq G
  <2> HIDE DEF G
  <2> QED
    BY <1>1, <1>2, InductionOverNat
<1>4. Cardinality(S) \in Nat
  BY FS_CardinalityType
<1> QED
  BY <1>3, <1>4

LEMMA LargestSeq ==
  ASSUME NEW rows, IsFiniteSet(rows), rows # {}, \A x \in rows : x.seq \in Nat
  PROVE  /\ \A x \in rows : x.seq <= T!NewCursor(rows)
         /\ \E x \in rows : x.seq = T!NewCursor(rows)
         /\ T!NewCursor(rows) \in Nat
<1>1. PICK S : S = {x.seq : x \in rows}
  OBVIOUS
<1>2. S \in SUBSET Nat /\ S # {}
  BY <1>1
<1>3. IsFiniteSet(S)
  <2>1. PICK f : f = [x \in rows |-> x.seq]
    OBVIOUS
  <2>2. f \in Surjection(rows, S)
    BY <1>1, <2>1 DEF Surjection
  <2> QED
    BY <2>2, FS_Surjection
<1>4. PICK m \in S : \A y \in S : y <= m
  BY <1>2, <1>3, LargestExists
<1>5. T!NewCursor(rows) = CHOOSE x \in S : \A y \in S : x >= y
  BY <1>1 DEF T!NewCursor, T!Max
<1>6. \E x \in S : \A y \in S : x >= y
  BY <1>2, <1>4
<1>7. T!NewCursor(rows) \in S /\ \A y \in S : T!NewCursor(rows) >= y
  BY <1>5, <1>6
<1> QED
  BY <1>1, <1>2, <1>7

LEMMA CursorIs ==
  ASSUME NEW tn, NEW k \in Nat, checkpoint[tn] = {k} PROVE T!Cursor(tn) = k
<1>1. T!Cursor(tn) = CHOOSE x \in {0, k} : \A y \in {0, k} : x >= y
  BY DEF T!Cursor, T!Max
<1>2. k \in {0, k} /\ \A y \in {0, k} : k >= y
  OBVIOUS
<1>3. \A x \in {0, k} : (\A y \in {0, k} : x >= y) => x = k
  OBVIOUS
<1> QED
  BY <1>1, <1>2, <1>3

LEMMA CursorIsNone ==
  ASSUME NEW tn, checkpoint[tn] = {} PROVE T!Cursor(tn) = 0
<1>1. T!Cursor(tn) = CHOOSE x \in {0} : \A y \in {0} : x >= y
  BY DEF T!Cursor, T!Max
<1> QED
  BY <1>1

(* What the instance takes from FiniteSets is what this module takes.      *)
LEMMA SameCardinality ==
  ASSUME NEW S PROVE T!Cardinality(S) = Cardinality(S)
BY Zenon DEF T!Cardinality, Cardinality, T!IsFiniteSet, IsFiniteSet

LEMMA ViewFacts ==
  ASSUME Views, NEW tn \in Tenants
  PROVE  /\ IsFiniteSet(T!Of(tn, events))
         /\ \A e \in T!Of(tn, events) : e.tenant = tn /\ e.seq \in Nat \ {0}
         /\ checkpoint[tn] = {} \/ \E k \in Nat : checkpoint[tn] = {k}
         /\ \A e \in confirmed[tn] : e.seq \in Nat /\ \E k \in checkpoint[tn] : e.seq <= k
         /\ tn \notin rewound => \A k \in checkpoint[tn] :
              /\ \E y \in T!Of(tn, events) : y.seq = k
              /\ \A e \in T!Of(tn, events) : e.seq <= k => e \in confirmed[tn]
<1>1. PICK v : v = T!View(tn)
  OBVIOUS
<1>2. SoundView(v, tn)
  BY <1>1 DEF Views
<1>3. /\ v.events = T!Of(tn, events) /\ v.checkpoint = checkpoint[tn]
      /\ v.confirmed = confirmed[tn] /\ v.rewound = (tn \in rewound)
  BY <1>1 DEF T!View
<1>4. /\ IsFiniteSet(T!Of(tn, events))
      /\ \A e \in T!Of(tn, events) : e.tenant = tn /\ e.seq \in Nat \ {0}
      /\ checkpoint[tn] = {} \/ \E k \in Nat : checkpoint[tn] = {k}
      /\ \A e \in confirmed[tn] : e.seq \in Nat /\ \E k \in checkpoint[tn] : e.seq <= k
  BY <1>2, <1>3 DEF SoundView
<1>5. ASSUME tn \notin rewound, NEW k \in checkpoint[tn]
      PROVE  /\ \E y \in T!Of(tn, events) : y.seq = k
             /\ \A e \in T!Of(tn, events) : e.seq <= k => e \in confirmed[tn]
  <2>1. ~v.rewound
    BY <1>3, <1>5, Zenon
  <2>2. /\ \E y \in v.events : y.seq = k
        /\ \A x \in v.events : x.seq <= k => x \in v.confirmed
    BY <1>2, <1>3, <1>5, <2>1, Zenon DEF SoundView
  <2> QED
    BY <1>3, <2>2, Zenon
<1> QED
  BY <1>4, <1>5

LEMMA ViewsStay ==
  ASSUME Views, UNCHANGED <<events, checkpoint, confirmed, rewound, backup>> PROVE Views'
BY DEF Views, SoundView, T!View, T!Of

LEMMA TransactionsStay ==
  ASSUME Transactions, UNCHANGED tx PROVE Transactions'
BY DEF Transactions

LEMMA BatchesStay ==
  ASSUME Batches, UNCHANGED <<batch, events, checkpoint, rewound>> PROVE Batches'
BY DEF Batches, T!Of

LEMMA AheadStays ==
  ASSUME Ahead, UNCHANGED <<events, last, tx, rewound>> PROVE Ahead'
BY DEF Ahead, T!Of

(* A write that begins, and one that is rolled back, holds no number yet. *)
LEMMA BeginKeeps ==
  ASSUME TablesInv, NEW w \in Sessions, NEW a \in Appends, T!Begin(w, a) PROVE TablesInv'
<1>1. PICK z : z = [tenant |-> a.tenant, puts |-> a.puts, todo |-> a.events, rows |-> {}]
  OBVIOUS
<1>2. /\ tx' = [tx EXCEPT ![w] = {z}] /\ IsFiniteSet(z.rows) /\ z.rows = {}
      /\ z = [tenant |-> z.tenant, puts |-> z.puts, todo |-> z.todo, rows |-> z.rows]
      /\ UNCHANGED <<records, events, last, checkpoint, batch, backup, snapshot, confirmed,
                     repeated, rewound, restores>>
  BY <1>1, FS_EmptySet DEF T!Begin
<1>3. TablesShape'
  BY <1>2 DEF TablesInv, TablesShape
<1>4. Views' /\ Batches'
  BY <1>2, ViewsStay, BatchesStay DEF TablesInv
<1>5. ASSUME NEW v \in Sessions, NEW x \in tx'[v] PROVE x \in tx[v] \/ x = z
  BY <1>2, <1>5 DEF TablesInv, TablesShape
<1>6. Transactions'
  BY <1>2, <1>5 DEF TablesInv, Transactions
<1>7. Ahead'
  BY <1>2, <1>5 DEF TablesInv, Ahead, T!Of
<1> QED
  BY <1>2, <1>3, <1>4, <1>6, <1>7 DEF TablesInv

LEMMA RollbackKeeps ==
  ASSUME TablesInv, NEW w \in Sessions, T!Rollback(w) PROVE TablesInv'
<1>2. /\ tx' = [tx EXCEPT ![w] = {}]
      /\ UNCHANGED <<records, events, last, checkpoint, batch, backup, snapshot, confirmed,
                     repeated, rewound, restores>>
  BY DEF T!Rollback, T!Close
<1>3. TablesShape'
  BY <1>2 DEF TablesInv, TablesShape
<1>4. Views' /\ Batches'
  BY <1>2, ViewsStay, BatchesStay DEF TablesInv
<1>5. ASSUME NEW v \in Sessions, NEW x \in tx'[v] PROVE x \in tx[v]
  BY <1>2, <1>5 DEF TablesInv, TablesShape
<1>6. Transactions'
  BY <1>2, <1>5 DEF TablesInv, Transactions
<1>7. Ahead'
  BY <1>2, <1>5 DEF TablesInv, Ahead, T!Of
<1> QED
  BY <1>2, <1>3, <1>4, <1>6, <1>7 DEF TablesInv

(* An insert takes the next number, which is above every event of a tenant *)
(* that the sequence did not fall behind; it may be taken by another's.    *)
LEMMA InsertEventKeeps ==
  ASSUME TablesInv, NEW w \in Sessions, T!InsertEvent(w) PROVE TablesInv'
<1>0. PICK x \in tx[w] :
        \/ /\ tx' = [tx EXCEPT ![w] = {[x EXCEPT !.todo = Tail(@)]}] /\ last' = last
        \/ tx' = [tx EXCEPT ![w] = {}] /\ last' \in {last, last + 1}
        \/ /\ last' = last + 1
           /\ tx' = [tx EXCEPT ![w] = {[[x EXCEPT !.todo = Tail(@)] EXCEPT
                       !.rows = @ \cup {T!Row(x.tenant, Head(x.todo), last + 1)}]}]
  BY DEF T!InsertEvent, T!Close
<1>a. PICK t : t = Tail(x.todo)
  OBVIOUS
<1>1. \/ /\ tx' = [tx EXCEPT ![w] = {[x EXCEPT !.todo = t]}] /\ last' = last
      \/ tx' = [tx EXCEPT ![w] = {}] /\ last' \in {last, last + 1}
      \/ /\ last' = last + 1
         /\ tx' = [tx EXCEPT ![w] = {[[x EXCEPT !.todo = t] EXCEPT
                       !.rows = @ \cup {T!Row(x.tenant, Head(x.todo), last + 1)}]}]
  BY <1>0, <1>a, Zenon
<1>2. UNCHANGED <<records, events, checkpoint, batch, backup, snapshot, confirmed, repeated,
                  rewound, restores>>
  BY DEF T!InsertEvent
<1>3. PICK l \in Nat : l = last'
  BY <1>1 DEF TablesInv, TablesShape
<1>4. PICK n \in Nat : n = last
  BY DEF TablesInv, TablesShape
<1>5. n <= l
  BY <1>1, <1>3, <1>4
<1>6. PICK r : r = T!Row(x.tenant, Head(x.todo), n + 1)
  OBVIOUS
<1>7. r.tenant = x.tenant /\ r.seq = n + 1
  BY <1>6 DEF T!Row
<1>8. /\ x = [tenant |-> x.tenant, puts |-> x.puts, todo |-> x.todo, rows |-> x.rows]
      /\ IsFiniteSet(x.rows)
      /\ \A y \in x.rows : y.tenant = x.tenant /\ y.seq \in Nat \ {0}
  BY DEF TablesInv, Transactions
<1>9. ASSUME NEW v \in Sessions, NEW o \in tx'[v], o \notin tx[v]
      PROVE  /\ o = [tenant |-> x.tenant, puts |-> x.puts, todo |-> t, rows |-> o.rows]
             /\ o.rows = x.rows \/ (o.rows = x.rows \cup {r} /\ l = n + 1)
             /\ v = w
  <2>1. tx = [u \in Sessions |-> tx[u]]
    BY DEF TablesInv, TablesShape
  <2>2. CASE tx' = [tx EXCEPT ![w] = {[x EXCEPT !.todo = t]}]
    <3>1. o = [x EXCEPT !.todo = t] /\ v = w
      BY <2>1, <2>2, <1>9
    <3>2. [x EXCEPT !.todo = t] =
            [tenant |-> x.tenant, puts |-> x.puts, todo |-> t, rows |-> x.rows]
      BY <1>8
    <3> QED
      BY <3>1, <3>2
  <2>3. CASE tx' = [tx EXCEPT ![w] = {}]
    BY <2>1, <2>3, <1>9
  <2>4. CASE /\ last' = last + 1
             /\ tx' = [tx EXCEPT ![w] = {[[x EXCEPT !.todo = t] EXCEPT
                       !.rows = @ \cup {T!Row(x.tenant, Head(x.todo), last + 1)}]}]
    <3>1. /\ o = [[x EXCEPT !.todo = t] EXCEPT
                    !.rows = @ \cup {T!Row(x.tenant, Head(x.todo), last + 1)}]
          /\ v = w
      BY <2>1, <2>4, <1>9
    <3>2. o = [tenant |-> x.tenant, puts |-> x.puts, todo |-> t, rows |-> x.rows \cup {r}]
      BY <3>1, <1>4, <1>6, <1>8
    <3>3. l = n + 1
      BY <2>4, <1>3, <1>4
    <3>4. o.rows = x.rows \cup {r}
      BY <3>2
    <3> QED
      BY <3>1, <3>2, <3>3, <3>4, Zenon
  <2> QED
    BY <1>1, <2>2, <2>3, <2>4
<1>10. TablesShape'
  <2>1. tx' = [u \in Sessions |-> tx'[u]]
    BY <1>1 DEF TablesInv, TablesShape
  <2> QED
    BY <2>1, <1>2, <1>3 DEF TablesInv, TablesShape
<1>11. Views' /\ Batches'
  BY <1>2, ViewsStay, BatchesStay DEF TablesInv
<1>12. ASSUME NEW v \in Sessions, NEW o \in tx'[v], o \notin tx[v]
       PROVE  /\ o = [tenant |-> o.tenant, puts |-> o.puts, todo |-> o.todo, rows |-> o.rows]
              /\ IsFiniteSet(o.rows)
              /\ \A y \in o.rows : y.tenant = o.tenant /\ y.seq \in Nat \ {0}
              /\ o.tenant = x.tenant
              /\ \A y \in o.rows : y \in x.rows \/ (y.seq = l /\ l = n + 1)
  <2>1. /\ o = [tenant |-> x.tenant, puts |-> x.puts, todo |-> t, rows |-> o.rows]
        /\ o.rows = x.rows \/ (o.rows = x.rows \cup {r} /\ l = n + 1)
    BY <1>9, <1>12
  <2>2. IsFiniteSet(x.rows \cup {r})
    BY <1>8, FS_AddElement
  <2>4. /\ o = [tenant |-> o.tenant, puts |-> o.puts, todo |-> o.todo, rows |-> o.rows]
        /\ o.tenant = x.tenant
    BY <2>1
  <2>3. \A y \in o.rows : y \in x.rows \/ (y = r /\ l = n + 1)
    BY <2>1
  <2>5. IsFiniteSet(o.rows)
    BY <2>1, <2>2, <1>8, Zenon
  <2>6. \A y \in o.rows : y.tenant = o.tenant /\ y.seq \in Nat \ {0}
    BY <2>3, <2>4, <1>7, <1>8
  <2>7. \A y \in o.rows : y \in x.rows \/ (y.seq = l /\ l = n + 1)
    BY <2>3, <1>7
  <2> QED
    BY <2>4, <2>5, <2>6, <2>7, Zenon
<1>13. Transactions'
  BY <1>12 DEF TablesInv, Transactions
<1>14. Ahead'
  <2>1. ASSUME NEW tn \in Tenants \ rewound, NEW e \in T!Of(tn, events)
        PROVE  /\ e.seq <= l
               /\ \A v \in Sessions : \A o \in tx'[v] : o.tenant = tn => \A y \in o.rows : e.seq < y.seq
    <3>1. e.seq \in Nat /\ e.seq <= n
      BY <2>1, <1>4 DEF TablesInv, Ahead, Views, SoundView, T!View
    <3>2. ASSUME NEW v \in Sessions, NEW o \in tx'[v], o.tenant = tn, NEW y \in o.rows
          PROVE  e.seq < y.seq
      <4>1. CASE o \in tx[v]
        BY <2>1, <3>2, <4>1 DEF TablesInv, Ahead
      <4>2. CASE o \notin tx[v]
        <5>1. o.tenant = x.tenant /\ (y \in x.rows \/ (y.seq = l /\ l = n + 1))
          BY <3>2, <4>2, <1>12
        <5>2. CASE y \in x.rows
          BY <2>1, <3>2, <5>1, <5>2 DEF TablesInv, Ahead
        <5>3. CASE y.seq = l /\ l = n + 1
          BY <3>1, <5>3
        <5> QED
          BY <5>1, <5>2, <5>3
      <4> QED
        BY <4>1, <4>2
    <3> QED
      BY <3>1, <3>2, <1>5
  <2>2. ASSUME NEW v \in Sessions, NEW o \in tx'[v], o.tenant \notin rewound, NEW y \in o.rows
        PROVE  y.seq <= l
    <3>1. CASE o \in tx[v]
      <4>1. y.seq \in Nat /\ y.seq <= n
        BY <2>2, <3>1, <1>4 DEF TablesInv, Ahead, Transactions
      <4> QED
        BY <4>1, <1>5
    <3>2. CASE o \notin tx[v]
      <4>1. o.tenant = x.tenant /\ (y \in x.rows \/ (y.seq = l /\ l = n + 1))
        BY <2>2, <3>2, <1>12
      <4>2. CASE y \in x.rows
        <5>1. y.seq \in Nat /\ y.seq <= n
          BY <2>2, <4>1, <4>2, <1>4, <1>8 DEF TablesInv, Ahead
        <5> QED
          BY <5>1, <1>5
      <4> QED
        BY <4>1, <4>2
    <3> QED
      BY <3>1, <3>2
  <2> QED
    BY <2>1, <2>2, <1>2, <1>3 DEF Ahead, T!Of
<1> QED
  BY <1>2, <1>10, <1>11, <1>13, <1>14, SMTT(30) DEF TablesInv

(* The rows of the only transaction that is open are above every event of  *)
(* its tenant, so a commit adds none below a cursor or inside a batch.     *)
LEMMA CommitKeeps ==
  ASSUME TablesInv, \A v, u \in Sessions : v = u, NEW w \in Sessions, T!Commit(w)
  PROVE  TablesInv'
<1>1. PICK x \in tx[w] : /\ events' = events \cup x.rows /\ tx' = [tx EXCEPT ![w] = {}]
                         /\ UNCHANGED <<last, checkpoint, batch, backup, snapshot, confirmed,
                                        repeated, rewound, restores>>
  BY DEF T!Commit, T!Close
<1>2. \A v \in Sessions : tx'[v] = {}
  BY <1>1 DEF TablesInv, TablesShape
<1>3. IsFiniteSet(x.rows) /\ \A y \in x.rows : y.tenant = x.tenant /\ y.seq \in Nat \ {0}
  BY DEF TablesInv, Transactions
<1>4. ASSUME x.tenant \in Tenants \ rewound, NEW y \in x.rows
      PROVE  y.seq <= last /\ \A e \in T!Of(x.tenant, events) : e.seq < y.seq
  BY <1>4 DEF TablesInv, Ahead
<1>5. TablesShape'
  <2>1. tx' = [u \in Sessions |-> tx'[u]]
    BY <1>1 DEF TablesInv, TablesShape
  <2> QED
    BY <2>1, <1>1 DEF TablesInv, TablesShape
<1>6. Transactions'
  BY <1>2 DEF Transactions
<1>7. Views'
  <2> SUFFICES ASSUME NEW tn \in Tenants
               PROVE  SoundView(T!View(tn), tn)' /\ \A b \in backup'[tn] : SoundView(b, tn)
    BY DEF Views, SoundView
  <2>1. \A b \in backup'[tn] : SoundView(b, tn)
    BY <1>1 DEF TablesInv, Views
  <2>2. /\ IsFiniteSet(T!Of(tn, events)) /\ \A e \in T!Of(tn, events) : e.seq \in Nat \ {0}
        /\ checkpoint[tn] = {} \/ \E k \in Nat : checkpoint[tn] = {k}
        /\ \A e \in confirmed[tn] : e.seq \in Nat /\ \E k \in checkpoint[tn] : e.seq <= k
        /\ tn \notin rewound => \A k \in checkpoint[tn] :
             /\ \E y \in T!Of(tn, events) : y.seq = k
             /\ \A e \in T!Of(tn, events) : e.seq <= k => e \in confirmed[tn]
    BY ViewFacts DEF TablesInv
  <2>3. PICK O : O = T!Of(tn, events')
    OBVIOUS
  <2>4. O \subseteq T!Of(tn, events) \cup x.rows /\ T!Of(tn, events) \subseteq O
        /\ \A e \in O : e.tenant = tn
    BY <1>1, <2>3 DEF T!Of
  <2>5. IsFiniteSet(O)
    <3>1. IsFiniteSet(T!Of(tn, events) \cup x.rows)
      BY <1>3, <2>2, FS_Union
    <3> QED
      BY <2>4, <3>1, FS_Subset
  <2>6. ASSUME tn \notin rewound, NEW k \in checkpoint[tn]
        PROVE  /\ \E y \in O : y.seq = k
               /\ \A e \in O : e.seq <= k => e \in confirmed[tn]
    <3>1. PICK y \in T!Of(tn, events) : y.seq = k
      BY <2>2, <2>6
    <3>2. y \in O /\ y.seq \in Nat
      BY <2>2, <2>4, <3>1
    <3>3. ASSUME NEW e \in O, e.seq <= k PROVE e \in confirmed[tn]
      <4>1. CASE e \in T!Of(tn, events)
        BY <2>2, <2>6, <3>3, <4>1
      <4>2. CASE e \in x.rows
        <5>1. x.tenant = tn /\ e.seq \in Nat
          BY <1>3, <2>4, <3>3, <4>2
        <5>2. y.seq < e.seq
          BY <1>4, <2>6, <3>1, <4>2, <5>1
        <5> QED
          BY <3>1, <3>2, <3>3, <5>1, <5>2
      <4> QED
        BY <2>4, <3>3, <4>1, <4>2
    <3> QED
      BY <3>1, <3>2, <3>3
  <2>7. \A e \in O : e.tenant = tn /\ e.seq \in Nat \ {0}
    BY <1>3, <2>2, <2>4
  <2>8. SoundView(T!View(tn), tn)'
    BY <1>1, <2>2, <2>3, <2>5, <2>6, <2>7 DEF SoundView, T!View
  <2> QED
    BY <2>1, <2>8
<1>8. Batches'
  <2> SUFFICES ASSUME NEW c \in Consumers, NEW b \in batch[c], b.tenant \notin rewound,
                      NEW y \in b.rows, NEW e \in T!Of(b.tenant, events'), e.seq <= y.seq
               PROVE  e \in b.rows \/ \E k \in checkpoint[b.tenant] : e.seq <= k
    BY <1>1 DEF TablesInv, Batches, T!Of
  <2>1. b.tenant \in Tenants /\ y \in T!Of(b.tenant, events)
    BY DEF TablesInv, Batches
  <2>2. y.seq \in Nat
    BY <2>1 DEF TablesInv, Views, SoundView, T!View
  <2>3. e \in T!Of(b.tenant, events) \/ (e \in x.rows /\ e.tenant = b.tenant)
    BY <1>1 DEF T!Of
  <2>4. CASE e \in T!Of(b.tenant, events)
    BY <2>4 DEF TablesInv, Batches
  <2>5. CASE e \in x.rows /\ e.tenant = b.tenant
    <3>1. x.tenant = b.tenant /\ e.seq \in Nat
      BY <1>3, <2>5
    <3>2. y.seq < e.seq
      BY <1>4, <2>1, <2>5, <3>1
    <3> QED
      BY <2>2, <3>1, <3>2
  <2> QED
    BY <2>3, <2>4, <2>5
<1>9. Ahead'
  <2>1. ASSUME NEW tn \in Tenants \ rewound, NEW e \in T!Of(tn, events') PROVE e.seq <= last
    <3>1. CASE e \in T!Of(tn, events)
      BY <3>1 DEF TablesInv, Ahead
    <3>2. CASE e \in x.rows /\ e.tenant = tn
      BY <1>3, <1>4, <3>2
    <3> QED
      BY <1>1, <3>1, <3>2 DEF T!Of
  <2> QED
    BY <1>1, <1>2, <2>1 DEF Ahead, T!Of
<1> QED
  BY <1>1, <1>5, <1>6, <1>7, <1>8, <1>9 DEF TablesInv

(* A batch takes the events behind the cursor without a gap. *)
LEMMA BeginBatchKeeps ==
  ASSUME TablesInv, BatchSize \in Nat, NEW c \in Consumers, NEW tn \in Tenants, T!BeginBatch(c, tn)
  PROVE  TablesInv'
<1>1. PICK z : z = [tenant |-> tn, rows |-> T!NextEvents(tn)]
  OBVIOUS
<1>2. /\ \A d \in Consumers : \A b \in batch[d] : b.tenant # tn
      /\ batch' = [batch EXCEPT ![c] = {z}] /\ z.rows # {}
      /\ UNCHANGED <<records, events, last, checkpoint, tx, backup, snapshot, confirmed,
                     repeated, rewound, restores>>
  BY <1>1 DEF T!BeginBatch, T!CheckpointFree
<1>3. z.tenant = tn /\ z.rows = T!NextEvents(tn)
  BY <1>1
<1>4. PICK O : O = T!Of(tn, events)
  OBVIOUS
<1>5. /\ IsFiniteSet(O) /\ \A x \in O : x.seq \in Nat
      /\ checkpoint[tn] = {} \/ \E k \in Nat : checkpoint[tn] = {k}
  BY <1>4 DEF TablesInv, Views, SoundView, T!View
<1>6. PICK k0 \in Nat : k0 = T!Cursor(tn) /\ \A k \in checkpoint[tn] : k = k0
  BY <1>5, CursorIs, CursorIsNone
<1>7. PICK later : later = {x \in O : x.seq > k0}
  OBVIOUS
<1>a. later = {x \in T!Of(tn, events) : x.seq > T!Cursor(tn)}
  BY <1>4, <1>6, <1>7
<1>8. z.rows = {x \in later : Cardinality({y \in later : y.seq < x.seq}) < BatchSize}
  <2>1. z.rows = {x \in later : T!Cardinality({y \in later : y.seq < x.seq}) < BatchSize}
    BY <1>3, <1>a, Zenon DEF T!NextEvents
  <2> QED
    BY <2>1, SameCardinality, Zenon
<1>9. IsFiniteSet(later)
  BY <1>5, <1>7, FS_Subset
<1>10. ASSUME NEW y \in z.rows, NEW x \in O, x.seq <= y.seq, x.seq > k0 PROVE x \in z.rows
  <2>1. x \in later /\ y \in later
    BY <1>7, <1>8, <1>10
  <2>2. PICK X : X = {v \in later : v.seq < x.seq}
    OBVIOUS
  <2>3. PICK Y : Y = {v \in later : v.seq < y.seq}
    OBVIOUS
  <2>4. X \subseteq Y
    BY <1>5, <1>7, <1>10, <2>1, <2>2, <2>3
  <2>5. IsFiniteSet(Y) /\ IsFiniteSet(X)
    BY <1>9, <2>2, <2>3, FS_Subset
  <2>6. Cardinality(X) <= Cardinality(Y)
    BY <2>4, <2>5, FS_Subset
  <2>7. Cardinality(X) \in Nat /\ Cardinality(Y) \in Nat
    BY <2>5, FS_CardinalityType
  <2>8. Cardinality(Y) < BatchSize
    BY <1>8, <1>10, <2>3
  <2>9. Cardinality(X) < BatchSize
    BY <2>6, <2>7, <2>8
  <2> QED
    BY <1>8, <2>1, <2>2, <2>9
<1>11. IsFiniteSet(z.rows) /\ z.rows \subseteq O /\ \A x \in z.rows : x.seq > k0
  BY <1>7, <1>8, <1>9, FS_Subset
<1>12. TablesShape'
  <2>1. batch' = [d \in Consumers |-> batch'[d]]
    BY <1>2 DEF TablesInv, TablesShape
  <2> QED
    BY <2>1, <1>2 DEF TablesInv, TablesShape
<1>13. Views' /\ Transactions' /\ Ahead'
  BY <1>2, ViewsStay, TransactionsStay, AheadStays DEF TablesInv
<1>14. ASSUME NEW d \in Consumers, NEW b \in batch'[d] PROVE b \in batch[d] \/ (b = z /\ d = c)
  BY <1>2, <1>14 DEF TablesInv, TablesShape
<1>15. Batches'
  <2> SUFFICES ASSUME NEW d \in Consumers, NEW b \in batch'[d]
               PROVE  /\ b.tenant \in Tenants /\ IsFiniteSet(b.rows) /\ b.rows # {}
                      /\ b.rows \subseteq T!Of(b.tenant, events)
                      /\ \A x \in b.rows, k \in checkpoint[b.tenant] : k < x.seq
                      /\ \A f \in Consumers : \A a \in batch'[f] : a.tenant = b.tenant => f = d /\ a = b
                      /\ b.tenant \notin rewound =>
                           \A y \in b.rows, x \in T!Of(b.tenant, events) :
                             x.seq <= y.seq => x \in b.rows \/ \E k \in checkpoint[b.tenant] : x.seq <= k
    BY <1>2 DEF Batches, T!Of
  <2>1. CASE b \in batch[d]
    <3>1. b.tenant # tn
      BY <1>2, <2>1
    <3>2. \A f \in Consumers : \A a \in batch'[f] : a.tenant = b.tenant => a \in batch[f]
      BY <1>3, <1>14, <3>1
    <3> QED
      BY <2>1, <3>2 DEF TablesInv, Batches
  <2>2. CASE b = z /\ d = c
    <3>1. \A f \in Consumers : \A a \in batch'[f] : a.tenant = b.tenant => f = d /\ a = b
      BY <1>2, <1>3, <1>14, <2>2
    <3>2. ASSUME NEW y \in b.rows, NEW x \in T!Of(b.tenant, events), x.seq <= y.seq, x \notin b.rows
          PROVE  \E k \in checkpoint[b.tenant] : x.seq <= k
      <4>1. x \in O /\ y \in O /\ y.seq \in Nat /\ x.seq \in Nat /\ y.seq > k0
        BY <1>3, <1>4, <1>5, <1>11, <2>2, <3>2
      <4>2. x.seq <= k0
        BY <1>10, <2>2, <3>2, <4>1
      <4>3. x.seq # 0
        BY <1>3, <1>4, <2>2, <4>1 DEF TablesInv, Views, SoundView, T!View
      <4>4. checkpoint[tn] # {}
        BY <4>1, <4>2, <4>3, <1>6, CursorIsNone
      <4> QED
        BY <4>2, <4>4, <1>3, <1>6, <2>2
    <3>3. \A x \in b.rows, k \in checkpoint[b.tenant] : k < x.seq
      BY <1>3, <1>5, <1>6, <1>11, <2>2
    <3> QED
      BY <1>2, <1>3, <1>4, <1>11, <2>2, <3>1, <3>2, <3>3
  <2> QED
    BY <1>14, <2>1, <2>2
<1> QED
  BY <1>2, <1>12, <1>13, <1>15 DEF TablesInv

(* The cursor moves behind a batch that nothing was confirmed of before.  *)
LEMMA EndBatchKeeps ==
  ASSUME TablesInv, NEW c \in Consumers, T!EndBatch(c) PROVE TablesInv'
<1>1. PICK b \in batch[c] :
        /\ checkpoint' = [checkpoint EXCEPT ![b.tenant] = {T!NewCursor(b.rows)}]
        /\ confirmed' = [confirmed EXCEPT ![b.tenant] = @ \cup b.rows]
        /\ repeated' = (repeated \/ b.rows \cap confirmed[b.tenant] # {})
        /\ batch' = [batch EXCEPT ![c] = {}]
        /\ UNCHANGED <<records, events, last, tx, backup, snapshot, rewound, restores>>
  BY DEF T!EndBatch
<1>2. PICK tn \in Tenants : tn = b.tenant
  BY DEF TablesInv, Batches
<1>3. PICK O : O = T!Of(tn, events)
  OBVIOUS
<1>4. /\ IsFiniteSet(b.rows) /\ b.rows # {} /\ b.rows \subseteq O
      /\ \A x \in b.rows, k \in checkpoint[tn] : k < x.seq
      /\ \A d \in Consumers : \A a \in batch[d] : a.tenant = tn => d = c /\ a = b
      /\ tn \notin rewound => \A y \in b.rows, x \in O :
           x.seq <= y.seq => x \in b.rows \/ \E k \in checkpoint[tn] : x.seq <= k
  BY <1>2, <1>3 DEF TablesInv, Batches
<1>5. /\ IsFiniteSet(O) /\ \A e \in O : e.tenant = tn /\ e.seq \in Nat \ {0}
      /\ checkpoint[tn] = {} \/ \E k \in Nat : checkpoint[tn] = {k}
      /\ \A e \in confirmed[tn] : e.seq \in Nat /\ \E k \in checkpoint[tn] : e.seq <= k
      /\ tn \notin rewound => \A k \in checkpoint[tn] :
           /\ \E y \in O : y.seq = k
           /\ \A e \in O : e.seq <= k => e \in confirmed[tn]
  BY <1>3, ViewFacts DEF TablesInv
<1>6. PICK n \in Nat : /\ n = T!NewCursor(b.rows)
                       /\ \A x \in b.rows : x.seq <= n
                       /\ \E x \in b.rows : x.seq = n
  <2>1. \A x \in b.rows : x.seq \in Nat
    BY <1>4, <1>5
  <2> QED
    BY <2>1, <1>4, LargestSeq
<1>7. /\ checkpoint'[tn] = {n} /\ confirmed'[tn] = confirmed[tn] \cup b.rows
      /\ \A t \in Tenants \ {tn} : checkpoint'[t] = checkpoint[t] /\ confirmed'[t] = confirmed[t]
      /\ \A d \in Consumers : \A a \in batch'[d] : a \in batch[d] /\ d # c
  BY <1>1, <1>2, <1>6 DEF TablesInv, TablesShape
<1>8. \A k \in checkpoint[tn] : k \in Nat /\ k < n
  BY <1>4, <1>5, <1>6
<1>9. ~repeated'
  <2>1. ASSUME NEW x \in b.rows, x \in confirmed[tn] PROVE FALSE
    <3>1. PICK k \in checkpoint[tn] : x.seq <= k
      BY <1>5, <2>1
    <3>2. k < x.seq /\ k \in Nat /\ x.seq \in Nat
      BY <1>4, <1>5, <1>8, <2>1, <3>1
    <3> QED
      BY <3>1, <3>2
  <2> QED
    BY <1>1, <1>2, <2>1 DEF TablesInv
<1>10. TablesShape'
  <2>1. /\ checkpoint' = [t \in Tenants |-> checkpoint'[t]]
        /\ confirmed' = [t \in Tenants |-> confirmed'[t]]
        /\ batch' = [d \in Consumers |-> batch'[d]]
    BY <1>1 DEF TablesInv, TablesShape
  <2> QED
    BY <2>1, <1>1 DEF TablesInv, TablesShape
<1>11. Transactions' /\ Ahead'
  BY <1>1, TransactionsStay, AheadStays DEF TablesInv
<1>12. Views'
  <2> SUFFICES ASSUME NEW t \in Tenants
               PROVE  SoundView(T!View(t), t)' /\ \A v \in backup'[t] : SoundView(v, t)
    BY DEF Views, SoundView
  <2>1. \A v \in backup'[t] : SoundView(v, t)
    BY <1>1 DEF TablesInv, Views
  <2>2. SoundView(T!View(t), t)
    BY DEF TablesInv, Views
  <2>3. CASE t # tn
    <3>1. PICK v : v = T!View(t)
      OBVIOUS
    <3>2. v = T!View(t)'
      BY <1>1, <1>7, <2>3, <3>1 DEF T!View, T!Of
    <3>3. SoundView(v, t)
      BY <2>2, <3>1
    <3> QED
      BY <2>1, <3>2, <3>3, Zenon DEF SoundView
  <2>4. CASE t = tn
    <3>1. T!Of(t, events') = O
      BY <1>1, <1>3, <2>4
    <3>2. \A x \in confirmed'[t] : x.seq \in Nat /\ \E k \in checkpoint'[t] : x.seq <= k
      <4>1. ASSUME NEW x \in confirmed[tn] PROVE x.seq \in Nat /\ x.seq <= n
        <5>1. PICK k \in checkpoint[tn] : x.seq <= k
          BY <1>5, <4>1
        <5>2. x.seq \in Nat
          BY <1>5, <4>1
        <5> QED
          BY <5>1, <5>2, <1>8
      <4> QED
        BY <1>4, <1>5, <1>6, <1>7, <2>4, <4>1
    <3>3. ASSUME tn \notin rewound, NEW e \in O, e.seq <= n PROVE e \in confirmed'[tn]
      <4>1. PICK y \in b.rows : y.seq = n
        BY <1>6
      <4>2. e \in b.rows \/ \E k \in checkpoint[tn] : e.seq <= k
        BY <1>4, <3>3, <4>1
      <4>3. e \in b.rows \/ e \in confirmed[tn]
        BY <1>5, <3>3, <4>2
      <4> QED
        BY <1>7, <4>3
    <3>4. \E y \in O : y.seq = n
      BY <1>4, <1>6
    <3>5. PICK v : v = T!View(t)'
      OBVIOUS
    <3>6. /\ v.events = O /\ v.checkpoint = checkpoint'[t]
          /\ v.confirmed = confirmed'[t] /\ v.rewound = (t \in rewound)
      BY <1>1, <3>1, <3>5 DEF T!View
    <3>7. ~v.rewound => tn \notin rewound
      BY <3>6, <2>4, Zenon
    <3>9. ASSUME ~v.rewound, NEW k \in v.checkpoint
          PROVE  /\ \E y \in v.events : y.seq = k
                 /\ \A x \in v.events : x.seq <= k => x \in v.confirmed
      <4>1. k = n /\ tn \notin rewound
        BY <1>7, <2>4, <3>6, <3>7, <3>9
      <4> QED
        BY <2>4, <3>3, <3>4, <3>6, <4>1
    <3>10. v.checkpoint = {n}
      BY <1>7, <2>4, <3>6
    <3>11. /\ IsFiniteSet(v.events)
           /\ \A x \in v.events : x.tenant = t /\ x.seq \in Nat \ {0}
           /\ \A x \in v.confirmed : x.seq \in Nat /\ \E k \in v.checkpoint : x.seq <= k
      BY <1>5, <2>4, <3>2, <3>6
    <3>8. SoundView(v, t)
      BY <3>9, <3>10, <3>11, Zenon DEF SoundView
    <3> QED
      BY <2>1, <3>5, <3>8, Zenon DEF SoundView
  <2> QED
    BY <2>1, <2>3, <2>4
<1>13. Batches'
  <2> SUFFICES ASSUME NEW d \in Consumers, NEW a \in batch'[d]
               PROVE  /\ a.tenant \in Tenants /\ IsFiniteSet(a.rows) /\ a.rows # {}
                      /\ a.rows \subseteq T!Of(a.tenant, events)
                      /\ \A x \in a.rows, k \in checkpoint'[a.tenant] : k < x.seq
                      /\ \A f \in Consumers : \A g \in batch'[f] : g.tenant = a.tenant => f = d /\ g = a
                      /\ a.tenant \notin rewound =>
                           \A y \in a.rows, x \in T!Of(a.tenant, events) :
                             x.seq <= y.seq => x \in a.rows \/ \E k \in checkpoint'[a.tenant] : x.seq <= k
    BY <1>1 DEF Batches, T!Of
  <2>1. a \in batch[d] /\ d # c
    BY <1>7
  <2>2. a.tenant # tn /\ a.tenant \in Tenants
    BY <1>4, <2>1 DEF TablesInv, Batches
  <2>3. checkpoint'[a.tenant] = checkpoint[a.tenant]
    BY <1>7, <2>2
  <2>4. \A f \in Consumers : \A g \in batch'[f] : g \in batch[f]
    BY <1>7
  <2> QED
    BY <2>1, <2>3, <2>4 DEF TablesInv, Batches
<1> QED
  BY <1>9, <1>10, <1>11, <1>12, <1>13 DEF TablesInv

LEMMA BatchFailsKeeps ==
  ASSUME TablesInv, NEW c \in Consumers, T!BatchFails(c) PROVE TablesInv'
<1>1. /\ batch' = [batch EXCEPT ![c] = {}]
      /\ UNCHANGED <<records, events, last, checkpoint, tx, backup, snapshot, confirmed,
                     repeated, rewound, restores>>
  BY DEF T!BatchFails
<1>2. TablesShape'
  <2>1. batch' = [d \in Consumers |-> batch'[d]]
    BY <1>1 DEF TablesInv, TablesShape
  <2> QED
    BY <2>1, <1>1 DEF TablesInv, TablesShape
<1>3. \A d \in Consumers : \A a \in batch'[d] : a \in batch[d]
  BY <1>1 DEF TablesInv, TablesShape
<1>4. Batches'
  BY <1>1, <1>3 DEF TablesInv, Batches, T!Of
<1> QED
  BY <1>1, <1>2, <1>4, ViewsStay, TransactionsStay, AheadStays DEF TablesInv

LEMMA SnapshotKeeps ==
  ASSUME TablesInv, NEW tn \in Tenants, T!Snapshot(tn) PROVE TablesInv'
<1>1. PICK z : z = [records |-> records[tn], events |-> T!Of(tn, events)]
  OBVIOUS
<1>2. /\ snapshot' = [snapshot EXCEPT ![tn] = {z}]
      /\ UNCHANGED <<records, events, last, checkpoint, tx, batch, backup, confirmed, repeated,
                     rewound, restores>>
  BY <1>1 DEF T!Snapshot
<1>3. z.events = T!Of(tn, events)
  BY <1>1
<1>4. IsFiniteSet(z.events) /\ \A x \in z.events : x.seq \in Nat
  BY <1>3, ViewFacts DEF TablesInv
<1>5. TablesShape'
  <2>1. /\ snapshot' = [t \in Tenants |-> snapshot'[t]]
        /\ \A t \in Tenants : \A s \in snapshot'[t] : s \in snapshot[t] \/ s = z
    BY <1>2 DEF TablesInv, TablesShape
  <2> QED
    BY <2>1, <1>2, <1>4 DEF TablesInv, TablesShape
<1> QED
  BY <1>2, <1>5, ViewsStay, TransactionsStay, BatchesStay, AheadStays DEF TablesInv

LEMMA WriteBackupKeeps ==
  ASSUME TablesInv, NEW tn \in Tenants, T!WriteBackup(tn) PROVE TablesInv'
<1>1. /\ backup' = [backup EXCEPT ![tn] = {T!View(tn)}]
      /\ UNCHANGED <<records, events, last, checkpoint, tx, batch, snapshot, confirmed,
                     repeated, rewound, restores>>
  BY DEF T!WriteBackup
<1>2. TablesShape'
  <2>1. backup' = [t \in Tenants |-> backup'[t]]
    BY <1>1 DEF TablesInv, TablesShape
  <2> QED
    BY <2>1, <1>1 DEF TablesInv, TablesShape
<1>3. \A t \in Tenants : \A v \in backup'[t] : v \in backup[t] \/ (t = tn /\ v = T!View(tn))
  BY <1>1 DEF TablesInv, TablesShape
<1>4. Views'
  <2>1. ASSUME NEW t \in Tenants PROVE SoundView(T!View(t), t)'
    <3>1. SoundView(T!View(t), t)
      BY DEF TablesInv, Views
    <3> QED
      BY <1>1, <3>1 DEF SoundView, T!View, T!Of
  <2>2. ASSUME NEW t \in Tenants, NEW v \in backup'[t] PROVE SoundView(v, t)
    BY <1>3, <2>2 DEF TablesInv, Views
  <2> QED
    BY <2>1, <2>2 DEF Views, SoundView
<1> QED
  BY <1>1, <1>2, <1>4, TransactionsStay, BatchesStay, AheadStays DEF TablesInv

LEMMA FrozenFacts ==
  ASSUME NEW tn, T!Frozen(tn)
  PROVE  /\ \A w \in Sessions : \A o \in tx[w] : o.tenant # tn
         /\ \A c \in Consumers : \A b \in batch[c] : b.tenant # tn
BY DEF T!Frozen, T!Quiet, T!Open

(* What a restore of one tenant leaves of the others.                      *)
LEMMA OthersView ==
  ASSUME NEW t \in Tenants, SoundView(T!View(t), t), T!Of(t, events') = T!Of(t, events),
         checkpoint'[t] = checkpoint[t], confirmed'[t] = confirmed[t],
         t \in rewound => t \in rewound'
  PROVE  SoundView(T!View(t), t)'
<1>1. PICK v : v = T!View(t)
  OBVIOUS
<1>2. PICK u : u = T!View(t)'
  OBVIOUS
<1>3. /\ u.events = v.events /\ u.checkpoint = v.checkpoint /\ u.confirmed = v.confirmed
      /\ v.rewound = (t \in rewound) /\ u.rewound = (t \in rewound')
  BY <1>1, <1>2 DEF T!View
<1>4. ~u.rewound => ~v.rewound
  BY <1>3, Zenon
<1>5. SoundView(v, t)
  BY <1>1
<1>6. SoundView(u, t)
  BY <1>3, <1>4, <1>5, Zenon DEF SoundView
<1> QED
  BY <1>2, <1>6, Zenon DEF SoundView

LEMMA OthersBatches ==
  ASSUME TablesInv, NEW tn, T!Frozen(tn), batch' = batch,
         \A t \in Tenants \ {tn} : /\ T!Of(t, events') = T!Of(t, events)
                                   /\ checkpoint'[t] = checkpoint[t]
                                   /\ t \in rewound => t \in rewound'
  PROVE  Batches'
<1>1. ASSUME NEW c \in Consumers, NEW b \in batch[c]
      PROVE  /\ b.tenant \in Tenants \ {tn} /\ T!Of(b.tenant, events') = T!Of(b.tenant, events)
             /\ checkpoint'[b.tenant] = checkpoint[b.tenant]
             /\ b.tenant \notin rewound' => b.tenant \notin rewound
  BY <1>1, FrozenFacts DEF TablesInv, Batches
<1> SUFFICES ASSUME NEW d \in Consumers, NEW a \in batch[d]
             PROVE  /\ a.tenant \in Tenants /\ IsFiniteSet(a.rows) /\ a.rows # {}
                    /\ a.rows \subseteq T!Of(a.tenant, events')
                    /\ \A x \in a.rows, k \in checkpoint'[a.tenant] : k < x.seq
                    /\ \A f \in Consumers : \A g \in batch[f] : g.tenant = a.tenant => f = d /\ g = a
                    /\ a.tenant \notin rewound' =>
                         \A y \in a.rows, x \in T!Of(a.tenant, events') :
                           x.seq <= y.seq => x \in a.rows \/ \E k \in checkpoint'[a.tenant] : x.seq <= k
  BY DEF Batches, T!Of
<1> QED
  BY <1>1 DEF TablesInv, Batches

LEMMA FallenFacts ==
  ASSUME TablesInv, NEW n \in Nat
  PROVE  /\ \A t \in Tenants \ T!FallenBehind(n) : \A e \in T!Of(t, events) : e.seq <= n
         /\ \A w \in Sessions : \A o \in tx[w] : o.tenant \notin T!FallenBehind(n) =>
              \A y \in o.rows : y.seq <= n
<1>1. PICK R : R = {y \in events \cup UNION {t.rows : t \in T!Open} : y.seq > n}
  OBVIOUS
<1>2. T!FallenBehind(n) = {x.tenant : x \in R}
  BY <1>1 DEF T!FallenBehind
<1>3. ASSUME NEW t \in Tenants \ T!FallenBehind(n), NEW e \in T!Of(t, events) PROVE e.seq <= n
  <2>1. e \in events /\ e.tenant = t
    BY DEF T!Of
  <2>2. e.seq \in Nat
    BY ViewFacts DEF TablesInv
  <2>3. e \notin R
    BY <1>2, <1>3, <2>1
  <2> QED
    BY <1>1, <2>1, <2>2, <2>3
<1>4. ASSUME NEW w \in Sessions, NEW o \in tx[w], o.tenant \notin T!FallenBehind(n), NEW y \in o.rows
      PROVE  y.seq <= n
  <2>1. y.tenant = o.tenant /\ y.seq \in Nat
    BY DEF TablesInv, Transactions
  <2>2. y \in UNION {t.rows : t \in T!Open}
    BY DEF T!Open
  <2>3. y \notin R
    BY <1>2, <1>4, <2>1
  <2> QED
    BY <1>1, <2>1, <2>2, <2>3
<1> QED
  BY <1>3, <1>4

LEMMA RepairedFacts ==
  ASSUME TablesInv, NEW rows, IsFiniteSet(rows), \A x \in rows : x.seq \in Nat
  PROVE  T!Repaired(rows) \in Nat /\ \A x \in rows : x.seq <= T!Repaired(rows)
<1>1. CASE rows = {}
  BY <1>1 DEF T!Repaired, TablesInv, TablesShape
<1>2. CASE rows # {}
  <2>1. T!Repaired(rows) = T!NewCursor(rows)
    BY <1>2, Zenon DEF T!Repaired, T!NewCursor
  <2> QED
    BY <1>2, <2>1, LargestSeq
<1> QED
  BY <1>1, <1>2

(* A restore that fails after setval has only moved the sequence.          *)
LEMMA RestoreFailsKeeps ==
  ASSUME TablesInv, NEW tn \in Tenants, T!RestoreFails(tn) PROVE TablesInv'
<1>1. PICK b \in backup[tn] :
        /\ T!Frozen(tn)
        /\ last' = T!Repaired(b.events)
        /\ rewound' = rewound \cup T!FallenBehind(last')
        /\ UNCHANGED <<records, events, checkpoint, tx, batch, backup, snapshot, confirmed,
                       repeated>>
  BY DEF T!RestoreFails
<1>2. SoundView(b, tn)
  BY DEF TablesInv, Views
<1>3. PICK n \in Nat : n = last'
  BY <1>1, <1>2, RepairedFacts DEF SoundView
<1>4. rewound' = rewound \cup T!FallenBehind(n)
  BY <1>1, <1>3
<1>5. TablesShape'
  BY <1>1, <1>3 DEF TablesInv, TablesShape
<1>6. Transactions'
  BY <1>1, TransactionsStay DEF TablesInv
<1>7. Batches'
  BY <1>1, <1>4, OthersBatches
<1>8. Views'
  <2>1. ASSUME NEW t \in Tenants PROVE SoundView(T!View(t), t)'
    <3>1. SoundView(T!View(t), t)
      BY DEF TablesInv, Views
    <3> QED
      BY <1>1, <1>4, <3>1, OthersView
  <2>2. \A t \in Tenants : \A v \in backup'[t] : SoundView(v, t)
    BY <1>1 DEF TablesInv, Views
  <2> QED
    BY <2>1, <2>2 DEF Views, SoundView
<1>9. Ahead'
  <2>1. ASSUME NEW t \in Tenants \ rewound', NEW e \in T!Of(t, events)
        PROVE  /\ e.seq <= n
               /\ \A w \in Sessions : \A o \in tx[w] : o.tenant = t => \A y \in o.rows : e.seq < y.seq
    BY <1>4, <2>1, FallenFacts DEF TablesInv, Ahead
  <2>2. \A w \in Sessions : \A o \in tx[w] : o.tenant \notin rewound' => \A y \in o.rows : y.seq <= n
    BY <1>4, FallenFacts
  <2> QED
    BY <1>1, <1>3, <2>1, <2>2 DEF Ahead, T!Of
<1> QED
  BY <1>1, <1>5, <1>6, <1>7, <1>8, <1>9 DEF TablesInv

(* A backup brings back its cursor with the events it was taken with, and  *)
(* sets the sequence behind them; another tenant may now be ahead of it.   *)
LEMMA RestoreBackupKeeps ==
  ASSUME TablesInv, NEW tn \in Tenants, T!RestoreBackup(tn) PROVE TablesInv'
<1>1. PICK b \in backup[tn] :
        /\ T!Frozen(tn)
        /\ events' = (events \ T!Of(tn, events)) \cup b.events
        /\ last' = T!Repaired(b.events)
        /\ checkpoint' = [checkpoint EXCEPT ![tn] = b.checkpoint]
        /\ confirmed' = [confirmed EXCEPT ![tn] = b.confirmed]
        /\ rewound' = ((rewound \cup T!FallenBehind(last')) \ {tn})
                        \cup (IF b.rewound THEN {tn} ELSE {})
        /\ UNCHANGED <<tx, batch, backup, snapshot, repeated>>
  BY DEF T!RestoreBackup
<1>2. SoundView(b, tn)
  BY DEF TablesInv, Views
<1>3. PICK n \in Nat : n = last' /\ \A x \in b.events : x.seq <= n
  BY <1>1, <1>2, RepairedFacts DEF SoundView
<1>4. /\ \A t \in Tenants \ {tn} : t \in rewound' <=> t \in rewound \cup T!FallenBehind(n)
      /\ tn \notin rewound' => ~b.rewound
      /\ \A t : t \notin rewound' /\ t # tn => t \notin T!FallenBehind(n) /\ t \notin rewound
  BY <1>1, <1>3
<1>5. /\ T!Of(tn, events') = b.events
      /\ \A t \in Tenants \ {tn} : T!Of(t, events') = T!Of(t, events)
  BY <1>1, <1>2 DEF T!Of, SoundView
<1>6. /\ checkpoint'[tn] = b.checkpoint /\ confirmed'[tn] = b.confirmed
      /\ \A t \in Tenants \ {tn} : checkpoint'[t] = checkpoint[t] /\ confirmed'[t] = confirmed[t]
  BY <1>1 DEF TablesInv, TablesShape
<1>7. TablesShape'
  <2>1. /\ checkpoint' = [t \in Tenants |-> checkpoint'[t]]
        /\ confirmed' = [t \in Tenants |-> confirmed'[t]]
    BY <1>1 DEF TablesInv, TablesShape
  <2> QED
    BY <2>1, <1>1, <1>3 DEF TablesInv, TablesShape
<1>8. Transactions'
  BY <1>1, TransactionsStay DEF TablesInv
<1>9. Batches'
  <2>1. \A t \in Tenants \ {tn} : /\ T!Of(t, events') = T!Of(t, events)
                                  /\ checkpoint'[t] = checkpoint[t]
                                  /\ t \in rewound => t \in rewound'
    BY <1>4, <1>5, <1>6
  <2> QED
    BY <1>1, <2>1, OthersBatches
<1>10. Views'
  <2>1. ASSUME NEW t \in Tenants PROVE SoundView(T!View(t), t)'
    <3>1. CASE t # tn
      <4>1. SoundView(T!View(t), t)
        BY DEF TablesInv, Views
      <4> QED
        BY <1>4, <1>5, <1>6, <3>1, <4>1, OthersView
    <3>2. CASE t = tn
      <4>1. PICK u : u = T!View(t)'
        OBVIOUS
      <4>2. /\ u.events = b.events /\ u.checkpoint = b.checkpoint /\ u.confirmed = b.confirmed
            /\ u.rewound = (tn \in rewound')
        BY <1>5, <1>6, <3>2, <4>1 DEF T!View
      <4>3. ~u.rewound => ~b.rewound
        BY <1>4, <4>2, Zenon
      <4>4. SoundView(u, t)
        BY <1>2, <3>2, <4>2, <4>3, Zenon DEF SoundView
      <4> QED
        BY <4>1, <4>4, Zenon DEF SoundView
    <3> QED
      BY <3>1, <3>2
  <2>2. \A t \in Tenants : \A v \in backup'[t] : SoundView(v, t)
    BY <1>1 DEF TablesInv, Views
  <2> QED
    BY <2>1, <2>2 DEF Views, SoundView
<1>11. Ahead'
  <2>1. ASSUME NEW t \in Tenants \ rewound', NEW e \in T!Of(t, events')
        PROVE  /\ e.seq <= n
               /\ \A w \in Sessions : \A o \in tx[w] : o.tenant = t => \A y \in o.rows : e.seq < y.seq
    <3>1. CASE t = tn
      BY <1>1, <1>3, <1>5, <2>1, <3>1, FrozenFacts
    <3>2. CASE t # tn
      <4>1. e \in T!Of(t, events) /\ t \notin T!FallenBehind(n) /\ t \notin rewound
        BY <1>4, <1>5, <2>1, <3>2
      <4> QED
        BY <4>1, FallenFacts DEF TablesInv, Ahead
    <3> QED
      BY <3>1, <3>2
  <2>2. ASSUME NEW w \in Sessions, NEW o \in tx[w], o.tenant \notin rewound', NEW y \in o.rows
        PROVE  y.seq <= n
    <3>1. o.tenant # tn
      BY <1>1, FrozenFacts
    <3>2. o.tenant \notin T!FallenBehind(n)
      BY <1>4, <2>2, <3>1
    <3> QED
      BY <3>2, FallenFacts
  <2> QED
    BY <1>1, <1>3, <2>1, <2>2 DEF Ahead, T!Of
<1> QED
  BY <1>1, <1>7, <1>8, <1>9, <1>10, <1>11 DEF TablesInv

(* A snapshot comes back under new numbers, above every other; nothing of  *)
(* it counts as handled.                                                   *)
LEMMA RestoreSnapshotKeeps ==
  ASSUME TablesInv, NEW tn \in Tenants, T!RestoreSnapshot(tn) PROVE TablesInv'
<1>1. PICK s \in snapshot[tn] :
        /\ T!Frozen(tn)
        /\ events' = (events \ T!Of(tn, events)) \cup T!Renumbered(tn, s.events)
        /\ last' = last + T!Cardinality(s.events)
        /\ checkpoint' = [checkpoint EXCEPT ![tn] = {}]
        /\ confirmed' = [confirmed EXCEPT ![tn] = {}]
        /\ snapshot' = [snapshot EXCEPT ![tn] = {s}]
        /\ rewound' = rewound \ {tn}
        /\ UNCHANGED <<tx, batch, backup, repeated>>
  BY DEF T!RestoreSnapshot
<1>2. PICK S : S = s.events
  OBVIOUS
<1>3. IsFiniteSet(S) /\ \A x \in S : x.seq \in Nat
  BY <1>2 DEF TablesInv, TablesShape
<1>4. PICK m \in Nat : m = Cardinality(S)
  BY <1>3, FS_CardinalityType
<1>5. PICK n \in Nat : n = last
  BY DEF TablesInv, TablesShape
<1>6. last' = n + m
  <2>1. T!Cardinality(s.events) = m
    BY <1>2, <1>4, SameCardinality
  <2> QED
    BY <1>1, <1>5, <2>1
<1>7. PICK f : f = [x \in S |-> Cardinality({y \in S : y.seq <= x.seq})]
  OBVIOUS
<1>8. ASSUME NEW x \in S PROVE f[x] \in 1 .. m
  <2>1. PICK X : X = {y \in S : y.seq <= x.seq}
    OBVIOUS
  <2>2. X \subseteq S /\ x \in X
    BY <1>3, <2>1
  <2>3. IsFiniteSet(X) /\ Cardinality(X) <= m
    BY <1>3, <1>4, <2>2, FS_Subset
  <2>4. Cardinality(X) \in Nat
    BY <2>3, FS_CardinalityType
  <2>5. Cardinality(X) # 0
    BY <2>2, <2>3, FS_EmptySet
  <2>6. f[x] = Cardinality(X)
    BY <1>7, <2>1
  <2> QED
    BY <2>3, <2>4, <2>5, <2>6
<1>9. PICK N : N = {T!Row(tn, x, n + f[x]) : x \in S}
  OBVIOUS
<1>10. T!Renumbered(tn, s.events) = N
  <2>1. T!Renumbered(tn, S) = {T!Row(tn, x, last + Cardinality({y \in S : y.seq <= x.seq})) : x \in S}
    BY SameCardinality, Zenon DEF T!Renumbered
  <2>2. \A x \in S : f[x] = Cardinality({y \in S : y.seq <= x.seq})
    BY <1>7
  <2>3. \A x \in S : T!Row(tn, x, last + Cardinality({y \in S : y.seq <= x.seq})) = T!Row(tn, x, n + f[x])
    BY <1>5, <2>2, Zenon
  <2>4. T!Renumbered(tn, S) = N
    BY <1>9, <2>1, <2>3, Zenon
  <2> QED
    BY <1>2, <2>4, Zenon
<1>11. IsFiniteSet(N)
  <2>1. PICK g : g = [x \in S |-> T!Row(tn, x, n + f[x])]
    OBVIOUS
  <2>2. g \in Surjection(S, N)
    BY <1>9, <2>1 DEF Surjection
  <2> QED
    BY <1>3, <2>2, FS_Surjection
<1>12. \A x \in N : x.tenant = tn /\ x.seq \in Nat \ {0} /\ x.seq <= n + m
  <2>1. ASSUME NEW x \in S PROVE /\ T!Row(tn, x, n + f[x]).tenant = tn
                                 /\ T!Row(tn, x, n + f[x]).seq = n + f[x]
    BY DEF T!Row
  <2>2. \A x \in S : n + f[x] \in Nat \ {0} /\ n + f[x] <= n + m
    BY <1>8
  <2> QED
    BY <1>9, <2>1, <2>2
<1>13. /\ T!Of(tn, events') = N
       /\ \A t \in Tenants \ {tn} : T!Of(t, events') = T!Of(t, events)
  BY <1>1, <1>10, <1>12 DEF T!Of
<1>14. /\ checkpoint'[tn] = {} /\ confirmed'[tn] = {}
       /\ \A t \in Tenants \ {tn} : checkpoint'[t] = checkpoint[t] /\ confirmed'[t] = confirmed[t]
  BY <1>1 DEF TablesInv, TablesShape
<1>15. TablesShape'
  <2>1. /\ checkpoint' = [t \in Tenants |-> checkpoint'[t]]
        /\ confirmed' = [t \in Tenants |-> confirmed'[t]]
        /\ snapshot' = [t \in Tenants |-> snapshot'[t]]
        /\ \A t \in Tenants : \A v \in snapshot'[t] : v \in snapshot[t] \/ v = s
    BY <1>1 DEF TablesInv, TablesShape
  <2>2. last' \in Nat
    BY <1>6
  <2> QED
    BY <2>1, <2>2, <1>1, <1>2, <1>3 DEF TablesInv, TablesShape
<1>16. Transactions'
  BY <1>1, TransactionsStay DEF TablesInv
<1>17. Batches'
  <2>1. \A t \in Tenants \ {tn} : /\ T!Of(t, events') = T!Of(t, events)
                                  /\ checkpoint'[t] = checkpoint[t]
                                  /\ t \in rewound => t \in rewound'
    BY <1>1, <1>13, <1>14
  <2> QED
    BY <1>1, <2>1, OthersBatches
<1>18. Views'
  <2>1. ASSUME NEW t \in Tenants PROVE SoundView(T!View(t), t)'
    <3>1. CASE t # tn
      <4>1. SoundView(T!View(t), t)
        BY DEF TablesInv, Views
      <4> QED
        BY <1>1, <1>13, <1>14, <3>1, <4>1, OthersView
    <3>2. CASE t = tn
      <4>1. PICK u : u = T!View(t)'
        OBVIOUS
      <4>2. u.events = N /\ u.checkpoint = {} /\ u.confirmed = {}
        BY <1>13, <1>14, <3>2, <4>1 DEF T!View
      <4>3. SoundView(u, t)
        BY <1>11, <1>12, <3>2, <4>2, Zenon DEF SoundView
      <4> QED
        BY <4>1, <4>3, Zenon DEF SoundView
    <3> QED
      BY <3>1, <3>2
  <2>2. \A t \in Tenants : \A v \in backup'[t] : SoundView(v, t)
    BY <1>1 DEF TablesInv, Views
  <2> QED
    BY <2>1, <2>2 DEF Views, SoundView
<1>19. Ahead'
  <2>1. ASSUME NEW t \in Tenants \ rewound', NEW e \in T!Of(t, events')
        PROVE  /\ e.seq <= n + m
               /\ \A w \in Sessions : \A o \in tx[w] : o.tenant = t => \A y \in o.rows : e.seq < y.seq
    <3>1. CASE t = tn
      BY <1>1, <1>12, <1>13, <2>1, <3>1, FrozenFacts
    <3>2. CASE t # tn
      <4>1. e \in T!Of(t, events) /\ t \notin rewound
        BY <1>1, <1>13, <2>1, <3>2
      <4>2. e.seq \in Nat /\ e.seq <= n
        BY <1>5, <2>1, <4>1, ViewFacts DEF TablesInv, Ahead
      <4>3. e.seq <= n + m
        BY <4>2
      <4> QED
        BY <2>1, <4>1, <4>3 DEF TablesInv, Ahead
    <3> QED
      BY <3>1, <3>2
  <2>2. ASSUME NEW w \in Sessions, NEW o \in tx[w], o.tenant \notin rewound', NEW y \in o.rows
        PROVE  y.seq <= n + m
    <3>1. o.tenant \notin rewound
      BY <1>1, <2>2, FrozenFacts
    <3>2. y.seq \in Nat /\ y.seq <= n
      BY <1>5, <2>2, <3>1 DEF TablesInv, Ahead, Transactions
    <3> QED
      BY <3>2
  <2> QED
    BY <1>1, <1>6, <2>1, <2>2 DEF Ahead, T!Of
<1> QED
  BY <1>1, <1>15, <1>16, <1>17, <1>18, <1>19 DEF TablesInv

LEMMA TablesStart ==
  ASSUME T!Init PROVE TablesInv
<1>1. /\ events = {} /\ last = 0 /\ checkpoint = [tn \in Tenants |-> {}]
      /\ tx = [w \in Sessions |-> {}] /\ batch = [c \in Consumers |-> {}]
      /\ backup = [tn \in Tenants |-> {}] /\ snapshot = [tn \in Tenants |-> {}]
      /\ confirmed = [tn \in Tenants |-> {}] /\ repeated = FALSE
  BY DEF T!Init
<1>2. TablesShape /\ Transactions /\ Batches
  BY <1>1 DEF TablesShape, Transactions, Batches
<1>3. Ahead
  BY <1>1 DEF Ahead, T!Of
<1>4. Views
  <2>1. ASSUME NEW t \in Tenants PROVE SoundView(T!View(t), t)
    <3>1. PICK u : u = T!View(t)
      OBVIOUS
    <3>2. u.events = {} /\ u.checkpoint = {} /\ u.confirmed = {}
      BY <1>1, <3>1 DEF T!View, T!Of
    <3>3. IsFiniteSet(u.events)
      BY <3>2, FS_EmptySet
    <3>4. SoundView(u, t)
      BY <3>2, <3>3, Zenon DEF SoundView
    <3> QED
      BY <3>1, <3>4
  <2> QED
    BY <1>1, <2>1 DEF Views
<1> QED
  BY <1>1, <1>2, <1>3, <1>4 DEF TablesInv

LEMMA TablesStep ==
  ASSUME TablesInv, \A v, w \in Sessions : v = w, T!Next PROVE TablesInv'
<1>1. BatchSize \in Nat
  BY TablesAreBounded DEF T!TablesAssumption
<1>2. ASSUME NEW w \in Sessions, NEW a \in Appends, T!Begin(w, a) PROVE TablesInv'
  BY <1>2, BeginKeeps
<1>3. ASSUME NEW w \in Sessions, T!InsertEvent(w) PROVE TablesInv'
  BY <1>3, InsertEventKeeps
<1>4. ASSUME NEW w \in Sessions, T!Commit(w) PROVE TablesInv'
  BY <1>4, CommitKeeps
<1>5. ASSUME NEW w \in Sessions, T!Rollback(w) PROVE TablesInv'
  BY <1>5, RollbackKeeps
<1>6. ASSUME NEW c \in Consumers, NEW tn \in Tenants, T!BeginBatch(c, tn) PROVE TablesInv'
  BY <1>1, <1>6, BeginBatchKeeps
<1>7. ASSUME NEW c \in Consumers, T!EndBatch(c) PROVE TablesInv'
  BY <1>7, EndBatchKeeps
<1>8. ASSUME NEW c \in Consumers, T!BatchFails(c) PROVE TablesInv'
  BY <1>8, BatchFailsKeeps
<1>9. ASSUME NEW tn \in Tenants, T!Snapshot(tn) PROVE TablesInv'
  BY <1>9, SnapshotKeeps
<1>10. ASSUME NEW tn \in Tenants, T!WriteBackup(tn) PROVE TablesInv'
  BY <1>10, WriteBackupKeeps
<1>11. ASSUME NEW tn \in Tenants, T!RestoreSnapshot(tn) PROVE TablesInv'
  BY <1>11, RestoreSnapshotKeeps
<1>12. ASSUME NEW tn \in Tenants, T!RestoreBackup(tn) PROVE TablesInv'
  BY <1>12, RestoreBackupKeeps
<1>13. ASSUME NEW tn \in Tenants, T!RestoreFails(tn) PROVE TablesInv'
  BY <1>13, RestoreFailsKeeps
<1> QED
  BY <1>2, <1>3, <1>4, <1>5, <1>6, <1>7, <1>8, <1>9, <1>10, <1>11, <1>12, <1>13 DEF T!Next

LEMMA TablesStay ==
  ASSUME TablesInv, UNCHANGED tableVars PROVE TablesInv'
<1>1. UNCHANGED <<records, events, last, checkpoint, tx, batch, backup, snapshot, confirmed,
                  repeated, rewound, restores>>
  BY DEF tableVars
<1>2. TablesShape'
  BY <1>1 DEF TablesInv, TablesShape
<1> QED
  BY <1>1, <1>2, ViewsStay, TransactionsStay, BatchesStay, AheadStays DEF TablesInv

(* Whatever transactions roll back, however replay, backups and restores   *)
(* of other tenants fall between their statements: nothing beyond the      *)
(* cursor of a consumer is confirmed, every event up to it is unless the   *)
(* shared sequence was set back behind the tenant, and the numbers to come *)
(* are above the tenant's. One writer of events at a time, as the mirror's *)
(* chain of event tasks is (appendEventOn, replay, snapshot and restore of *)
(* the PostgreSQL store, the restore of ops/backup-format).                *)
THEOREM TablesInductive ==
  ASSUME \A v, w \in Sessions : v = w PROVE MCSpec => []TablesInv
<1>1. MCInit => TablesInv
  BY TablesStart DEF MCInit
<1>2. TablesInv /\ [MCNext]_<<vars, tableVars, journalVars, part>> => TablesInv'
  <2> SUFFICES ASSUME TablesInv, [MCNext]_<<vars, tableVars, journalVars, part>> PROVE TablesInv'
    OBVIOUS
  <2>1. CASE T!Next
    BY <2>1, TablesStep
  <2>2. CASE UNCHANGED tableVars
    BY <2>2, TablesStay
  <2> QED
    BY <2>1, <2>2 DEF MCNext
<1> QED
  BY <1>1, <1>2, PTL DEF MCSpec

(* Replay confirms every committed event up to its cursor, and none twice, *)
(* for every number of tenants, consumers, backups and restores, with one  *)
(* writer of events at a time: a tenant whose events the sequence was set  *)
(* back behind, or that was restored from a backup taken after that, is    *)
(* the exception the property names (replay, appendEventOn, restore).      *)
THEOREM ReplayIsExactHolds ==
  ASSUME \A v, w \in Sessions : v = w PROVE MCSpec => []ReplayIsExact
<1>1. TablesInv => ReplayIsExact
  <2> SUFFICES ASSUME TablesInv PROVE ReplayIsExact
    OBVIOUS
  <2>1. ASSUME NEW tn \in Tenants \ rewound, NEW x \in T!Of(tn, events), checkpoint[tn] # {},
               x.seq <= T!Cursor(tn)
        PROVE  x \in confirmed[tn]
    <3>1. PICK k \in Nat : checkpoint[tn] = {k}
      BY <2>1, ViewFacts DEF TablesInv
    <3>2. T!Cursor(tn) = k
      BY <3>1, CursorIs
    <3> QED
      BY <2>1, <3>1, <3>2, ViewFacts DEF TablesInv
  <2> QED
    BY <2>1 DEF ReplayIsExact, T!NothingSkipped, T!Handled, T!ConfirmedOnce, TablesInv
<1> QED
  BY <1>1, TablesInductive, PTL
-----------------------------------------------------------------------------
(* The journal.  As long as no write failed under a process that went on,  *)
(* the lines count from one, what a crash left unfinished is behind them,  *)
(* and the running process knows its file exactly.                         *)
JournalShape ==
  /\ nextCursorValue \in 1 .. MaxCursor + 1
  /\ file \in Seq(J!Entries \cup {J!Garbage})
  /\ tail \in {"clean", "unterminated", "torn"}
  /\ tail = "unterminated" => file # <<>>
  /\ eventCursors = [k \in JournalKeys |-> eventCursors[k]]
  /\ \A k \in JournalKeys : eventCursors[k] \subseteq [cursor : J!Cursors, id : EventIds]
  /\ lastCheckpoint \subseteq Nat /\ checkpointFile \subseteq Nat
  /\ failures \in Nat

(* A running process has every event of the file in its index, which also  *)
(* holds after failures: they leave events in the index that the file has  *)
(* not, and lines that are no events.                                      *)
Indexed ==
  process = "up" =>
    \A i \in DOMAIN file : file[i].payload[1] \in JournalKeys =>
                             eventCursors[file[i].payload[1]] # {}

Unfailed ==
  /\ process # "refused"
  /\ \A i \in DOMAIN file : file[i].cursor = i
  /\ \A a \in acknowledged : \E i \in DOMAIN file : file[i] = a
  /\ \A c \in checkpointFile : c <= Len(file)
  /\ process = "up" => /\ tail = "clean"
                       /\ nextCursorValue = Len(file) + 1
                       /\ eventCursors = J!IndexOf(file)
                       /\ \A c \in lastCheckpoint : c <= Len(file)

JournalInv == /\ JournalShape /\ Indexed /\ J!OneEntryPerEvent
              /\ failures = 0 => Unfailed
-----------------------------------------------------------------------------

(* The lines behind a cursor, up to line k.                                *)
Between(c, k) == [i \in 1 .. k - c |-> file[c + i]]

LEMMA BetweenIs ==
  ASSUME NEW X, file \in Seq(X), NEW c \in Nat, NEW k \in 0 .. Len(file)
  PROVE  /\ Between(c, k) \in Seq(X)
         /\ Len(Between(c, k)) = IF c <= k THEN k - c ELSE 0
         /\ \A i \in 1 .. k - c : Between(c, k)[i] = file[c + i]
<1>1. PICK n \in Nat : n = Len(file)
  OBVIOUS
<1>2. PICK m \in Nat : m = IF c <= k THEN k - c ELSE 0
  <2>1. k \in Nat
    BY <1>1
  <2>2. c <= k => k - c \in Nat
    BY <2>1
  <2> QED
    BY <2>2
<1>3. 1 .. k - c = 1 .. m
  BY <1>1, <1>2
<1>4. \A i \in 1 .. m : c + i \in 1 .. n /\ file[c + i] \in X
  BY <1>1, <1>2
<1>5. PICK s : s = [i \in 1 .. m |-> file[c + i]]
  OBVIOUS
<1>6. s \in Seq(X) /\ Len(s) = m /\ \A i \in 1 .. m : s[i] = file[c + i]
  BY <1>4, <1>5
<1>7. Between(c, k) = s
  BY <1>3, <1>5 DEF Between
<1> QED
  BY <1>2, <1>3, <1>6, <1>7

LEMMA SameSequence ==
  ASSUME NEW X, NEW s \in Seq(X), NEW t \in Seq(X), Len(s) = Len(t),
         \A i \in 1 .. Len(s) : s[i] = t[i]
  PROVE  s = t
OBVIOUS

LEMMA BetweenGrows ==
  ASSUME NEW X, file \in Seq(X), NEW c \in Nat, NEW k \in 1 .. Len(file)
  PROVE  Between(c, k) = IF k > c THEN Append(Between(c, k - 1), file[k]) ELSE Between(c, k - 1)
<1>0. k - 1 \in 0 .. Len(file) /\ k \in 0 .. Len(file) /\ file[k] \in X /\ k \in Nat
  OBVIOUS
<1>1. PICK s : s = Between(c, k - 1)
  OBVIOUS
<1>2. PICK t : t = Between(c, k)
  OBVIOUS
<1>3. /\ s \in Seq(X) /\ Len(s) = (IF c <= k - 1 THEN (k - 1) - c ELSE 0)
      /\ \A i \in 1 .. (k - 1) - c : s[i] = file[c + i]
  BY <1>0, <1>1, BetweenIs
<1>4. /\ t \in Seq(X) /\ Len(t) = (IF c <= k THEN k - c ELSE 0)
      /\ \A i \in 1 .. k - c : t[i] = file[c + i]
  BY <1>0, <1>2, BetweenIs
<1>5. CASE k > c
  <2>1. PICK m \in Nat : m = k - c - 1
    BY <1>0, <1>5
  <2>2. /\ Len(s) = m /\ Len(t) = m + 1 /\ c + (m + 1) = k
        /\ \A i \in 1 .. m : s[i] = file[c + i]
        /\ \A i \in 1 .. m + 1 : t[i] = file[c + i]
    BY <1>0, <1>3, <1>4, <1>5, <2>1
  <2>3. PICK u : u = Append(s, file[k])
    OBVIOUS
  <2>4. u \in Seq(X) /\ Len(u) = m + 1 /\ u[m + 1] = file[k] /\ \A i \in 1 .. m : u[i] = s[i]
    BY <1>0, <1>3, <2>2, <2>3
  <2>5. \A i \in 1 .. m + 1 : i \in 1 .. m \/ i = m + 1
    BY <2>1
  <2>6. \A i \in 1 .. m + 1 : u[i] = t[i]
    BY <2>2, <2>4, <2>5
  <2>7. u = t
    BY <1>4, <2>2, <2>4, <2>6, SameSequence
  <2> QED
    BY <1>1, <1>2, <1>5, <2>3, <2>7
<1>6. CASE ~(k > c)
  <2>1. Len(s) = 0 /\ Len(t) = 0
    BY <1>0, <1>3, <1>4, <1>6
  <2>2. s = t
    BY <1>3, <1>4, <2>1
  <2> QED
    BY <1>1, <1>2, <1>6, <2>2
<1> QED
  BY <1>5, <1>6

(* What a reader gets from a file whose lines count from one.              *)
LEMMA ReadEntriesAre ==
  ASSUME NEW X, file \in Seq(X), \A i \in DOMAIN file : file[i].cursor = i, NEW c \in Nat
  PROVE  J!ReadEntries(c) = Between(c, Len(file))
<1>1. PICK n \in Nat : n = Len(file)
  OBVIOUS
<1> DEFINE IsRun(f) ==
      f = [k \in 0 .. n |-> IF k = 0 THEN <<>>
                            ELSE IF file[k].cursor > c THEN Append(f[k - 1], file[k])
                            ELSE f[k - 1]]
<1>2. PICK g : g = [k \in 0 .. n |-> Between(c, k)]
  OBVIOUS
<1>3. Between(c, 0) = <<>>
  <2>0. 0 \in 0 .. Len(file)
    BY <1>1
  <2>2. /\ Between(c, 0) \in Seq(X)
        /\ Len(Between(c, 0)) = IF c <= 0 THEN 0 - c ELSE 0
    BY <2>0, BetweenIs
  <2>1. Len(Between(c, 0)) = 0
    BY <2>2
  <2> QED
    BY <2>1, <2>2
<1>4. ASSUME NEW k \in 1 .. n
      PROVE  Between(c, k) = IF file[k].cursor > c THEN Append(Between(c, k - 1), file[k])
                             ELSE Between(c, k - 1)
  <2>1. file[k].cursor = k
    BY <1>1
  <2> QED
    BY <1>1, <2>1, BetweenGrows
<1>5. IsRun(g)
  <2>1. ASSUME NEW k \in 0 .. n
        PROVE  g[k] = IF k = 0 THEN <<>>
                      ELSE IF file[k].cursor > c THEN Append(g[k - 1], file[k]) ELSE g[k - 1]
    <3>1. CASE k = 0
      BY <1>2, <1>3, <3>1
    <3>2. CASE k \in 1 .. n
      <4>1. k - 1 \in 0 .. n /\ k # 0
        BY <3>2
      <4>2. g[k] = Between(c, k) /\ g[k - 1] = Between(c, k - 1)
        BY <1>2, <4>1
      <4> QED
        BY <1>4, <3>2, <4>1, <4>2
    <3> QED
      BY <3>1, <3>2
  <2>2. PICK h : h = [k \in 0 .. n |-> IF k = 0 THEN <<>>
                                       ELSE IF file[k].cursor > c THEN Append(g[k - 1], file[k])
                                       ELSE g[k - 1]]
    OBVIOUS
  <2>3. \A k \in 0 .. n : h[k] = g[k]
    BY <2>1, <2>2, Zenon
  <2>4. h = [k \in 0 .. n |-> h[k]] /\ g = [k \in 0 .. n |-> g[k]]
    BY <1>2, <2>2
  <2>5. h = g
    BY <2>3, <2>4
  <2> QED
    BY <2>2, <2>5, Zenon
<1>6. PICK f : f = CHOOSE h : IsRun(h)
  OBVIOUS
<1>7. IsRun(f)
  <2> HIDE DEF IsRun
  <2> QED
    BY <1>5, <1>6
<1>8. J!ReadEntries(c) = f[n]
  BY <1>1, <1>6, Zenon DEF J!ReadEntries
<1>9. f[0] = <<>>
  BY <1>7
<1>10. ASSUME NEW k \in 1 .. n
       PROVE  f[k] = IF file[k].cursor > c THEN Append(f[k - 1], file[k]) ELSE f[k - 1]
  <2>1. k \in 0 .. n /\ k # 0
    OBVIOUS
  <2> QED
    BY <1>7, <2>1
<1>11. f[n] = g[n]
  <2> DEFINE E == {k \in Nat : k <= n => f[k] = Between(c, k)}
  <2>1. 0 \in E
    BY <1>3, <1>9
  <2>2. ASSUME NEW k \in Nat, k \in E PROVE k + 1 \in E
    <3> SUFFICES ASSUME k + 1 <= n PROVE f[k + 1] = Between(c, k + 1)
      OBVIOUS
    <3>1. f[k] = Between(c, k) /\ k + 1 \in 1 .. n /\ (k + 1) - 1 = k
      BY <2>2
    <3>2. PICK j \in 1 .. n : j = k + 1 /\ j - 1 = k
      BY <3>1
    <3>3. f[j] = IF file[j].cursor > c THEN Append(f[j - 1], file[j]) ELSE f[j - 1]
      BY <1>10
    <3>4. Between(c, j) = IF file[j].cursor > c THEN Append(Between(c, j - 1), file[j])
                          ELSE Between(c, j - 1)
      BY <1>4
    <3>5. f[j] = Between(c, j)
      BY <3>1, <3>2, <3>3, <3>4, Zenon
    <3> QED
      BY <3>2, <3>5
  <2>3. Nat \subseteq E
    <3> HIDE DEF E
    <3> QED
      BY <2>1, <2>2, InductionOverNat
  <2> QED
    BY <1>2, <2>3
<1> QED
  BY <1>1, <1>2, <1>8, <1>11

LEMMA PageFacts ==
  ASSUME NEW X, file \in Seq(X), \A i \in DOMAIN file : file[i].cursor = i,
         NEW c \in Nat, NEW limit \in Nat \ {0}
  PROVE  /\ J!ReadPage(c, limit).hasMore =>
              /\ c + limit < Len(file)
              /\ J!ReadPage(c, limit).entries = Between(c, c + limit)
              /\ J!ReadPage(c, limit).nextCursor = c + limit
         /\ J!ReadPage(c, limit).hasMore \/ J!ReadPage(c, limit).entries = Between(c, Len(file))
         /\ Len(file) <= c => ~J!ReadPage(c, limit).hasMore
<1>1. PICK n \in Nat : n = Len(file)
  OBVIOUS
<1>2. PICK found : found = J!ReadEntries(c)
  OBVIOUS
<1>3. found = Between(c, n)
  BY <1>1, <1>2, ReadEntriesAre
<1>a. n \in 0 .. Len(file)
  BY <1>1
<1>4. /\ found \in Seq(X) /\ Len(found) = (IF c <= n THEN n - c ELSE 0)
      /\ \A i \in 1 .. n - c : found[i] = file[c + i]
  BY <1>3, <1>a, BetweenIs
<1>5. PICK l \in Nat : l = Len(found)
  <2>1. found \in Seq(X)
    BY <1>4
  <2> QED
    BY <2>1
<1>6. PICK m \in Nat : /\ m = J!Min({limit, l})
                       /\ l > limit => m = limit
                       /\ ~(l > limit) => m = l
  <2>1. J!Min({limit, l}) = CHOOSE x \in {limit, l} : \A y \in {limit, l} : x <= y
    BY DEF J!Min
  <2>2. CASE l > limit
    <3>1. \A x \in {limit, l} : (\A y \in {limit, l} : x <= y) <=> x = limit
      BY <2>2
    <3> QED
      BY <2>1, <2>2, <3>1
  <2>3. CASE ~(l > limit)
    <3>1. \A x \in {limit, l} : (\A y \in {limit, l} : x <= y) <=> x = l
      BY <2>3
    <3> QED
      BY <2>1, <2>3, <3>1
  <2> QED
    BY <2>2, <2>3
<1>7. PICK es : es = SubSeq(found, 1, m)
  OBVIOUS
<1>8. m <= l
  BY <1>6
<1>9. es \in Seq(X) /\ Len(es) = m /\ \A i \in 1 .. m : es[i] = found[i]
  BY <1>4, <1>5, <1>7, <1>8
<1>10. PICK page : page = J!ReadPage(c, limit)
  OBVIOUS
<1>11. /\ page.entries = es
       /\ page.nextCursor = (IF es = <<>> THEN c ELSE es[Len(es)].cursor)
       /\ page.hasMore = (l > limit)
  BY <1>2, <1>5, <1>6, <1>7, <1>10 DEF J!ReadPage, J!Last
<1>12. CASE l > limit
  <2>1. m = limit /\ c < n /\ l = n - c /\ c + limit < n
    BY <1>4, <1>5, <1>6, <1>12
  <2>2. c + m \in 0 .. Len(file) /\ c <= c + m /\ (c + m) - c = m
    BY <1>1, <2>1
  <2>3. PICK t : t = Between(c, c + m)
    OBVIOUS
  <2>4. t \in Seq(X) /\ Len(t) = m /\ \A i \in 1 .. m : t[i] = file[c + i]
    BY <2>2, <2>3, BetweenIs
  <2>5. \A i \in 1 .. m : i \in 1 .. n - c
    BY <2>1
  <2>6. \A i \in 1 .. Len(es) : es[i] = t[i]
    BY <1>4, <1>9, <2>4, <2>5
  <2>7. es = t
    BY <1>9, <2>4, <2>6, SameSequence
  <2>8. es # <<>> /\ m \in 1 .. m
    BY <1>9, <2>1
  <2>9. es[m].cursor = c + m
    <3>1. es[m] = file[c + m] /\ c + m \in DOMAIN file
      BY <1>1, <2>1, <2>4, <2>7, <2>8
    <3> QED
      BY <3>1
  <2>10. page.nextCursor = c + limit
    BY <1>9, <1>11, <2>1, <2>8, <2>9
  <2>11. page.entries = Between(c, c + limit)
    BY <1>11, <2>1, <2>3, <2>7
  <2>12. ~(n <= c)
    BY <2>1
  <2> QED
    BY <1>1, <1>10, <1>11, <1>12, <2>1, <2>10, <2>11, <2>12
<1>13. CASE ~(l > limit)
  <2>1. m = l
    BY <1>6, <1>13
  <2>2. es = found
    BY <1>4, <1>5, <1>9, <2>1, SameSequence
  <2>3. ~page.hasMore
    BY <1>11, <1>13, Zenon
  <2> QED
    BY <1>1, <1>3, <1>10, <1>11, <2>2, <2>3, Zenon
<1> QED
  BY <1>12, <1>13

(* A reader that follows nextCursor gets every line behind its cursor.     *)
LEMMA ReadPagesAre ==
  ASSUME NEW X, file \in Seq(X), \A i \in DOMAIN file : file[i].cursor = i,
         MaxCursor \in Nat, Len(file) <= MaxCursor,
         NEW from \in 0 .. MaxCursor, NEW limit \in Nat \ {0}
  PROVE  J!ReadPages(from, limit) = Between(from, Len(file))
<1>1. PICK n \in Nat : n = Len(file)
  OBVIOUS
<1> DEFINE IsRun(f) ==
      f = [c \in 0 .. MaxCursor |->
             IF J!ReadPage(c, limit).hasMore
             THEN J!ReadPage(c, limit).entries \o f[J!ReadPage(c, limit).nextCursor]
             ELSE J!ReadPage(c, limit).entries]
<1>2. PICK g : g = [c \in 0 .. MaxCursor |-> Between(c, n)]
  OBVIOUS
<1>3. ASSUME NEW c \in Nat, c + limit < n
      PROVE  Between(c, c + limit) \o Between(c + limit, n) = Between(c, n)
  <2>1. PICK k \in Nat : k = c + limit
    OBVIOUS
  <2>2. k \in 0 .. Len(file) /\ n \in 0 .. Len(file) /\ c <= k /\ k < n /\ k - c = limit
    BY <1>1, <1>3, <2>1
  <2>3. PICK s : s = Between(c, k)
    OBVIOUS
  <2>4. PICK t : t = Between(k, n)
    OBVIOUS
  <2>5. PICK u : u = Between(c, n)
    OBVIOUS
  <2>6. s \in Seq(X) /\ Len(s) = k - c /\ \A i \in 1 .. k - c : s[i] = file[c + i]
    BY <2>2, <2>3, BetweenIs
  <2>7. t \in Seq(X) /\ Len(t) = n - k /\ \A i \in 1 .. n - k : t[i] = file[k + i]
    <3>1. /\ t \in Seq(X) /\ Len(t) = (IF k <= n THEN n - k ELSE 0)
          /\ \A i \in 1 .. n - k : t[i] = file[k + i]
      BY <2>2, <2>4, BetweenIs
    <3>2. k <= n
      BY <2>2
    <3> QED
      BY <3>1, <3>2
  <2>8. u \in Seq(X) /\ Len(u) = n - c /\ \A i \in 1 .. n - c : u[i] = file[c + i]
    <3>1. /\ u \in Seq(X) /\ Len(u) = (IF c <= n THEN n - c ELSE 0)
          /\ \A i \in 1 .. n - c : u[i] = file[c + i]
      BY <2>2, <2>5, BetweenIs
    <3>2. c <= n
      BY <1>3
    <3> QED
      BY <3>1, <3>2
  <2>9. PICK w : w = s \o t
    OBVIOUS
  <2>10. w \in Seq(X) /\ Len(w) = n - c
    <3>0. s \in Seq(X) /\ t \in Seq(X)
      BY <2>6, <2>7
    <3>1. w \in Seq(X) /\ Len(w) = Len(s) + Len(t)
      BY <3>0, <2>9
    <3>2. (k - c) + (n - k) = n - c
      OBVIOUS
    <3> QED
      BY <2>6, <2>7, <3>1, <3>2
  <2>11. ASSUME NEW i \in 1 .. n - c PROVE w[i] = u[i]
    <3>1. CASE i <= k - c
      <4>1. i \in 1 .. k - c
        BY <2>2, <3>1
      <4>2. w[i] = s[i]
        BY <2>6, <2>7, <2>9, <4>1
      <4> QED
        BY <2>6, <2>8, <4>1, <4>2
    <3>2. CASE ~(i <= k - c)
      <4>1. PICK j \in 1 .. n - k : j = i - (k - c) /\ k + j = c + i
        BY <2>2, <3>2
      <4>2. w[i] = t[j]
        BY <2>2, <2>6, <2>7, <2>9, <3>2, <4>1, SMTT(30)
      <4>3. t[j] = file[c + i]
        BY <2>7, <4>1
      <4> QED
        BY <2>8, <4>2, <4>3
    <3> QED
      BY <3>1, <3>2
  <2>12. w = u
    BY <2>8, <2>10, <2>11, SameSequence
  <2> QED
    BY <2>1, <2>3, <2>4, <2>5, <2>9, <2>12
<1>4. ASSUME NEW c \in 0 .. MaxCursor
      PROVE  g[c] = IF J!ReadPage(c, limit).hasMore
                    THEN J!ReadPage(c, limit).entries \o g[J!ReadPage(c, limit).nextCursor]
                    ELSE J!ReadPage(c, limit).entries
  <2>1. CASE J!ReadPage(c, limit).hasMore
    <3>1. /\ c \in Nat /\ c + limit < n
          /\ J!ReadPage(c, limit).entries = Between(c, c + limit)
          /\ J!ReadPage(c, limit).nextCursor = c + limit
      BY <1>1, <2>1, PageFacts
    <3>2. c + limit \in 0 .. MaxCursor
      BY <1>1, <3>1
    <3>3. g[c] = Between(c, n) /\ g[c + limit] = Between(c + limit, n)
      BY <1>2, <3>2
    <3> QED
      BY <1>3, <2>1, <3>1, <3>3, Zenon
  <2>2. CASE ~J!ReadPage(c, limit).hasMore
    <3>1. J!ReadPage(c, limit).entries = Between(c, n)
      BY <1>1, <2>2, PageFacts
    <3> QED
      BY <1>2, <2>2, <3>1
  <2> QED
    BY <2>1, <2>2
<1>5. IsRun(g)
  <2>1. PICK h : h = [c \in 0 .. MaxCursor |->
             IF J!ReadPage(c, limit).hasMore
             THEN J!ReadPage(c, limit).entries \o g[J!ReadPage(c, limit).nextCursor]
             ELSE J!ReadPage(c, limit).entries]
    OBVIOUS
  <2>2. \A c \in 0 .. MaxCursor : h[c] = g[c]
    BY <1>4, <2>1, Zenon
  <2>3. h = [c \in 0 .. MaxCursor |-> h[c]] /\ g = [c \in 0 .. MaxCursor |-> g[c]]
    BY <1>2, <2>1
  <2>4. h = g
    BY <2>2, <2>3
  <2> QED
    BY <2>1, <2>4, Zenon
<1>6. PICK f : f = CHOOSE h : IsRun(h)
  OBVIOUS
<1>7. IsRun(f)
  <2> HIDE DEF IsRun
  <2> QED
    BY <1>5, <1>6
<1>8. J!ReadPages(from, limit) = f[from]
  BY <1>6, Zenon DEF J!ReadPages
<1>9. \A c \in 0 .. MaxCursor :
        f[c] = IF J!ReadPage(c, limit).hasMore
               THEN J!ReadPage(c, limit).entries \o f[J!ReadPage(c, limit).nextCursor]
               ELSE J!ReadPage(c, limit).entries
  BY <1>7
<1> DEFINE E == {d \in Nat : \A c \in 0 .. MaxCursor : n <= c + d => f[c] = Between(c, n)}
<1>10. 0 \in E
  <2>1. ASSUME NEW c \in 0 .. MaxCursor, n <= c + 0 PROVE f[c] = Between(c, n)
    <3>1. c \in Nat /\ n <= c
      BY <2>1
    <3>2. ~J!ReadPage(c, limit).hasMore /\ J!ReadPage(c, limit).entries = Between(c, n)
      BY <1>1, <3>1, PageFacts
    <3> QED
      BY <1>9, <3>2, Zenon
  <2> QED
    BY <2>1
<1>11. ASSUME NEW d \in Nat, d \in E PROVE d + 1 \in E
  <2>1. ASSUME NEW c \in 0 .. MaxCursor, n <= c + (d + 1) PROVE f[c] = Between(c, n)
    <3>1. CASE J!ReadPage(c, limit).hasMore
      <4>1. /\ c \in Nat /\ c + limit < n
            /\ J!ReadPage(c, limit).entries = Between(c, c + limit)
            /\ J!ReadPage(c, limit).nextCursor = c + limit
        BY <1>1, <3>1, PageFacts
      <4>2. PICK k \in 0 .. MaxCursor : k = c + limit
        BY <1>1, <4>1
      <4>3. n <= k + d
        BY <2>1, <4>2
      <4>4. f[k] = Between(k, n)
        BY <1>11, <4>3
      <4>5. f[c] = Between(c, c + limit) \o f[k]
        BY <1>9, <3>1, <4>1, <4>2, Zenon
      <4> QED
        BY <1>3, <4>1, <4>2, <4>4, <4>5, Zenon
    <3>2. CASE ~J!ReadPage(c, limit).hasMore
      <4>1. J!ReadPage(c, limit).entries = Between(c, n)
        BY <1>1, <3>2, PageFacts
      <4> QED
        BY <1>9, <3>2, <4>1, Zenon
    <3> QED
      BY <3>1, <3>2
  <2> QED
    BY <2>1
<1>12. Nat \subseteq E
  <2> HIDE DEF E
  <2> QED
    BY <1>10, <1>11, InductionOverNat
<1>13. n <= from + n
  OBVIOUS
<1>14. f[from] = Between(from, n)
  BY <1>12, <1>13
<1> QED
  BY <1>1, <1>8, <1>14

(* What a write leaves: the file or its front, and one line at most.       *)
LEMMA FileWriteFacts ==
  ASSUME JournalShape, NEW entry \in J!Entries, NEW how \in J!Short \cup {"all"}, J!Writes(entry, how)
  PROVE  /\ file' \in Seq(J!Entries \cup {J!Garbage})
         /\ tail' \in {"clean", "unterminated", "torn"}
         /\ tail' = "unterminated" => file' # <<>>
         /\ \A i \in DOMAIN file' : \/ i \in DOMAIN file /\ file'[i] = file[i]
                                    \/ i = Len(file') /\ file'[i] \in {entry, J!Garbage}
         /\ tail = "clean" => file' = file \/ file' = Append(file, entry)
         /\ tail = "clean" /\ how = "all" => file' = Append(file, entry) /\ tail' = "clean"
<1>1. PICK X : X = J!Entries \cup {J!Garbage}
  OBVIOUS
<1>2. file \in Seq(X) /\ entry \in X /\ J!Garbage \in X
  BY <1>1 DEF JournalShape
<1>3. PICK n \in Nat : n = Len(file)
  BY <1>2
<1>4. PICK g : g = J!Terminated
  OBVIOUS
<1>5. g \in Seq(X) /\ (\A i \in DOMAIN g : i \in DOMAIN file /\ g[i] = file[i]) /\ (tail # "unterminated" => g = file)
  <2>1. CASE tail = "unterminated"
    <3>1. g = SubSeq(file, 1, n - 1) /\ n > 0
      BY <1>2, <1>3, <1>4, <2>1 DEF J!Terminated, J!Front, JournalShape
    <3>2. g \in Seq(X) /\ Len(g) = n - 1 /\ \A i \in 1 .. n - 1 : g[i] = file[i]
      BY <1>2, <1>3, <3>1
    <3>3. DOMAIN g = 1 .. n - 1 /\ DOMAIN file = 1 .. n
      BY <1>2, <1>3, <3>2
    <3> QED
      BY <2>1, <3>2, <3>3
  <2>2. CASE tail # "unterminated"
    <3>1. g = file
      BY <1>4, <2>2 DEF J!Terminated
    <3> QED
      BY <1>2, <3>1
  <2> QED
    BY <2>1, <2>2
<1>6. tail \in {"clean", "unterminated", "torn"}
  BY DEF JournalShape
<1>7. ASSUME NEW s \in Seq(X), NEW x \in {entry, J!Garbage}
      PROVE  /\ Append(s, x) \in Seq(X) /\ Append(s, x) # <<>>
             /\ \A i \in DOMAIN Append(s, x) :
                  \/ i \in DOMAIN s /\ Append(s, x)[i] = s[i]
                  \/ i = Len(Append(s, x)) /\ Append(s, x)[i] \in {entry, J!Garbage}
  <2>1. PICK m \in Nat : m = Len(s)
    OBVIOUS
  <2>2. PICK u : u = Append(s, x)
    OBVIOUS
  <2>3. x \in X
    BY <1>2
  <2>4. /\ u \in Seq(X) /\ Len(u) = m + 1 /\ u[m + 1] = x
        /\ \A i \in 1 .. m : u[i] = s[i]
    BY <2>1, <2>2, <2>3
  <2>5. DOMAIN u = 1 .. m + 1 /\ DOMAIN s = 1 .. m
    BY <2>1, <2>4
  <2>6. \A i \in 1 .. m + 1 : i \in 1 .. m \/ i = m + 1
    OBVIOUS
  <2>7. u # <<>>
    BY <2>4
  <2>8. \A i \in DOMAIN u : \/ i \in DOMAIN s /\ u[i] = s[i]
                            \/ i = Len(u) /\ u[i] \in {entry, J!Garbage}
    BY <2>4, <2>5, <2>6
  <2> QED
    BY <2>2, <2>4, <2>7, <2>8
<1>8. CASE how = "nothing"
  <2>1. file' = file /\ tail' = tail
    BY <1>8 DEF J!Writes, J!Written
  <2> QED
    BY <1>1, <1>2, <1>6, <1>8, <2>1 DEF JournalShape
<1>9. CASE how = "torn"
  <2>1. file' = g /\ tail' = "torn"
    BY <1>4, <1>9 DEF J!Writes, J!Written
  <2> QED
    BY <1>1, <1>5, <1>9, <2>1
<1>10. CASE how = "unterminated"
  <2>1. CASE tail = "clean"
    <3>1. file' = Append(file, entry) /\ tail' = "unterminated"
      BY <1>10, <2>1 DEF J!Writes, J!Written
    <3> QED
      BY <1>1, <1>2, <1>7, <1>10, <3>1
  <2>2. CASE tail # "clean"
    <3>1. file' = g /\ tail' = "torn"
      BY <1>4, <1>10, <2>2 DEF J!Writes, J!Written
    <3> QED
      BY <1>1, <1>5, <1>10, <2>2, <3>1
  <2> QED
    BY <2>1, <2>2
<1>11. CASE how = "all"
  <2>1. PICK x \in {entry, J!Garbage} : file' = Append(g, x) /\ (tail = "clean" => x = entry)
    BY <1>4, <1>11 DEF J!Writes, J!Written
  <2>2. tail' = "clean"
    BY <1>11 DEF J!Writes, J!Written
  <2>3. /\ file' \in Seq(X) /\ file' # <<>>
        /\ \A i \in DOMAIN file' : \/ i \in DOMAIN g /\ file'[i] = g[i]
                                   \/ i = Len(file') /\ file'[i] \in {entry, J!Garbage}
    BY <1>5, <1>7, <2>1
  <2>4. \A i \in DOMAIN file' : \/ i \in DOMAIN file /\ file'[i] = file[i]
                                \/ i = Len(file') /\ file'[i] \in {entry, J!Garbage}
    BY <1>5, <2>3
  <2>5. tail = "clean" => file' = Append(file, entry)
    BY <1>5, <2>1
  <2> QED
    BY <1>1, <2>2, <2>3, <2>4, <2>5
<1> QED
  BY <1>8, <1>9, <1>10, <1>11 DEF J!Short

LEMMA LineFacts ==
  ASSUME JournalShape, NEW i \in DOMAIN file
  PROVE  /\ file[i] \in J!Entries \/ file[i] = J!Garbage
         /\ file[i].cursor = i => file[i] \in J!Entries
         /\ \A k \in JournalKeys : file[i].payload[1] = k =>
              \E id \in EventIds : /\ file[i] = [cursor |-> file[i].cursor, payload |-> <<k, id>>]
                                   /\ file[i].cursor \in J!Cursors /\ file[i].payload[2] = id
<1>1. {"decision", "garbage"} \cap JournalKeys = {}
  BY JournalIsBounded DEF J!JournalAssumption
<1>2. file[i] \in J!Entries \/ file[i] = J!Garbage
  BY DEF JournalShape
<1>3. i # 0
  BY DEF JournalShape
<1>4. J!Garbage.cursor = 0 /\ J!Garbage.payload[1] = "garbage"
  BY DEF J!Garbage
<1>5. ASSUME NEW k \in JournalKeys, file[i].payload[1] = k
      PROVE  \E id \in EventIds : /\ file[i] = [cursor |-> file[i].cursor, payload |-> <<k, id>>]
                                  /\ file[i].cursor \in J!Cursors /\ file[i].payload[2] = id
  <2>1. file[i] \in J!Entries
    BY <1>1, <1>2, <1>4, <1>5
  <2>2. PICK x : x = file[i]
    OBVIOUS
  <2>3. PICK c \in J!Cursors, p \in J!Payloads : x = [cursor |-> c, payload |-> p]
    BY <2>1, <2>2 DEF J!Entries
  <2>4. p \in JournalKeys \X EventIds
    BY <1>1, <1>5, <2>2, <2>3 DEF J!Payloads
  <2>5. PICK q \in JournalKeys, id \in EventIds : p = <<q, id>>
    BY <2>4
  <2> QED
    BY <1>5, <2>2, <2>3, <2>5
<1> QED
  BY <1>2, <1>3, <1>4, <1>5

(* The index of a longer file.                                             *)
LEMMA IndexGrows ==
  ASSUME NEW X, NEW s \in Seq(X), NEW e \in X, NEW k \in JournalKeys
  PROVE  J!IndexOf(Append(s, e))[k] =
           J!IndexOf(s)[k] \cup (IF e.payload[1] = k
                                 THEN {[cursor |-> e.cursor, id |-> e.payload[2]]} ELSE {})
<1>1. PICK n \in Nat : n = Len(s)
  OBVIOUS
<1>2. PICK u : u = Append(s, e)
  OBVIOUS
<1>3. Len(u) = n + 1 /\ u[n + 1] = e /\ \A i \in 1 .. n : u[i] = s[i]
  BY <1>1, <1>2
<1>4. J!IndexOf(s)[k] = {[cursor |-> s[i].cursor, id |-> s[i].payload[2]] :
                           i \in {j \in 1 .. n : s[j].payload[1] = k}}
  BY <1>1 DEF J!IndexOf
<1>5. J!IndexOf(u)[k] = {[cursor |-> u[i].cursor, id |-> u[i].payload[2]] :
                           i \in {j \in 1 .. n + 1 : u[j].payload[1] = k}}
  BY <1>3 DEF J!IndexOf
<1>6. PICK A : A = {j \in 1 .. n : s[j].payload[1] = k}
  OBVIOUS
<1>7. PICK B : B = {j \in 1 .. n + 1 : u[j].payload[1] = k}
  OBVIOUS
<1>8. B = A \cup (IF e.payload[1] = k THEN {n + 1} ELSE {})
  <2>1. 1 .. n + 1 = (1 .. n) \cup {n + 1}
    OBVIOUS
  <2> QED
    BY <1>3, <1>6, <1>7, <2>1
<1>9. \A i \in A : u[i] = s[i]
  BY <1>3, <1>6
<1>10. PICK R : R = [x \in X |-> [cursor |-> x.cursor, id |-> x.payload[2]]]
  OBVIOUS
<1>11. J!IndexOf(s)[k] = {R[s[i]] : i \in A}
  <2>1. \A i \in A : [cursor |-> s[i].cursor, id |-> s[i].payload[2]] = R[s[i]]
    BY <1>1, <1>6, <1>10
  <2>2. J!IndexOf(s)[k] = {[cursor |-> s[i].cursor, id |-> s[i].payload[2]] : i \in A}
    BY <1>4, <1>6, Zenon
  <2>4. ASSUME NEW y \in J!IndexOf(s)[k] PROVE y \in {R[s[i]] : i \in A}
    <3>1. PICK i \in A : y = [cursor |-> s[i].cursor, id |-> s[i].payload[2]]
      BY <2>2, Zenon
    <3> QED
      BY <2>1, <3>1, Zenon
  <2>5. ASSUME NEW i \in A PROVE R[s[i]] \in J!IndexOf(s)[k]
    BY <2>1, <2>2, Zenon
  <2> QED
    BY <2>4, <2>5
<1>12. J!IndexOf(u)[k] = {R[u[i]] : i \in B}
  <2>1. \A i \in B : u[i] \in X
    BY <1>1, <1>2, <1>7
  <2>2. \A i \in B : [cursor |-> u[i].cursor, id |-> u[i].payload[2]] = R[u[i]]
    BY <1>10, <2>1
  <2>3. J!IndexOf(u)[k] = {[cursor |-> u[i].cursor, id |-> u[i].payload[2]] : i \in B}
    BY <1>5, <1>7, Zenon
  <2>4. ASSUME NEW y \in J!IndexOf(u)[k] PROVE y \in {R[u[i]] : i \in B}
    <3>1. PICK i \in B : y = [cursor |-> u[i].cursor, id |-> u[i].payload[2]]
      BY <2>3, Zenon
    <3> QED
      BY <2>2, <3>1, Zenon
  <2>5. ASSUME NEW i \in B PROVE R[u[i]] \in J!IndexOf(u)[k]
    BY <2>2, <2>3, Zenon
  <2> QED
    BY <2>4, <2>5
<1>13. R[e] = [cursor |-> e.cursor, id |-> e.payload[2]]
  BY <1>10
<1>14. CASE e.payload[1] = k
  <2>1. B = A \cup {n + 1}
    BY <1>8, <1>14
  <2>2. {R[u[i]] : i \in B} = {R[s[i]] : i \in A} \cup {R[e]}
    BY <1>3, <1>9, <2>1
  <2> QED
    BY <1>2, <1>11, <1>12, <1>13, <1>14, <2>2, Zenon
<1>15. CASE e.payload[1] # k
  <2>1. B = A
    BY <1>8, <1>15
  <2>2. {R[u[i]] : i \in B} = {R[s[i]] : i \in A}
    BY <1>9, <2>1
  <2>3. J!IndexOf(s)[k] \cup {} = J!IndexOf(s)[k]
    OBVIOUS
  <2> QED
    BY <1>2, <1>11, <1>12, <1>15, <2>2, <2>3, Zenon
<1> QED
  BY <1>14, <1>15

(* An entry is appended, by an append that goes on, fails or is cut off.   *)
LEMMA AppendKeepsJournal ==
  ASSUME JournalInv, J!TakesCursor, NEW p \in J!Payloads,
         J!PersistEntry([cursor |-> nextCursorValue, payload |-> p]),
         \/ /\ p[1] \notin JournalKeys /\ eventCursors' = eventCursors
         \/ /\ p[1] \in JournalKeys /\ p[2] \in EventIds /\ eventCursors[p[1]] = {}
            /\ eventCursors' = [eventCursors EXCEPT ![p[1]] =
                                  {[cursor |-> nextCursorValue, id |-> p[2]]}]
  PROVE  JournalInv'
<1>1. PICK n \in 1 .. MaxCursor : n = nextCursorValue
  <2>1. nextCursorValue \in 1 .. MaxCursor + 1 /\ nextCursorValue <= MaxCursor /\ MaxCursor \in Nat
    BY JournalIsBounded DEF JournalInv, JournalShape, J!TakesCursor, J!JournalAssumption
  <2> QED
    BY <2>1
<1>2. PICK entry : entry = [cursor |-> nextCursorValue, payload |-> p]
  OBVIOUS
<1>3. entry \in J!Entries /\ entry.cursor = n /\ entry.payload = p
  BY <1>1, <1>2 DEF J!Entries, J!Cursors
<1>4. PICK how \in J!Short \cup {"all"} :
        /\ J!Writes(entry, how)
        /\ \/ /\ how = "all" /\ acknowledged' = acknowledged \cup {entry}
              /\ process' = process /\ failures' = failures
           \/ failures' = failures + 1 /\ process' = process /\ acknowledged' = acknowledged
           \/ process' = "down" /\ acknowledged' = acknowledged /\ failures' = failures
  BY <1>2 DEF J!PersistEntry, J!Fails, J!Dies
<1>5. /\ process = "up" /\ nextCursorValue' = n + 1
      /\ UNCHANGED <<checkpointFile, lastCheckpoint>>
  BY <1>1 DEF J!TakesCursor
<1>6. JournalShape /\ failures \in Nat
  BY DEF JournalInv, JournalShape
<1>7. /\ file' \in Seq(J!Entries \cup {J!Garbage})
      /\ tail' \in {"clean", "unterminated", "torn"}
      /\ tail' = "unterminated" => file' # <<>>
      /\ \A i \in DOMAIN file' : \/ i \in DOMAIN file /\ file'[i] = file[i]
                                 \/ i = Len(file') /\ file'[i] \in {entry, J!Garbage}
      /\ tail = "clean" => file' = file \/ file' = Append(file, entry)
      /\ tail = "clean" /\ how = "all" => file' = Append(file, entry) /\ tail' = "clean"
  BY <1>3, <1>4, <1>6, FileWriteFacts
<1>8. /\ eventCursors' = [k \in JournalKeys |-> eventCursors'[k]]
      /\ \A k \in JournalKeys : /\ eventCursors'[k] \subseteq [cursor : J!Cursors, id : EventIds]
                                /\ eventCursors[k] # {} => eventCursors'[k] = eventCursors[k]
                                /\ k = p[1] => eventCursors'[k] # {} /\ eventCursors[k] = {}
  <2>1. /\ eventCursors = [k \in JournalKeys |-> eventCursors[k]]
        /\ \A k \in JournalKeys : eventCursors[k] \subseteq [cursor : J!Cursors, id : EventIds]
    BY <1>6 DEF JournalShape
  <2>2. CASE p[1] \notin JournalKeys
    <3>1. eventCursors' = eventCursors
      BY <2>2
    <3> QED
      BY <2>1, <2>2, <3>1
  <2>3. CASE p[1] \in JournalKeys
    <3>1. PICK x : x = [cursor |-> nextCursorValue, id |-> p[2]]
      OBVIOUS
    <3>2. /\ p[2] \in EventIds /\ eventCursors[p[1]] = {}
          /\ eventCursors' = [eventCursors EXCEPT ![p[1]] = {x}]
      BY <2>3, <3>1
    <3>3. x \in [cursor : J!Cursors, id : EventIds]
      BY <1>1, <3>1, <3>2 DEF J!Cursors
    <3>4. PICK q \in JournalKeys : q = p[1]
      BY <2>3
    <3>5. PICK S : S = [cursor : J!Cursors, id : EventIds]
      OBVIOUS
    <3> QED
      BY <2>1, <3>2, <3>3, <3>4, <3>5
  <2> QED
    BY <2>2, <2>3
<1>9. JournalShape'
  <2>1. nextCursorValue' \in 1 .. MaxCursor + 1
    BY <1>1, <1>5, JournalIsBounded DEF J!JournalAssumption
  <2>2. failures' \in Nat
    BY <1>4, <1>6
  <2> QED
    BY <1>5, <1>6, <1>7, <1>8, <2>1, <2>2 DEF JournalShape
<1>10. J!Garbage.payload[1] \notin JournalKeys
  BY JournalIsBounded DEF J!Garbage, J!JournalAssumption
<1>11. \A i \in DOMAIN file' : file'[i].payload[1] \in JournalKeys =>
         \/ i \in DOMAIN file /\ file'[i] = file[i]
         \/ i = Len(file') /\ file'[i].payload[1] = p[1]
  BY <1>3, <1>7, <1>10
<1>12. \A i \in DOMAIN file : file[i].payload[1] \in JournalKeys => eventCursors[file[i].payload[1]] # {}
  BY <1>5 DEF JournalInv, Indexed
<1>13. Indexed'
  BY <1>8, <1>11, <1>12 DEF Indexed
<1>14. J!OneEntryPerEvent'
  <2>1. \A i, j \in DOMAIN file : file[i].payload[1] \in JournalKeys
                                    /\ file[i].payload[1] = file[j].payload[1] => i = j
    BY <1>6 DEF JournalInv, JournalShape, J!OneEntryPerEvent
  <2>2. ASSUME NEW i \in DOMAIN file', NEW j \in DOMAIN file', file'[i].payload[1] \in JournalKeys,
               file'[i].payload[1] = file'[j].payload[1]
        PROVE  i = j
    <3>1. PICK k \in JournalKeys : k = file'[i].payload[1] /\ k = file'[j].payload[1]
      BY <2>2
    <3>2. \/ i \in DOMAIN file /\ file[i].payload[1] = k
          \/ i = Len(file') /\ k = p[1]
      BY <1>11, <3>1
    <3>3. \/ j \in DOMAIN file /\ file[j].payload[1] = k
          \/ j = Len(file') /\ k = p[1]
      BY <1>11, <3>1
    <3>4. ASSUME NEW x \in DOMAIN file, file[x].payload[1] = k PROVE k # p[1]
      BY <1>8, <1>12, <3>4
    <3> QED
      BY <2>1, <3>2, <3>3, <3>4
  <2>3. DOMAIN file' = 1 .. Len(file')
    BY <1>7
  <2> QED
    BY <2>2, <2>3 DEF J!OneEntryPerEvent
<1>15. ASSUME failures' = 0 PROVE Unfailed'
  <2>1. failures = 0 /\ failures' # failures + 1
    BY <1>4, <1>6, <1>15
  <2>2. Unfailed /\ tail = "clean" /\ n = Len(file) + 1 /\ eventCursors = J!IndexOf(file)
        /\ \A c \in lastCheckpoint : c <= Len(file)
    BY <1>1, <1>5, <2>1 DEF JournalInv, Unfailed
  <2>3. PICK m \in Nat : m = Len(file) /\ DOMAIN file = 1 .. m /\ n = m + 1
    BY <1>6, <2>2 DEF JournalShape
  <2>4. PICK u : u = Append(file, entry)
    OBVIOUS
  <2>5. /\ DOMAIN u = 1 .. m + 1 /\ Len(u) = m + 1 /\ u[m + 1] = entry
        /\ \A i \in 1 .. m : u[i] = file[i]
    <3>1. file \in Seq(J!Entries \cup {J!Garbage}) /\ entry \in J!Entries \cup {J!Garbage}
      BY <1>3, <1>6 DEF JournalShape
    <3> QED
      BY <2>3, <2>4, <3>1
  <2>6. file' = file \/ file' = u
    BY <1>7, <2>2, <2>4
  <2>7. \A i \in DOMAIN file' : file'[i].cursor = i
    <3>1. \A i \in 1 .. m : file[i].cursor = i
      BY <2>2, <2>3 DEF Unfailed
    <3>2. \A i \in 1 .. m + 1 : i \in 1 .. m \/ i = m + 1
      OBVIOUS
    <3> QED
      BY <1>3, <2>3, <2>5, <2>6, <3>1, <3>2
  <2>8. \A a \in acknowledged' : \E i \in DOMAIN file' : file'[i] = a
    <3>1. \A a \in acknowledged : \E i \in 1 .. m : file[i] = a
      BY <2>2, <2>3 DEF Unfailed
    <3>2. \A i \in 1 .. m : i \in DOMAIN file' /\ file'[i] = file[i]
      BY <2>3, <2>5, <2>6
    <3>3. ASSUME how = "all" PROVE m + 1 \in DOMAIN file' /\ file'[m + 1] = entry
      BY <1>7, <2>2, <2>4, <2>5, <3>3
    <3>4. ASSUME NEW a \in acknowledged' PROVE a \in acknowledged \/ (a = entry /\ how = "all")
      BY <1>4, <2>1, <3>4
    <3> QED
      BY <3>1, <3>2, <3>3, <3>4
  <2>9. \A c \in checkpointFile' : c <= Len(file')
    <3>1. \A c \in checkpointFile : c \in Nat /\ c <= m
      BY <1>6, <2>2, <2>3 DEF JournalShape, Unfailed
    <3>2. Len(file') \in {m, m + 1}
      BY <2>3, <2>5, <2>6
    <3> QED
      BY <1>5, <3>1, <3>2
  <2>10. process' # "refused"
    BY <1>4, <1>5
  <2>11. ASSUME process' = "up"
         PROVE  /\ tail' = "clean" /\ nextCursorValue' = Len(file') + 1
                /\ eventCursors' = J!IndexOf(file')
                /\ \A c \in lastCheckpoint' : c <= Len(file')
    <3>1. how = "all"
      BY <1>4, <2>1, <2>11
    <3>2. file' = u /\ tail' = "clean"
      BY <1>7, <2>2, <2>4, <3>1
    <3>3. ASSUME NEW k \in JournalKeys PROVE eventCursors'[k] = J!IndexOf(file')[k]
      <4>1. J!IndexOf(u)[k] = J!IndexOf(file)[k] \cup
              (IF p[1] = k THEN {[cursor |-> n, id |-> p[2]]} ELSE {})
        <5>1. file \in Seq(J!Entries \cup {J!Garbage}) /\ entry \in J!Entries \cup {J!Garbage}
          BY <1>3, <1>6 DEF JournalShape
        <5> QED
          BY <1>3, <2>4, <5>1, IndexGrows
      <4>2. CASE p[1] = k
        <5>1. eventCursors'[k] = {[cursor |-> n, id |-> p[2]]} /\ eventCursors[k] = {}
          BY <1>1, <1>6, <4>2 DEF JournalShape
        <5> QED
          BY <2>2, <3>2, <4>1, <4>2, <5>1
      <4>3. CASE p[1] # k
        <5>1. eventCursors'[k] = eventCursors[k]
          BY <1>6, <4>3 DEF JournalShape
        <5> QED
          BY <2>2, <3>2, <4>1, <4>3, <5>1
      <4> QED
        BY <4>2, <4>3
    <3>4. J!IndexOf(file') = [k \in JournalKeys |-> J!IndexOf(file')[k]]
      BY DEF J!IndexOf
    <3>5. eventCursors' = J!IndexOf(file')
      BY <1>8, <3>3, <3>4
    <3>6. \A c \in lastCheckpoint : c \in Nat /\ c <= m
      BY <1>6, <2>2, <2>3 DEF JournalShape
    <3> QED
      BY <1>5, <2>3, <2>5, <3>2, <3>5, <3>6
  <2> QED
    BY <2>7, <2>8, <2>9, <2>10, <2>11 DEF Unfailed
<1> QED
  BY <1>9, <1>13, <1>14, <1>15 DEF JournalInv

(* A known event is answered from the index, which has what the file has.  *)
LEMMA AgainKeepsJournal ==
  ASSUME JournalInv, NEW k \in JournalKeys, NEW id \in EventIds, J!AppendEventAgain(k, id)
  PROVE  JournalInv'
<1>1. PICK x \in eventCursors[k] :
        x.id = id /\ acknowledged' = acknowledged \cup {[cursor |-> x.cursor, payload |-> <<k, id>>]}
  BY DEF J!AppendEventAgain
<1>2. /\ process = "up"
      /\ UNCHANGED <<process, nextCursorValue, eventCursors, lastCheckpoint, file, tail,
                     checkpointFile, failures>>
  BY DEF J!AppendEventAgain, J!memory, J!disk
<1>3. JournalShape
  BY DEF JournalInv
<1>4. JournalShape' /\ Indexed' /\ J!OneEntryPerEvent'
  BY <1>2 DEF JournalInv, JournalShape, Indexed, J!OneEntryPerEvent
<1>5. ASSUME failures' = 0 PROVE Unfailed'
  <2>1. Unfailed /\ eventCursors = J!IndexOf(file)
    BY <1>2, <1>5 DEF JournalInv, Unfailed
  <2>2. PICK i \in DOMAIN file :
          /\ x = [cursor |-> file[i].cursor, id |-> file[i].payload[2]]
          /\ file[i].payload[1] = k
    <3>1. J!IndexOf(file)[k] = {[cursor |-> file[i].cursor, id |-> file[i].payload[2]] :
                                  i \in {j \in 1 .. Len(file) : file[j].payload[1] = k}}
      BY DEF J!IndexOf
    <3>2. DOMAIN file = 1 .. Len(file)
      BY <1>3 DEF JournalShape
    <3> QED
      BY <1>1, <2>1, <3>1, <3>2
  <2>3. file[i] = [cursor |-> x.cursor, payload |-> <<k, id>>]
    <3>1. PICK e \in EventIds : /\ file[i] = [cursor |-> file[i].cursor, payload |-> <<k, e>>]
                                /\ file[i].payload[2] = e
      BY <1>3, <2>2, LineFacts
    <3>2. x.cursor = file[i].cursor /\ x.id = e
      BY <2>2, <3>1
    <3> QED
      BY <1>1, <3>1, <3>2
  <2>4. \A a \in acknowledged' : \E j \in DOMAIN file' : file'[j] = a
    BY <1>1, <1>2, <2>1, <2>3 DEF Unfailed
  <2> QED
    BY <1>2, <2>1, <2>4 DEF Unfailed
<1> QED
  BY <1>4, <1>5 DEF JournalInv

LEMMA CheckpointKeepsJournal ==
  ASSUME JournalInv, NEW c \in 0 .. MaxCursor, J!Checkpoint(c)
  PROVE  JournalInv'
<1>1. /\ process = "up" /\ c < nextCursorValue /\ lastCheckpoint' = {c}
      /\ checkpointFile' \subseteq checkpointFile \cup {c}
      /\ \/ process' = process /\ failures' = failures
         \/ process' = process /\ failures' = failures + 1
         \/ process' = "down" /\ failures' = failures
      /\ UNCHANGED <<nextCursorValue, eventCursors, file, tail, acknowledged>>
  <2>1. checkpointFile' \in {checkpointFile, {}, {c}}
    BY DEF J!Checkpoint
  <2> QED
    BY <2>1 DEF J!Checkpoint, J!Fails, J!Dies
<1>2. JournalShape /\ failures \in Nat /\ c \in Nat
  BY JournalIsBounded DEF JournalInv, JournalShape, J!JournalAssumption
<1>3. JournalShape'
  <2>1. failures' \in Nat
    BY <1>1, <1>2
  <2>2. lastCheckpoint' \subseteq Nat /\ checkpointFile' \subseteq Nat
    BY <1>1, <1>2 DEF JournalShape
  <2> QED
    BY <1>1, <1>2, <2>1, <2>2 DEF JournalShape
<1>4. Indexed' /\ J!OneEntryPerEvent'
  BY <1>1 DEF JournalInv, Indexed, J!OneEntryPerEvent
<1>5. ASSUME failures' = 0 PROVE Unfailed'
  <2>1. failures = 0 /\ process' \in {process, "down"}
    BY <1>1, <1>2, <1>5
  <2>2. Unfailed /\ nextCursorValue = Len(file) + 1
    BY <1>1, <2>1 DEF JournalInv, Unfailed
  <2>3. c <= Len(file)
    <3>1. Len(file) \in Nat
      BY <1>2 DEF JournalShape
    <3> QED
      BY <1>1, <1>2, <2>2, <3>1
  <2> QED
    BY <1>1, <2>1, <2>2, <2>3 DEF Unfailed
<1> QED
  BY <1>3, <1>4, <1>5 DEF JournalInv

LEMMA CrashKeepsJournal ==
  ASSUME JournalInv, J!Crash
  PROVE  JournalInv'
<1>1. /\ process' = "down"
      /\ UNCHANGED <<nextCursorValue, eventCursors, lastCheckpoint, file, tail,
                     checkpointFile, acknowledged, failures>>
  BY DEF J!Crash, J!memory, J!disk
<1>2. JournalShape' /\ Indexed' /\ J!OneEntryPerEvent'
  BY <1>1 DEF JournalInv, JournalShape, Indexed, J!OneEntryPerEvent
<1>3. failures' = 0 => Unfailed'
  BY <1>1 DEF JournalInv, Unfailed
<1> QED
  BY <1>2, <1>3 DEF JournalInv

(* What a load keeps of the file: all of it, but for a bad last line.      *)
LEMMA KeptFacts ==
  ASSUME JournalShape
  PROVE  /\ J!Kept \in Seq(J!Entries \cup {J!Garbage})
         /\ \A i \in DOMAIN J!Kept : i \in DOMAIN file /\ J!Kept[i] = file[i]
         /\ (\A i \in DOMAIN file : file[i].cursor = i) => J!Kept = file
<1>1. PICK X : X = J!Entries \cup {J!Garbage}
  OBVIOUS
<1>2. file \in Seq(X) /\ (tail = "unterminated" => file # <<>>)
  BY <1>1 DEF JournalShape
<1>3. PICK n \in Nat : n = Len(file) /\ DOMAIN file = 1 .. n
  BY <1>2
<1>4. CASE tail = "unterminated" /\ ~J!GoodLine(Len(file))
  <2>1. J!Kept = SubSeq(file, 1, n - 1)
    BY <1>3, <1>4 DEF J!Kept, J!Front
  <2>2. n # 0 /\ n - 1 \in Nat /\ n \in DOMAIN file
    BY <1>2, <1>3, <1>4
  <2>3. PICK m \in Nat : m = n - 1 /\ m <= n
    BY <2>2
  <2>4. PICK s : s = SubSeq(file, 1, m)
    OBVIOUS
  <2>5. s \in Seq(X) /\ Len(s) = m /\ \A i \in 1 .. m : s[i] = file[i]
    BY <1>2, <1>3, <2>3, <2>4
  <2>6. file[n].cursor # n
    BY <1>3, <1>4 DEF J!GoodLine
  <2>7. \A i \in 1 .. m : i \in 1 .. n
    BY <2>3
  <2>8. DOMAIN s = 1 .. m
    BY <2>5
  <2> QED
    BY <1>1, <1>3, <2>1, <2>2, <2>3, <2>4, <2>5, <2>6, <2>7, <2>8
<1>5. CASE ~(tail = "unterminated" /\ ~J!GoodLine(Len(file)))
  <2>1. J!Kept = file
    BY <1>5 DEF J!Kept
  <2> QED
    BY <1>1, <1>2, <2>1
<1> QED
  BY <1>4, <1>5

LEMMA LoadKeepsJournal ==
  ASSUME JournalInv, J!Load
  PROVE  JournalInv'
<1>1. PICK kept : kept = J!Kept
  OBVIOUS
<1>2. JournalShape
  BY DEF JournalInv
<1>3. /\ kept \in Seq(J!Entries \cup {J!Garbage})
      /\ \A i \in DOMAIN kept : i \in DOMAIN file /\ kept[i] = file[i]
      /\ (\A i \in DOMAIN file : file[i].cursor = i) => kept = file
  BY <1>1, <1>2, KeptFacts
<1>4. PICK m \in Nat : m = Len(kept) /\ DOMAIN kept = 1 .. m
  BY <1>3
<1>5. UNCHANGED <<checkpointFile, acknowledged, failures>>
  BY DEF J!Load
<1>6. \A i, j \in DOMAIN file :
        file[i].payload[1] \in JournalKeys /\ file[i].payload[1] = file[j].payload[1] => i = j
  <2>1. DOMAIN file = 1 .. Len(file)
    BY <1>2 DEF JournalShape
  <2> QED
    BY <2>1 DEF JournalInv, J!OneEntryPerEvent
<1>7. CASE (\A i \in 1 .. m : file[i].cursor = i) /\ (\A c \in checkpointFile : c <= m)
  <2>1. /\ process' = "up" /\ file' = kept /\ nextCursorValue' = m + 1
        /\ eventCursors' = J!IndexOf(kept) /\ lastCheckpoint' = checkpointFile /\ tail' = "clean"
    BY <1>1, <1>4, <1>7 DEF J!Load, J!GoodLine, J!LoadedTail
  <2>2. m + 1 \in 1 .. MaxCursor + 1
    <3>1. MaxCursor \in Nat
      BY JournalIsBounded DEF J!JournalAssumption
    <3>2. CASE m = 0
      BY <3>1, <3>2
    <3>3. CASE m # 0
      <4>1. m \in 1 .. m /\ m \in DOMAIN file
        BY <1>3, <1>4, <3>3
      <4>2. file[m].cursor = m
        BY <1>7, <4>1
      <4>3. file[m] \in J!Entries
        BY <1>2, <4>1, <4>2, LineFacts
      <4>4. file[m].cursor \in 1 .. MaxCursor
        BY <4>3 DEF J!Entries, J!Cursors
      <4> QED
        BY <3>1, <4>2, <4>4
    <3> QED
      BY <3>2, <3>3
  <2>3. ASSUME NEW k \in JournalKeys
        PROVE  J!IndexOf(kept)[k] = {[cursor |-> kept[i].cursor, id |-> kept[i].payload[2]] :
                                       i \in {j \in 1 .. m : kept[j].payload[1] = k}}
    BY <1>4 DEF J!IndexOf
  <2>4. ASSUME NEW k \in JournalKeys PROVE J!IndexOf(kept)[k] \subseteq [cursor : J!Cursors, id : EventIds]
    <3>1. ASSUME NEW i \in 1 .. m, kept[i].payload[1] = k
          PROVE  kept[i].cursor \in J!Cursors /\ kept[i].payload[2] \in EventIds
      <4>1. i \in DOMAIN file /\ kept[i] = file[i]
        BY <1>3, <1>4
      <4> QED
        BY <1>2, <3>1, <4>1, LineFacts
    <3>2. ASSUME NEW y \in J!IndexOf(kept)[k] PROVE y \in [cursor : J!Cursors, id : EventIds]
      <4>1. PICK i \in 1 .. m : /\ kept[i].payload[1] = k
                                /\ y = [cursor |-> kept[i].cursor, id |-> kept[i].payload[2]]
        BY <2>3, <3>2
      <4> QED
        BY <3>1, <4>1
    <3> QED
      BY <3>2
  <2>5. J!IndexOf(kept) = [k \in JournalKeys |-> J!IndexOf(kept)[k]]
    BY DEF J!IndexOf
  <2>6. JournalShape'
    <3>1. kept \in Seq(J!Entries \cup {J!Garbage}) /\ nextCursorValue' \in 1 .. MaxCursor + 1
      BY <1>3, <2>1, <2>2
    <3>2. eventCursors' = [k \in JournalKeys |-> eventCursors'[k]]
      BY <2>1, <2>5
    <3>3. \A k \in JournalKeys : eventCursors'[k] \subseteq [cursor : J!Cursors, id : EventIds]
      BY <2>1, <2>4
    <3> QED
      BY <1>2, <1>5, <2>1, <3>1, <3>2, <3>3 DEF JournalShape
  <2>7. Indexed'
    <3>1. ASSUME NEW i \in 1 .. m, kept[i].payload[1] \in JournalKeys
          PROVE  J!IndexOf(kept)[kept[i].payload[1]] # {}
      <4>1. [cursor |-> kept[i].cursor, id |-> kept[i].payload[2]] \in J!IndexOf(kept)[kept[i].payload[1]]
        BY <2>3, <3>1
      <4> QED
        BY <4>1
    <3> QED
      BY <1>4, <2>1, <3>1 DEF Indexed
  <2>8. J!OneEntryPerEvent'
    <3>1. ASSUME NEW i \in 1 .. m, NEW j \in 1 .. m,
                 kept[i].payload[1] \in JournalKeys, kept[i].payload[1] = kept[j].payload[1]
          PROVE  i = j
      BY <1>3, <1>4, <1>6, <3>1
    <3> QED
      BY <1>4, <2>1, <3>1 DEF J!OneEntryPerEvent
  <2>9. ASSUME failures' = 0 PROVE Unfailed'
    <3>1. Unfailed
      BY <1>5, <2>9 DEF JournalInv
    <3>2. kept = file
      BY <1>3, <3>1 DEF Unfailed
    <3> QED
      BY <1>4, <1>5, <2>1, <3>1, <3>2 DEF Unfailed
  <2> QED
    BY <2>6, <2>7, <2>8, <2>9 DEF JournalInv
<1>8. CASE ~((\A i \in 1 .. m : file[i].cursor = i) /\ (\A c \in checkpointFile : c <= m))
  <2>1. /\ process' = "refused"
        /\ UNCHANGED <<nextCursorValue, eventCursors, lastCheckpoint, file, tail>>
    BY <1>1, <1>4, <1>8 DEF J!Load, J!GoodLine, J!memory
  <2>2. failures # 0
    <3> SUFFICES ASSUME failures = 0 PROVE FALSE
      OBVIOUS
    <3>1. Unfailed
      BY DEF JournalInv
    <3>2. kept = file
      BY <1>3, <3>1 DEF Unfailed
    <3> QED
      BY <1>4, <1>8, <3>1, <3>2 DEF Unfailed
  <2>3. JournalShape' /\ Indexed' /\ J!OneEntryPerEvent'
    BY <1>5, <2>1 DEF JournalInv, JournalShape, Indexed, J!OneEntryPerEvent
  <2> QED
    BY <1>5, <2>2, <2>3 DEF JournalInv
<1> QED
  BY <1>7, <1>8

LEMMA JournalStarts ==
  ASSUME J!Init
  PROVE  JournalInv
<1>1. /\ process = "up" /\ nextCursorValue = 1 /\ eventCursors = [k \in JournalKeys |-> {}]
      /\ lastCheckpoint = {} /\ file = <<>> /\ tail = "clean" /\ checkpointFile = {}
      /\ acknowledged = {} /\ failures = 0
  BY DEF J!Init, J!NoEvents
<1>2. Len(file) = 0 /\ DOMAIN file = {} /\ 1 .. Len(file) = {}
  BY <1>1
<1>3. MaxCursor \in Nat
  BY JournalIsBounded DEF J!JournalAssumption
<1>4. JournalShape
  <2>1. 1 \in 1 .. MaxCursor + 1
    BY <1>3
  <2>2. file \in Seq(J!Entries \cup {J!Garbage})
    BY <1>1
  <2> QED
    BY <1>1, <2>1, <2>2 DEF JournalShape
<1>5. Indexed /\ J!OneEntryPerEvent
  BY <1>2 DEF Indexed, J!OneEntryPerEvent
<1>6. J!IndexOf(file) = eventCursors
  <2>1. ASSUME NEW k \in JournalKeys PROVE J!IndexOf(file)[k] = {}
    BY <1>2 DEF J!IndexOf
  <2>2. J!IndexOf(file) = [k \in JournalKeys |-> J!IndexOf(file)[k]]
    BY DEF J!IndexOf
  <2> QED
    BY <1>1, <2>1, <2>2
<1>7. Unfailed
  BY <1>1, <1>2, <1>6 DEF Unfailed
<1> QED
  BY <1>4, <1>5, <1>7 DEF JournalInv

LEMMA JournalStep ==
  ASSUME JournalInv, J!Next
  PROVE  JournalInv'
<1>1. CASE \E k \in JournalKeys, id \in EventIds : J!AppendEvent(k, id)
  <2>1. PICK k \in JournalKeys, id \in EventIds : J!AppendEvent(k, id)
    BY <1>1
  <2>2. PICK p : p = <<k, id>>
    OBVIOUS
  <2>3. p \in J!Payloads /\ p[1] = k /\ p[2] = id
    BY <2>2 DEF J!Payloads
  <2>4. /\ J!TakesCursor /\ eventCursors[p[1]] = {}
        /\ eventCursors' = [eventCursors EXCEPT ![p[1]] =
                              {[cursor |-> nextCursorValue, id |-> p[2]]}]
        /\ J!PersistEntry([cursor |-> nextCursorValue, payload |-> p])
    BY <2>1, <2>2, <2>3 DEF J!AppendEvent
  <2> QED
    BY <2>3, <2>4, AppendKeepsJournal
<1>2. CASE \E k \in JournalKeys, id \in EventIds : J!AppendEventAgain(k, id)
  BY <1>2, AgainKeepsJournal
<1>3. CASE J!AppendDecision
  <2>1. PICK p : p = <<"decision", "decision">>
    OBVIOUS
  <2>2. p \in J!Payloads /\ p[1] \notin JournalKeys
    BY <2>1, JournalIsBounded DEF J!Payloads, J!JournalAssumption
  <2>3. /\ J!TakesCursor /\ eventCursors' = eventCursors
        /\ J!PersistEntry([cursor |-> nextCursorValue, payload |-> p])
    BY <1>3, <2>1 DEF J!AppendDecision
  <2> QED
    BY <2>2, <2>3, AppendKeepsJournal
<1>4. CASE \E c \in 0 .. MaxCursor : J!Checkpoint(c)
  BY <1>4, CheckpointKeepsJournal
<1>5. CASE J!Crash
  BY <1>5, CrashKeepsJournal
<1>6. CASE J!Load
  BY <1>6, LoadKeepsJournal
<1> QED
  BY <1>1, <1>2, <1>3, <1>4, <1>5, <1>6 DEF J!Next

LEMMA JournalStays ==
  ASSUME JournalInv, UNCHANGED journalVars
  PROVE  JournalInv'
BY DEF journalVars, JournalInv, JournalShape, Indexed, Unfailed, J!OneEntryPerEvent, J!IndexOf

(* A journal on disk: through appends that are cut off by a crash or fail, *)
(* checkpoints, restarts and loads, an event has one line at most, and as  *)
(* long as no write failed under a process that went on, the lines count   *)
(* from one, hold all that was answered for and cover the checkpoint, and  *)
(* a running process has the index load would build from the file          *)
(* (persistEntry, persistCheckpoint and load of FileJournal).              *)
THEOREM JournalInductive == MCSpec => []JournalInv
<1>1. MCInit => JournalInv
  BY JournalStarts DEF MCInit
<1>2. JournalInv /\ [MCNext]_<<vars, tableVars, journalVars, part>> => JournalInv'
  <2> SUFFICES ASSUME JournalInv, [MCNext]_<<vars, tableVars, journalVars, part>>
               PROVE  JournalInv'
    OBVIOUS
  <2>1. J!Next \/ UNCHANGED journalVars
    BY DEF MCNext
  <2> QED
    BY <2>1, JournalStep, JournalStays
<1> QED
  BY <1>1, <1>2, PTL DEF MCSpec

LEMMA RecoveryIs ==
  ASSUME JournalInv, process = "up", failures = 0,
         NEW c \in lastCheckpoint, NEW limit \in 1 .. MaxCursor
  PROVE  J!Recovery(c, J!ReadPages(c, limit)) =
           [status |-> "READY", finalCursor |-> nextCursorValue - 1]
<1>1. JournalShape /\ Unfailed
  BY DEF JournalInv
<1>2. PICK X : X = J!Entries \cup {J!Garbage}
  OBVIOUS
<1>3. file \in Seq(X) /\ lastCheckpoint \subseteq Nat /\ nextCursorValue \in 1 .. MaxCursor + 1
  BY <1>1, <1>2 DEF JournalShape
<1>4. PICK n \in Nat : n = Len(file) /\ DOMAIN file = 1 .. n
  BY <1>3
<1>5. /\ \A i \in DOMAIN file : file[i].cursor = i
      /\ nextCursorValue = n + 1 /\ c <= n
  BY <1>1, <1>4 DEF Unfailed
<1>6. MaxCursor \in Nat /\ n <= MaxCursor /\ c \in Nat
  <2>1. MaxCursor \in Nat
    BY JournalIsBounded DEF J!JournalAssumption
  <2> QED
    BY <1>3, <1>5, <2>1
<1>7. PICK s : s = Between(c, n)
  OBVIOUS
<1>8. J!ReadPages(c, limit) = s
  <2>1. c \in 0 .. MaxCursor /\ limit \in Nat \ {0} /\ Len(file) <= MaxCursor
    BY <1>4, <1>5, <1>6
  <2> QED
    BY <1>3, <1>4, <1>5, <1>6, <1>7, <2>1, ReadPagesAre
<1>9. /\ Len(s) = n - c
      /\ \A i \in 1 .. n - c : s[i] = file[c + i]
  <2>1. n \in 0 .. Len(file)
    BY <1>4
  <2>2. /\ Len(s) = (IF c <= n THEN n - c ELSE 0)
        /\ \A i \in 1 .. n - c : s[i] = file[c + i]
    BY <1>3, <1>6, <1>7, <2>1, BetweenIs
  <2> QED
    BY <1>5, <2>2
<1>10. ASSUME NEW i \in 1 .. Len(s) PROVE s[i].cursor = c + i
  <2>1. c + i \in 1 .. n /\ i \in 1 .. n - c
    BY <1>5, <1>6, <1>9
  <2> QED
    BY <1>4, <1>5, <1>9, <2>1
<1>11. {i \in 1 .. Len(s) : s[i].cursor # c + i} = {}
  BY <1>10
<1>12. J!Recovery(c, s) = [status |-> "READY", finalCursor |-> c + Len(s)]
  BY <1>11 DEF J!Recovery
<1>13. c + Len(s) = nextCursorValue - 1
  BY <1>5, <1>6, <1>9
<1> QED
  BY <1>8, <1>12, <1>13

(* The journal keeps what it answered for: as long as no write failed      *)
(* under a process that went on, a restart never refuses its file, every   *)
(* acknowledged append is readable and nothing in the file stops a reader, *)
(* and the checkpoint in memory with the pages behind it, of any size,     *)
(* verifies as a recovery up to the last entry; with or without failures   *)
(* an event has one line (appendEvent, readPage and load of FileJournal,   *)
(* verifyRuntimeCheckpointRecovery).                                       *)
THEOREM JournalKeepsEntriesHolds == MCSpec => []JournalKeepsEntries
<1>1. JournalInv => JournalKeepsEntries
  <2> SUFFICES ASSUME JournalInv PROVE JournalKeepsEntries
    OBVIOUS
  <2>1. J!JournalLoads
    BY DEF JournalInv, Unfailed, J!JournalLoads
  <2>2. J!OneEntryPerEvent
    BY DEF JournalInv
  <2>3. J!AcknowledgedSurvives
    <3> SUFFICES ASSUME process = "up", failures = 0
                 PROVE  /\ \A a \in acknowledged : \E i \in 1 .. Len(file) : file[i] = a
                        /\ \A i \in 1 .. Len(file) : file[i] # J!Garbage
      BY DEF J!AcknowledgedSurvives
    <3>1. Unfailed /\ DOMAIN file = 1 .. Len(file)
      BY DEF JournalInv, JournalShape
    <3>2. \A i \in 1 .. Len(file) : file[i].cursor = i /\ i # 0
      BY <3>1 DEF Unfailed
    <3>3. J!Garbage.cursor = 0
      BY DEF J!Garbage
    <3>4. \A i \in 1 .. Len(file) : file[i] # J!Garbage
      BY <3>2, <3>3
    <3> QED
      BY <3>1, <3>4 DEF Unfailed
  <2>4. J!CheckpointRecovers
    BY RecoveryIs DEF J!CheckpointRecovers
  <2> QED
    BY <2>1, <2>2, <2>3, <2>4 DEF JournalKeepsEntries
<1> QED
  BY <1>1, JournalInductive, PTL
=============================================================================
