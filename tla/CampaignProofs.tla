--------------------------- MODULE CampaignProofs ---------------------------
(***************************************************************************)
(* Proofs about plan() and schedule() (module Planner) and about the       *)
(* campaign that executes what they made (module Campaign): for all        *)
(* intelligence, all documents, every number of workers, and any number of *)
(* failing writes of the store.                                            *)
(***************************************************************************)
EXTENDS Campaign, FiniteSetTheorems, WellFoundedInduction, TLAPS

(***************************************************************************)
(* plan()                                                                  *)
(***************************************************************************)
\* Every set of numbers that is not empty has a least one.
LEMMA Least == ASSUME NEW S \in SUBSET Nat, S # {} PROVE \E m \in S : \A k \in S : m <= k
<1>1. PICK m \in S : \A k \in S : ~(<<k, m>> \in OpToRel(<, Nat))
  BY NatLessThanWellFounded, WFMin
<1>2. \A k \in S : k < m => <<k, m>> \in OpToRel(<, Nat)
  BY DEF OpToRel
<1>3. \A k \in S : ~(k < m)
  BY <1>1, <1>2, Zenon
<1> QED BY <1>3

\* What is before the least of some numbers, before the next of one, and before
\* and at the greatest.
LEMMA BeforeNext ==
  ASSUME NEW P \in SUBSET Nat, NEW i \in P
  PROVE  /\ (\A j \in P : i <= j) => {j \in P : j < i} = {}
         /\ {j \in P : j > i} = {} => P = {j \in P : j < i} \cup {i}
         /\ \A q \in P : q > i /\ (\A j \in P : j > i => q <= j) =>
              {j \in P : j < q} = {j \in P : j < i} \cup {i}
<1>1. \A j \in P : j \in Nat
  OBVIOUS
<1>2. ASSUME \A j \in P : i <= j PROVE {j \in P : j < i} = {}
  <2>1. \A j \in P : ~(j < i)
    BY <1>1, <1>2
  <2> QED BY <2>1
<1>3. ASSUME {j \in P : j > i} = {} PROVE P = {j \in P : j < i} \cup {i}
  <2>1. \A j \in P : j < i \/ j = i
    BY <1>1, <1>3
  <2> QED BY <2>1
<1>4. ASSUME NEW q \in P, q > i, \A j \in P : j > i => q <= j
      PROVE  {j \in P : j < q} = {j \in P : j < i} \cup {i}
  <2>1. \A j \in P : j < q <=> (j < i \/ j = i)
    BY <1>1, <1>4
  <2> QED BY <2>1
<1> QED BY <1>2, <1>3, <1>4

\* The n-th of some numbers is the one with n - 1 of them before it.
LEMMA NthExists ==
  ASSUME NEW P \in SUBSET Nat, IsFiniteSet(P)
  PROVE  \A n \in 1..Cardinality(P) : \E i \in P : Cardinality({j \in P : j < i}) = n - 1
<1> DEFINE before(i) == {j \in P : j < i}
           missing == {n \in 1..Cardinality(P) : \A i \in P : Cardinality(before(i)) # n - 1}
<1>1. Cardinality(P) \in Nat /\ \A j \in P : j \in Nat
  BY FS_CardinalityType
<1> SUFFICES ASSUME missing # {} PROVE FALSE
  BY <1>1
<1>2. PICK n \in missing : \A k \in missing : n <= k
  <2>1. missing \in SUBSET Nat
    BY <1>1
  <2> HIDE DEF missing
  <2> QED BY <2>1, Least
<1>3. n \in 1..Cardinality(P) /\ \A i \in P : Cardinality(before(i)) # n - 1
  OBVIOUS
<1>4. CASE n = 1
  <2>1. P # {}
    BY <1>1, <1>3, FS_EmptySet
  <2>2. PICK i \in P : \A j \in P : i <= j
    BY <2>1, Least
  <2>3. before(i) = {}
    BY <2>2, BeforeNext
  <2>4. Cardinality(before(i)) = 0
    BY <2>3, FS_EmptySet
  <2> QED BY <1>3, <1>4, <2>4
<1>5. CASE n # 1
  <2>1. n - 1 \in 1..Cardinality(P) /\ n - 1 \notin missing
    BY <1>1, <1>2, <1>3, <1>5
  <2>2. PICK i \in P : Cardinality(before(i)) = n - 2
    <3>1. PICK i \in P : Cardinality(before(i)) = (n - 1) - 1
      BY <2>1
    <3> QED BY <1>1, <1>3, <3>1
  <2>3. IsFiniteSet(before(i)) /\ i \notin before(i)
    BY FS_Subset
  <2>4. Cardinality(before(i) \cup {i}) = n - 1
    <3> HIDE DEF before
    <3>1. Cardinality(before(i) \cup {i}) = Cardinality(before(i)) + 1
      BY <2>3, FS_AddElement
    <3> QED BY <1>1, <1>3, <2>2, <3>1
  <2> DEFINE after == {j \in P : j > i}
  <2>5. after # {}
    <3>1. SUFFICES ASSUME after = {} PROVE FALSE
      OBVIOUS
    <3>2. P = before(i) \cup {i}
      BY <3>1, BeforeNext
    <3> QED BY <1>1, <1>3, <2>4, <3>2
  <2>6. PICK q \in after : \A j \in after : q <= j
    BY <2>5, Least
  <2>7. before(q) = before(i) \cup {i}
    BY <2>6, BeforeNext
  <2> QED BY <1>3, <2>4, <2>6, <2>7
<1> QED BY <1>4, <1>5

\* The items that name these modules do.
LEMMA OnlyNames ==
  ASSUME NEW intel \in Seq(Items), NEW names
  PROVE  /\ Only(intel, names) \in Seq(Items)
         /\ \A k \in DOMAIN Only(intel, names) : Canonical(Only(intel, names)[k].module) \in names
<1> DEFINE at == {i \in DOMAIN intel : Canonical(intel[i].module) \in names}
           nth(n) == CHOOSE i \in at : Cardinality({j \in at : j < i}) = n - 1
<1>1. at \in SUBSET Nat /\ IsFiniteSet(at) /\ Cardinality(at) \in Nat
  <2>1. DOMAIN intel = 1..Len(intel) /\ Len(intel) \in Nat
    OBVIOUS
  <2>2. at \subseteq 1..Len(intel) /\ IsFiniteSet(1..Len(intel))
    BY <2>1, FS_Interval
  <2>3. IsFiniteSet(at)
    BY <2>2, FS_Subset
  <2> QED BY <2>2, <2>3, FS_CardinalityType
<1>2. \A n \in 1..Cardinality(at) : nth(n) \in at
  <2> HIDE DEF at
  <2> QED BY <1>1, NthExists
<1>3. Only(intel, names) = [n \in 1..Cardinality(at) |-> intel[nth(n)]]
  BY DEF Only
<1>4. \A n \in 1..Cardinality(at) : intel[nth(n)] \in Items /\ Canonical(intel[nth(n)].module) \in names
  <2> HIDE DEF nth
  <2> QED BY <1>2
<1> HIDE DEF at, nth
<1> QED BY <1>1, <1>3, <1>4

\* The steps that plan() makes: numbered one after the other, each waiting for
\* earlier ones only, and the collector for all others.
WellMade(S) ==
  /\ \A s \in S : s.id \in Nat /\ \A d \in s.deps : d \in Ids(S) /\ d < s.id
  /\ \A s, t \in S : s.id = t.id => s = t
  /\ \E c \in S : {s \in S : s.module = "collector"} = {c} /\ Ids(S \ {c}) \subseteq c.deps

\* A list with one collector, at its end.
LEMMA DraftEnds ==
  ASSUME NEW intel \in Seq(Items)
  PROVE  /\ Draft(intel) \in Seq(Items) /\ Len(Draft(intel)) > 0
         /\ \A k \in 1..Len(Draft(intel)) : Draft(intel)[k].module = "collector" <=> k = Len(Draft(intel))
<1> DEFINE Plain == {it \in Items : it.module # "collector"}
           stealth == Only(intel, {"stealth"})
           discovery == OrDefault(Only(intel, {"discovery"}), "discovery")
           asset == OrDefault(Only(intel, {"asset"}), "asset")
           recon == Only(intel, {"recon"})
           plugin == Only(intel, {"plugin", "nameless"})
           first == stealth \o discovery \o asset \o recon \o plugin
           last == Item("collector", 0)
<1>1. ASSUME NEW names, "collector" \notin names PROVE Only(intel, names) \in Seq(Plain)
  <2> DEFINE s == Only(intel, names)
  <2>1. s \in Seq(Items) /\ \A k \in DOMAIN s : Canonical(s[k].module) \in names
    BY OnlyNames
  <2>2. \A k \in DOMAIN s : s[k].module # "collector"
    BY <1>1, <2>1 DEF Canonical
  <2> HIDE DEF s
  <2>3. s = [k \in 1..Len(s) |-> s[k]] /\ Len(s) \in Nat /\ \A k \in 1..Len(s) : s[k] \in Plain
    BY <2>1, <2>2
  <2>4. s \in Seq(Plain)
    BY <2>3
  <2> QED BY <2>4 DEF s
<1>2. \A m \in {"discovery", "asset"} : <<Item(m, 0)>> \in Seq(Plain)
  BY DEF Item, Items, Modules
<1>3. stealth \in Seq(Plain) /\ recon \in Seq(Plain) /\ plugin \in Seq(Plain)
  BY <1>1
<1>4. discovery \in Seq(Plain) /\ asset \in Seq(Plain)
  BY <1>1, <1>2 DEF OrDefault
<1> HIDE DEF stealth, discovery, asset, recon, plugin
<1>5. first \in Seq(Plain)
  BY <1>3, <1>4
<1>6. last \in Items /\ last.module = "collector"
  BY DEF Item, Items, Modules
<1>7. Draft(intel) = Append(first, last)
  <2>1. Draft(intel) = first \o <<last>>
    BY DEF Draft, stealth, discovery, asset, recon, plugin
  <2> HIDE DEF first, last
  <2> QED BY <1>5, <2>1
<1> HIDE DEF first, last
<1>8. first \in Seq(Items) /\ \A k \in 1..Len(first) : first[k].module # "collector"
  <2>1. \A k \in 1..Len(first) : first[k] \in Plain
    BY <1>5
  <2>2. first = [k \in 1..Len(first) |-> first[k]] /\ Len(first) \in Nat
    BY <1>5
  <2>3. \A k \in 1..Len(first) : first[k] \in Items /\ first[k].module # "collector"
    BY <2>1
  <2> HIDE DEF Plain
  <2> QED BY <2>2, <2>3
<1> QED BY <1>6, <1>7, <1>8

\* plan() makes such steps.
LEMMA PlanWellMade ==
  ASSUME NEW intel \in Seq(Items), NEW n \in Nat
  PROVE  WellMade({Mk(Draft(intel), k, n) : k \in DOMAIN Draft(intel)})
<1> DEFINE d == Draft(intel)
           S == {Mk(d, k, n) : k \in DOMAIN d}
           c == Mk(d, Len(d), n)
<1>0. d \in Seq(Items) /\ Len(d) > 0 /\ \A k \in 1..Len(d) : d[k].module = "collector" <=> k = Len(d)
  BY DraftEnds
<1> HIDE DEF d
<1>1. /\ DOMAIN d = 1..Len(d) /\ Len(d) \in 1..Len(d) /\ Len(d) \in Nat /\ Len(d) > 0
      /\ \A k \in 1..Len(d) : d[k].module = "collector" <=> k = Len(d)
  <2>1. Len(d) \in Nat
    BY <1>0
  <2>2. Len(d) > 0
    BY <1>0
  <2>3. Len(d) \in 1..Len(d)
    BY <2>1, <2>2
  <2> QED BY <1>0, <2>1, <2>3
<1>2. \A k \in 1..Len(d) : WaitsFor(d, k) \subseteq 1..(k - 1)
  BY <1>1 DEF WaitsFor
<1>3. WaitsFor(d, Len(d)) = 1..(Len(d) - 1)
  <2>1. d[Len(d)].module = "collector"
    BY <1>1
  <2> QED BY <2>1 DEF WaitsFor
<1>4. \A k \in 1..Len(d) : /\ Mk(d, k, n).id = n + k
                            /\ Mk(d, k, n).module = d[k].module
                            /\ Mk(d, k, n).deps = {n + j : j \in WaitsFor(d, k)}
  BY DEF Mk
<1>5. ASSUME NEW s \in S, NEW e \in s.deps PROVE e \in Ids(S) /\ e < s.id
  <2>1. PICK k \in 1..Len(d) : s = Mk(d, k, n)
    BY <1>1
  <2>2. PICK j \in 1..(k - 1) : e = n + j
    BY <1>2, <1>4, <1>5, <2>1
  <2>3. j \in 1..Len(d) /\ Mk(d, j, n) \in S /\ Mk(d, j, n).id = e
    BY <1>1, <1>4, <2>2
  <2> QED BY <1>4, <2>1, <2>2, <2>3 DEF Ids
<1>6. ASSUME NEW s \in S PROVE s.id \in Nat
  <2>1. PICK k \in 1..Len(d) : s = Mk(d, k, n)
    BY <1>1
  <2>2. s.id = n + k
    BY <1>4, <2>1
  <2> QED BY <2>2
<1>7. ASSUME NEW s \in S, NEW t \in S, s.id = t.id PROVE s = t
  <2>1. PICK k \in 1..Len(d) : s = Mk(d, k, n)
    BY <1>1
  <2>2. PICK j \in 1..Len(d) : t = Mk(d, j, n)
    BY <1>1
  <2>3. n + k = n + j
    BY <1>4, <1>7, <2>1, <2>2
  <2>4. k = j
    BY <2>3
  <2> QED BY <2>1, <2>2, <2>4
<1>8. c \in S /\ {s \in S : s.module = "collector"} = {c}
  BY <1>1, <1>4
<1>9. Ids(S \ {c}) \subseteq c.deps
  <2> SUFFICES ASSUME NEW s \in S \ {c} PROVE s.id \in c.deps
    BY DEF Ids
  <2>1. PICK k \in 1..Len(d) : s = Mk(d, k, n)
    BY <1>1
  <2>2. k \in 1..(Len(d) - 1)
    BY <1>1, <2>1
  <2> QED BY <1>1, <1>3, <1>4, <2>1, <2>2
<1> QED BY <1>5, <1>6, <1>7, <1>8, <1>9 DEF WellMade, d

-----------------------------------------------------------------------------
(***************************************************************************)
(* schedule()                                                              *)
(***************************************************************************)
\* schedule()'s bookkeeping: done and remaining describe the waves so far, the
\* waves are disjoint, and outside schedule() there is nothing left over.
Bookkeeping ==
  /\ waves \in Seq(SUBSET steps)
  /\ remaining \subseteq steps
  /\ done = Ids(Scheduled)
  /\ remaining \cap Scheduled = {}
  /\ \A j, k \in DOMAIN waves : j # k => waves[j] \cap waves[k] = {}
  /\ phase \in {"scheduling", "scheduled"} => steps = remaining \cup Scheduled

WaveInv == Bookkeeping /\ DependenciesFirst

\* Nothing is scheduled while there are no waves.
LEMMA EmptyStart ==
  ASSUME waves = <<>>, remaining \subseteq steps, done = {}, phase \notin {"scheduled", "scheduling"}
                                                     \/ steps = remaining
  PROVE  WaveInv
<1>1. Scheduled = {} /\ DOMAIN waves = {} /\ waves \in Seq(SUBSET steps)
  BY DEF Scheduled
<1>2. Ids(Scheduled) = {}
  BY <1>1 DEF Ids
<1> QED BY <1>1, <1>2 DEF WaveInv, Bookkeeping, DependenciesFirst

\* The same of the state after a step that starts over.
LEMMA StartsOver ==
  ASSUME waves' = <<>>, remaining' \subseteq steps', done' = {},
         phase' \notin {"scheduled", "scheduling"} \/ steps' = remaining'
  PROVE  WaveInv'
<1>1. Scheduled' = {} /\ DOMAIN waves' = {} /\ waves' \in Seq(SUBSET steps')
  BY DEF Scheduled
<1>2. Ids(Scheduled') = {}
  BY <1>1 DEF Ids
<1> QED BY <1>1, <1>2 DEF WaveInv, Bookkeeping, DependenciesFirst

\* A wave taken from what remains: what is scheduled grows by it.
LEMMA WaveAdded ==
  ASSUME Bookkeeping, NEW w, w \subseteq remaining, AddWave(w), steps' = steps
  PROVE  /\ waves' \in Seq(SUBSET steps)
         /\ Scheduled' = Scheduled \cup w
         /\ DOMAIN waves' = DOMAIN waves \cup {Len(waves) + 1}
         /\ \A k \in DOMAIN waves : waves'[k] = waves[k]
         /\ waves'[Len(waves) + 1] = w
         /\ DOMAIN waves = 1..Len(waves) /\ Len(waves) \in Nat
<1>1. waves \in Seq(SUBSET steps) /\ w \in SUBSET steps /\ waves' = Append(waves, w)
  BY DEF Bookkeeping, AddWave
<1>2. /\ waves' \in Seq(SUBSET steps)
      /\ DOMAIN waves' = DOMAIN waves \cup {Len(waves) + 1}
      /\ \A k \in DOMAIN waves : waves'[k] = waves[k]
      /\ waves'[Len(waves) + 1] = w
      /\ DOMAIN waves = 1..Len(waves) /\ Len(waves) \in Nat
  BY <1>1
<1>3. Scheduled' = Scheduled \cup w
  <2>1. ASSUME NEW x PROVE x \in Scheduled' <=> x \in Scheduled \cup w
    <3>1. x \in Scheduled' <=> \E k \in DOMAIN waves' : x \in waves'[k]
      BY DEF Scheduled
    <3>2. x \in Scheduled <=> \E k \in DOMAIN waves : x \in waves[k]
      BY DEF Scheduled
    <3> QED BY <1>2, <3>1, <3>2
  <2> QED BY <2>1
<1> QED BY <1>2, <1>3

\* The bookkeeping survives a wave taken from what remains.
LEMMA BookkeepingKept ==
  ASSUME Bookkeeping, NEW w, w \subseteq remaining, AddWave(w), steps' = steps, phase' = phase
  PROVE  Bookkeeping'
<1>1. /\ waves' \in Seq(SUBSET steps)
      /\ Scheduled' = Scheduled \cup w
      /\ DOMAIN waves' = DOMAIN waves \cup {Len(waves) + 1}
      /\ \A k \in DOMAIN waves : waves'[k] = waves[k]
      /\ waves'[Len(waves) + 1] = w
      /\ DOMAIN waves = 1..Len(waves) /\ Len(waves) \in Nat
  BY WaveAdded
<1>2. remaining' = remaining \ w /\ done' = done \cup Ids(w)
  BY DEF AddWave
<1>3. done' = Ids(Scheduled')
  BY <1>1, <1>2 DEF Bookkeeping, Ids
<1>4. remaining' \subseteq steps' /\ remaining' \cap Scheduled' = {}
  BY <1>1, <1>2 DEF Bookkeeping
<1>5. phase' \in {"scheduling", "scheduled"} => steps' = remaining' \cup Scheduled'
  BY <1>1, <1>2 DEF Bookkeeping
<1>6. \A k \in DOMAIN waves : waves[k] \cap w = {}
  <2>1. \A k \in DOMAIN waves : waves[k] \subseteq Scheduled
    BY DEF Scheduled
  <2> QED BY <2>1 DEF Bookkeeping
<1>7. \A j, k \in DOMAIN waves' : j # k => waves'[j] \cap waves'[k] = {}
  BY <1>1, <1>6 DEF Bookkeeping
<1> QED BY <1>1, <1>3, <1>4, <1>5, <1>7 DEF Bookkeeping

\* One turn of schedule()'s loop, with a ready wave or to break a deadlock.
LEMMA WaveStep == ASSUME WaveInv, ScheduleWave PROVE WaveInv'
<1>0. Bookkeeping /\ DependenciesFirst /\ steps' = steps /\ phase' = phase
  BY DEF WaveInv, ScheduleWave
<1>1. CASE Ready # {} /\ AddWave(First(Ready)) /\ forced' = forced
  <2> DEFINE w == First(Ready)
  <2>1. w \subseteq remaining /\ \A s \in w : s.deps \subseteq done
    BY DEF First, Ready
  <2>2. Bookkeeping'
    BY <1>0, <1>1, <2>1, BookkeepingKept
  <2>3. /\ DOMAIN waves' = DOMAIN waves \cup {Len(waves) + 1}
        /\ \A k \in DOMAIN waves : waves'[k] = waves[k]
        /\ waves'[Len(waves) + 1] = w
        /\ DOMAIN waves = 1..Len(waves) /\ Len(waves) \in Nat
    BY <1>0, <1>1, <2>1, WaveAdded
  <2>4. ASSUME ~forced, NEW k \in DOMAIN waves', NEW s \in waves'[k], NEW d \in s.deps
        PROVE  d \in Ids(UNION {waves'[j] : j \in 1..(k - 1)})
    <3>1. CASE k \in DOMAIN waves
      <4>1. \A j \in 1..(k - 1) : waves'[j] = waves[j]
        BY <2>3, <3>1
      <4>2. d \in Ids(UNION {waves[j] : j \in 1..(k - 1)})
        BY <1>0, <2>3, <2>4, <3>1 DEF DependenciesFirst
      <4> QED BY <4>1, <4>2 DEF Ids
    <3>2. CASE k = Len(waves) + 1
      <4>1. d \in Ids(Scheduled)
        BY <1>0, <2>1, <2>3, <2>4, <3>2 DEF Bookkeeping
      <4>2. PICK x \in Scheduled : d = x.id
        BY <4>1 DEF Ids
      <4>3. PICK j \in DOMAIN waves : x \in waves[j]
        BY <4>2 DEF Scheduled
      <4>4. j \in 1..(k - 1) /\ x \in waves'[j]
        BY <2>3, <3>2, <4>3
      <4> QED BY <4>2, <4>4 DEF Ids
    <3> QED BY <2>3, <3>1, <3>2
  <2>5. DependenciesFirst'
    BY <1>1, <2>4 DEF DependenciesFirst
  <2> QED BY <2>2, <2>5 DEF WaveInv
<1>2. CASE \E s \in remaining : AddWave({s}) /\ forced' = TRUE
  <2>1. PICK s \in remaining : AddWave({s}) /\ forced' = TRUE
    BY <1>2
  <2>2. {s} \subseteq remaining
    OBVIOUS
  <2>3. Bookkeeping'
    BY <1>0, <2>1, <2>2, BookkeepingKept
  <2> QED BY <2>1, <2>3 DEF WaveInv, DependenciesFirst
<1> QED BY <1>1, <1>2 DEF ScheduleWave

\* The collector, once it is in a wave, is in the last one.
CollectorLast == \A s \in Scheduled : s.module = "collector" => s \in waves[Len(waves)]

\* What a plan that plan() made is for schedule(), and what a broken deadlock
\* says of any plan.
PlanInv ==
  /\ counter \in Nat
  /\ forced => Stuck(steps)
  /\ phase = "scheduled" => remaining = {}
  /\ ours /\ phase \in {"planned", "scheduling", "scheduled"} => WellMade(steps) /\ ~forced /\ CollectorLast

\* A step that plan() made is ready before it comes to a deadlock.
LEMMA SomeReady == ASSUME Bookkeeping, WellMade(steps), phase = "scheduling", remaining # {} PROVE Ready # {}
<1>1. steps = remaining \cup Scheduled /\ done = Ids(Scheduled)
  BY DEF Bookkeeping
<1>2. /\ \A s \in steps : s.id \in Nat /\ \A d \in s.deps : d \in Ids(steps) /\ d < s.id
      /\ \A s, t \in steps : s.id = t.id => s = t
  BY DEF WellMade
<1>3. Ids(remaining) \in SUBSET Nat /\ Ids(remaining) # {}
  BY <1>1, <1>2 DEF Ids
<1>4. PICK m \in Ids(remaining) : \A k \in Ids(remaining) : m <= k
  BY <1>3, Least
<1>5. PICK s \in remaining : s.id = m
  BY <1>4 DEF Ids
<1>6. ASSUME NEW d \in s.deps PROVE d \in done
  <2>1. d \in Ids(steps) /\ d < m /\ m \in Nat
    BY <1>1, <1>2, <1>5, <1>6
  <2>2. PICK x \in steps : x.id = d
    BY <2>1 DEF Ids
  <2>3. x.id \in Nat
    BY <1>2
  <2>4. x \notin remaining
    BY <1>4, <2>1, <2>2, <2>3 DEF Ids
  <2> QED BY <1>1, <2>2, <2>4 DEF Ids
<1> QED BY <1>5, <1>6 DEF Ready

\* Nothing remains when the collector is in a wave.
LEMMA NothingAfterCollector ==
  ASSUME WaveInv, WellMade(steps), ~forced, NEW c \in Scheduled, c.module = "collector",
         phase = "scheduling"
  PROVE  remaining = {}
<1> SUFFICES ASSUME NEW s \in remaining PROVE FALSE
  OBVIOUS
<1>1. /\ s \in steps /\ c \in steps /\ s \notin Scheduled
      /\ waves \in Seq(SUBSET steps)
  BY DEF WaveInv, Bookkeeping
<1>2. /\ \A x, y \in steps : x.id = y.id => x = y
      /\ Ids(steps \ {c}) \subseteq c.deps
  BY <1>1 DEF WellMade
<1>3. s.id \in c.deps
  BY <1>1, <1>2 DEF Ids
<1>4. PICK k \in DOMAIN waves : c \in waves[k]
  BY DEF Scheduled
<1>5. s.id \in Ids(UNION {waves[j] : j \in 1..(k - 1)})
  BY <1>3, <1>4 DEF WaveInv, DependenciesFirst
<1>6. PICK x \in UNION {waves[j] : j \in 1..(k - 1)} : x.id = s.id
  BY <1>5 DEF Ids
<1>7. PICK j \in 1..(k - 1) : x \in waves[j]
  OBVIOUS
<1>8. j \in DOMAIN waves
  BY <1>1, <1>4, <1>7
<1>9. x \in Scheduled /\ x \in steps
  BY <1>1, <1>7, <1>8 DEF Scheduled
<1> QED BY <1>1, <1>2, <1>6, <1>9

\* One turn of the loop: if nothing is ready, what remains is stuck.
LEMMA PlanWaveStep == ASSUME WaveInv, PlanInv, ScheduleWave PROVE PlanInv'
<1>1. /\ Bookkeeping /\ phase = "scheduling" /\ remaining # {}
      /\ UNCHANGED <<counter, steps, phase, ours>>
  BY DEF WaveInv, ScheduleWave
<1>2. PICK w \in SUBSET remaining : AddWave(w)
  BY DEF ScheduleWave, First, Ready
<1>3. /\ Scheduled' = Scheduled \cup w /\ waves'[Len(waves) + 1] = w
      /\ Len(waves) \in Nat /\ Len(waves') = Len(waves) + 1
  <2>1. Scheduled' = Scheduled \cup w /\ waves'[Len(waves) + 1] = w /\ Len(waves) \in Nat
    BY <1>1, <1>2, WaveAdded
  <2>2. waves \in Seq(SUBSET steps) /\ w \in SUBSET steps /\ waves' = Append(waves, w)
    BY <1>1, <1>2 DEF Bookkeeping, AddWave
  <2> QED BY <2>1, <2>2
<1>4. ASSUME Ready = {} PROVE Stuck(steps)
  <2>1. remaining \in SUBSET steps /\ steps \ remaining = Scheduled /\ done = Ids(Scheduled)
    BY <1>1 DEF Bookkeeping
  <2>2. \A s \in remaining : ~(s.deps \subseteq Ids(steps \ remaining))
    BY <1>4, <2>1 DEF Ready
  <2> QED BY <1>1, <2>1, <2>2 DEF Stuck
<1>5. forced' => Stuck(steps)'
  BY <1>1, <1>4 DEF PlanInv, ScheduleWave, Stuck
<1>6. ASSUME ours PROVE WellMade(steps)' /\ ~forced' /\ CollectorLast'
  <2>1. WellMade(steps) /\ ~forced
    BY <1>1, <1>6 DEF PlanInv
  <2>2. ~forced'
    BY <1>1, <2>1, SomeReady DEF ScheduleWave
  <2>3. \A s \in Scheduled : s.module # "collector"
    BY <1>1, <2>1, NothingAfterCollector
  <2> QED BY <1>1, <1>3, <2>1, <2>2, <2>3 DEF CollectorLast, WellMade
<1> QED BY <1>1, <1>5, <1>6 DEF PlanInv

ScheduleInv == WaveInv /\ PlanInv

\* What moves the planner, alone or in a campaign.
PlannerMoves ==
  \/ \E intel \in Intel : Plan(intel)
  \/ \E doc \in Documents : FromJson(doc)
  \/ StartSchedule \/ ScheduleWave \/ EndSchedule \/ UNCHANGED plannerVars

\* A plan that is made has no waves and has broken no deadlock.
LEMMA PlanStep ==
  ASSUME ScheduleInv, NEW intel \in Intel, Plan(intel)
  PROVE  ScheduleInv' /\ (phase' = "planned" => WellMade(steps'))
<1>1. /\ waves' = <<>> /\ remaining' = {} /\ done' = {} /\ phase' \in {"planned", "raised"} /\ forced' = FALSE
  BY DEF Plan
<1>2. WaveInv'
  BY <1>1, StartsOver
<1>3. intel \in Seq(Items)
  BY InputAssumption
<1>4. Draft(intel) \in Seq(Items) /\ Len(Draft(intel)) \in Nat /\ DOMAIN Draft(intel) = 1..Len(Draft(intel))
  BY <1>3, DraftEnds
<1>5. counter' \in Nat
  BY <1>4 DEF Plan, Nameless, ScheduleInv, PlanInv
<1>6. phase' = "planned" => WellMade(steps')
  BY <1>3, PlanWellMade DEF Plan, ScheduleInv, PlanInv
<1>7. Scheduled' = {}
  BY <1>1 DEF Scheduled
<1> QED BY <1>1, <1>2, <1>5, <1>6, <1>7 DEF ScheduleInv, PlanInv, CollectorLast

\* Every move of the planner keeps the invariant.
LEMMA PlannerStep == ASSUME ScheduleInv, PlannerMoves PROVE ScheduleInv'
<1>1. CASE \E intel \in Intel : Plan(intel)
  BY <1>1, PlanStep
<1>2. CASE \E doc \in Documents : FromJson(doc)
  <2>1. /\ waves' = <<>> /\ remaining' = {} /\ done' = {} /\ phase' = "planned" /\ ours' = FALSE /\ forced' = FALSE
        /\ counter' = counter
    BY <1>2 DEF FromJson
  <2> QED BY <2>1, StartsOver DEF ScheduleInv, PlanInv
<1>3. CASE StartSchedule
  <2>1. /\ waves' = <<>> /\ remaining' = steps /\ done' = {} /\ forced' = FALSE
        /\ phase = "planned" /\ phase' = "scheduling"
        /\ UNCHANGED <<counter, steps, ours>>
    BY <1>3 DEF StartSchedule
  <2>2. WaveInv' /\ Scheduled' = {}
    BY <2>1, StartsOver DEF Scheduled
  <2> QED BY <2>1, <2>2 DEF ScheduleInv, PlanInv, CollectorLast
<1>4. CASE ScheduleWave
  BY <1>4, WaveStep, PlanWaveStep DEF ScheduleInv
<1>5. CASE EndSchedule
  <2>1. /\ remaining = {} /\ phase = "scheduling" /\ phase' = "scheduled"
        /\ UNCHANGED <<counter, steps, remaining, done, waves, ours, forced>>
    BY <1>5 DEF EndSchedule
  <2>2. WaveInv'
    BY <2>1 DEF ScheduleInv, WaveInv, Bookkeeping, DependenciesFirst, Scheduled
  <2>3. PlanInv'
    BY <2>1 DEF ScheduleInv, PlanInv, CollectorLast, Scheduled
  <2> QED BY <2>2, <2>3 DEF ScheduleInv
<1>6. CASE UNCHANGED plannerVars
  BY <1>6 DEF plannerVars, ScheduleInv, WaveInv, PlanInv, CollectorLast, Bookkeeping, DependenciesFirst, Scheduled
<1> QED BY <1>1, <1>2, <1>3, <1>4, <1>5, <1>6 DEF PlannerMoves

\* At first there is no plan.
LEMMA PlannerStart == PlannerInit => ScheduleInv
<1> SUFFICES ASSUME PlannerInit PROVE ScheduleInv
  OBVIOUS
<1>1. WaveInv
  BY EmptyStart DEF PlannerInit
<1> QED BY <1>1 DEF PlannerInit, ScheduleInv, PlanInv

\* The bookkeeping of schedule(), the order of the waves and the make of the
\* plans, together inductive.
THEOREM ScheduleInvariance == PlannerSpec => []ScheduleInv
<1>1. PlannerInit => ScheduleInv
  BY PlannerStart
<1>2. ScheduleInv /\ [PlannerNext]_plannerVars => ScheduleInv'
  BY PlannerStep DEF PlannerNext, PlannerMoves
<1> QED BY <1>1, <1>2, PTL DEF PlannerSpec

\* schedule() loses no step and schedules none twice.
THEOREM NoStepLost == PlannerSpec => []EachStepOnce
<1>1. ScheduleInv => EachStepOnce
  BY DEF ScheduleInv, WaveInv, Bookkeeping, EachStepOnce
<1> QED BY <1>1, ScheduleInvariance, PTL

\* Unless it had to break a deadlock, schedule() puts a step in a later wave than
\* everything it depends on.
THEOREM DependenciesComeFirst == PlannerSpec => []DependenciesFirst
<1>1. ScheduleInv => DependenciesFirst
  BY DEF ScheduleInv, WaveInv
<1> QED BY <1>1, ScheduleInvariance, PTL

\* A schedule that broke no deadlock is of a plan that has none: of the steps
\* that wait for each other, none could have come first.
LEMMA UnforcedIsUnstuck == ASSUME WaveInv, phase = "scheduled", remaining = {}, ~forced PROVE ~Stuck(steps)
<1> SUFFICES ASSUME NEW T \in SUBSET steps, T # {}, \A s \in T : ~(s.deps \subseteq Ids(steps \ T)) PROVE FALSE
  BY DEF Stuck
<1>1. steps = Scheduled /\ waves \in Seq(SUBSET steps)
  BY DEF WaveInv, Bookkeeping
<1> DEFINE K == {k \in DOMAIN waves : waves[k] \cap T # {}}
<1>2. K \in SUBSET Nat /\ K # {}
  <2>1. PICK s \in T : TRUE
    OBVIOUS
  <2>2. PICK k \in DOMAIN waves : s \in waves[k]
    BY <1>1 DEF Scheduled
  <2> QED BY <1>1, <2>2
<1>3. PICK k \in K : \A j \in K : k <= j
  <2> HIDE DEF K
  <2> QED BY <1>2, Least
<1>4. PICK s \in T : s \in waves[k]
  BY <1>3
<1>5. s.deps \subseteq Ids(UNION {waves[j] : j \in 1..(k - 1)})
  BY <1>3, <1>4 DEF WaveInv, DependenciesFirst
<1>6. ASSUME NEW j \in 1..(k - 1) PROVE waves[j] \subseteq steps \ T
  <2>1. j \in DOMAIN waves /\ j \notin K
    BY <1>1, <1>2, <1>3
  <2> QED BY <1>1, <2>1
<1>7. Ids(UNION {waves[j] : j \in 1..(k - 1)}) \subseteq Ids(steps \ T)
  BY <1>6 DEF Ids
<1> QED BY <1>4, <1>5, <1>7

\* The last wave is the collector's alone: whatever else is in it, it waits for.
LEMMA LastWave ==
  ASSUME ScheduleInv, ours, phase = "scheduled"
  PROVE  /\ waves[Len(waves)] = {s \in steps : s.module = "collector"}
         /\ Cardinality(waves[Len(waves)]) = 1
<1>1. /\ steps = Scheduled /\ waves \in Seq(SUBSET steps) /\ WellMade(steps) /\ ~forced /\ CollectorLast
      /\ \A j, k \in DOMAIN waves : j # k => waves[j] \cap waves[k] = {}
  BY DEF ScheduleInv, WaveInv, Bookkeeping, PlanInv
<1>2. PICK c \in steps : {s \in steps : s.module = "collector"} = {c} /\ Ids(steps \ {c}) \subseteq c.deps
  BY <1>1 DEF WellMade
<1>3. c.module = "collector" /\ c \in waves[Len(waves)]
  BY <1>1, <1>2 DEF CollectorLast
<1>4. Len(waves) \in DOMAIN waves
  <2>1. PICK k \in DOMAIN waves : c \in waves[k]
    BY <1>1 DEF Scheduled
  <2> QED BY <1>1, <2>1
<1>5. ASSUME NEW s \in waves[Len(waves)], s # c PROVE FALSE
  <2>1. s \in steps /\ s.id \in c.deps
    BY <1>1, <1>2, <1>4, <1>5 DEF Ids
  <2>2. s.id \in Ids(UNION {waves[j] : j \in 1..(Len(waves) - 1)})
    BY <1>1, <1>3, <1>4, <2>1 DEF ScheduleInv, WaveInv, DependenciesFirst
  <2>3. PICK x \in UNION {waves[j] : j \in 1..(Len(waves) - 1)} : x.id = s.id
    BY <2>2 DEF Ids
  <2>4. PICK j \in 1..(Len(waves) - 1) : x \in waves[j]
    OBVIOUS
  <2>5. j \in DOMAIN waves /\ j # Len(waves) /\ x \in steps
    BY <1>1, <2>4
  <2>6. x = s
    BY <1>1, <2>1, <2>3, <2>5 DEF WellMade
  <2> QED BY <1>1, <1>4, <1>5, <2>4, <2>5, <2>6
<1>6. waves[Len(waves)] = {c}
  BY <1>3, <1>5
<1> QED BY <1>2, <1>6, FS_Singleton

\* For all intelligence, all documents and every max_concurrency: schedule()
\* breaks a deadlock exactly when the plan has one; a plan that plan() made has
\* none, and its collector runs alone, once, after all others.
THEOREM ScheduleIsOrdered == PlannerSpec => []OrderedUnlessStuck
<1>1. ScheduleInv => OrderedUnlessStuck
  <2> SUFFICES ASSUME ScheduleInv, phase = "scheduled"
               PROVE  /\ forced <=> Stuck(steps)
                      /\ ours => /\ ~forced
                                 /\ waves[Len(waves)] = {s \in steps : s.module = "collector"}
                                 /\ Cardinality(waves[Len(waves)]) = 1
    BY DEF OrderedUnlessStuck
  <2>1. WaveInv /\ PlanInv /\ remaining = {}
    BY DEF ScheduleInv, PlanInv
  <2>2. forced => Stuck(steps)
    BY <2>1 DEF PlanInv
  <2>3. ~forced => ~Stuck(steps)
    BY <2>1, UnforcedIsUnstuck
  <2>4. ours => ~forced
    BY <2>1 DEF PlanInv
  <2> QED BY <2>2, <2>3, <2>4, LastWave
<1> QED BY <1>1, ScheduleInvariance, PTL

-----------------------------------------------------------------------------
(***************************************************************************)
(* run_campaign                                                            *)
(***************************************************************************)
NotPlanned == {"idle", "save_planning", "log_start", "plan"}
Over == {"raised", "down", "recovered"}
Executing == {"save_scanning", "log_plan", "next_wave", "join", "unwind", "save_done", "log_done",
              "save_failed", "log_failed", "returned"}

\* Where the planner is when the main thread is at one of its places, and what
\* the campaign keeps of each step.
PlaceInv ==
  /\ main \in NotPlanned \cup {"authorize", "schedule"} \cup Executing \cup Over
  /\ main \in NotPlanned => phase = "idle"
  /\ main = "authorize" => phase = "planned"
  /\ main = "schedule" => phase \in {"planned", "scheduling"}
  /\ main \in Executing => phase = "scheduled"
  /\ \/ phase \in {"idle", "raised"} /\ steps = {}
     \/ phase \in {"planned", "scheduling", "scheduled"} /\ ours
  /\ DOMAIN th = Ids(steps) /\ DOMAIN stepStatus = Ids(steps) /\ reports \subseteq Ids(steps)

\* The waves before the one in execution are over, those after it untouched.
WaveOf(k) ==
  \A s \in waves[k] : /\ k < wave => th[s.id] = "collected"
                      /\ k > wave => th[s.id] = "waiting"

ProgressInv ==
  /\ wave \in 0..Len(waves)
  /\ phase # "scheduled" => wave = 0 /\ \A i \in DOMAIN th : th[i] = "waiting"
  /\ main \in {"save_scanning", "log_plan"} => wave = 0
  /\ main \in {"join", "unwind"} => wave > 0
  /\ \A k \in DOMAIN waves : WaveOf(k)
  /\ main \in {"next_wave", "save_done", "log_done", "returned"} /\ wave > 0 => WaveOver
  /\ main \in {"save_done", "log_done", "returned"} => wave = Len(waves)

OrderInv == ScheduleInv /\ PlaceInv /\ ProgressInv

\* A status that says the campaign has ended is set, and saved, only when it has.
EndInv ==
  /\ "failed" \in {status, saved} =>
       /\ main \in {"save_failed", "log_failed"} \cup Over
       /\ \A i \in DOMAIN th : th[i] \in Ended \cup {"waiting"}
  /\ "done" \in {status, saved} =>
       /\ main \in {"save_done", "log_done", "returned"} \cup Over
       /\ \A i \in DOMAIN th : th[i] = "collected"

\* Whether, and how, the outcome of step i has been logged.
Logged(e, i) == Event(e, i) \in acks
Unlogged(i) == ~Logged("step_done", i) /\ ~Logged("step_failed", i) /\ ~Logged("module_missing", i)
LoggedAs(i, value, e) ==
  stepStatus[i] = value /\ \A n \in {"step_done", "step_failed", "module_missing"} : Logged(n, i) <=> n = e

\* What is on record of a step whose thread is at this place.
Recorded(i) ==
  /\ th[i] \in {"waiting", "entry"} => stepStatus[i] = "pending"
  /\ th[i] = "run" => stepStatus[i] = "running"
  /\ th[i] = "ran" => stepStatus[i] = "done"
  /\ th[i] = "erred" => stepStatus[i] = "failed"
  /\ th[i] \notin {"returned", "none", "collected"} => Unlogged(i)
  /\ th[i] = "returned" => LoggedAs(i, "done", "step_done")
  /\ th[i] \in {"none", "collected"} => \/ LoggedAs(i, "done", "step_done")
                                       \/ LoggedAs(i, "failed", "step_failed")
                                       \/ LoggedAs(i, "pending", "module_missing")
  /\ i \in reports => th[i] = "collected" /\ stepStatus[i] = "done"

\* The outcomes in the log are those of the steps of this campaign.
AuditInv ==
  /\ \A i \in DOMAIN th : Recorded(i)
  /\ \A e \in acks : e.event \in {"step_done", "step_failed", "module_missing"} =>
                      e.step \in DOMAIN th /\ e = Event(e.event, e.step)

\* The event that an unended line is about to cost counts, and so does a crash.
Pending == IF tail # {} THEN 1 ELSE 0
TearInv ==
  /\ log \subseteq acks
  /\ IsFiniteSet(acks)
  /\ faults \in Nat
  /\ Cardinality(acks \ log) + Pending <= faults + Crashes

\* What moves in a step of a campaign: the planner by its own operations only.
LEMMA CampaignMovesPlanner == [Next]_vars => PlannerMoves
<1>1. ASSUME MainStep PROVE PlannerMoves
  <2>1. CASE MakePlan
    BY <2>1 DEF MakePlan, PlannerMoves
  <2>2. CASE Schedule
    BY <2>2 DEF Schedule, PlannerMoves
  <2>3. CASE \E s \in steps : Collect(s)
    BY <2>3 DEF Collect, PlannerMoves
  <2>4. CASE Begin \/ Authorize \/ SubmitWave \/ EndWave \/ Unwind \/ Finish
    BY <2>4 DEF Begin, Authorize, SubmitWave, EndWave, Unwind, Finish, PlannerMoves
  <2>5. CASE SavePlanning \/ SaveScanning \/ SaveDone \/ SaveFailed
    BY <2>5 DEF SavePlanning, SaveScanning, SaveDone, SaveFailed, SaveStatus, PlannerMoves
  <2>6. CASE LogStart \/ LogPlan \/ LogDone \/ LogFailed
    BY <2>6 DEF LogStart, LogPlan, LogDone, LogFailed, LogMilestone, PlannerMoves
  <2> QED BY <1>1, <2>1, <2>2, <2>3, <2>4, <2>5, <2>6 DEF MainStep
<1>2. ASSUME NEW s \in steps, ThreadStep(s) PROVE PlannerMoves
  BY <1>2 DEF ThreadStep, ReportMissing, StartStep, RunnerReturns, RunnerRaises, LogStepDone, LogStepFailed,
              ThreadFrame, PlannerMoves
<1>3. ASSUME Crash \/ Recover \/ UNCHANGED vars PROVE PlannerMoves
  BY <1>3 DEF Crash, Recover, vars, PlannerMoves
<1> QED BY <1>1, <1>2, <1>3 DEF Next

\* The moves of the main thread that leave the planner and the threads alone.
MainMove(from, to) ==
  /\ main = from /\ main' = to
  /\ DOMAIN stepStatus' = DOMAIN stepStatus
  /\ UNCHANGED <<plannerVars, wave, th, reports>>

\* Each of these moves of run_campaign is made when the waves are where it says.
LEMMA MainMoveKeeps ==
  ASSUME PlaceInv, ProgressInv, NEW from, NEW to, MainMove(from, to),
         \/ <<from, to>> \in {<<"idle", "save_planning">>, <<"save_planning", "log_start">>,
                              <<"log_start", "plan">>,
                              <<"authorize", "schedule">>, <<"save_scanning", "log_plan">>,
                              <<"log_plan", "next_wave">>, <<"join", "unwind">>, <<"unwind", "save_failed">>,
                              <<"save_done", "log_done">>, <<"log_done", "returned">>, 
                              <<"save_failed", "log_failed">>}
         \/ to \in Over \/ from = to
         \/ from = "join" /\ to = "next_wave" /\ WaveOver
         \/ from = "next_wave" /\ to = "save_done" /\ wave = Len(waves)
  PROVE  PlaceInv' /\ ProgressInv'
<1>1. /\ WaveOver' <=> WaveOver
      /\ (\A k \in DOMAIN waves : WaveOf(k))' <=> \A k \in DOMAIN waves : WaveOf(k)
  BY DEF MainMove, plannerVars, WaveOver, WaveOf
<1>2. PlaceInv'
  BY DEF MainMove, plannerVars, PlaceInv, Over, NotPlanned, Executing
<1>3. ProgressInv'
  BY <1>1 DEF MainMove, plannerVars, ProgressInv, Over
<1> QED BY <1>2, <1>3

\* One thread moves, or the main thread takes its result.
ThreadMove(i) ==
  /\ i \in DOMAIN th /\ th[i] \notin {"waiting", "collected"}
  /\ th' = [th EXCEPT ![i] = th'[i]] /\ th'[i] # "waiting"
  /\ main' = main
  /\ DOMAIN stepStatus' = DOMAIN stepStatus /\ reports' \subseteq reports \cup {i}
  /\ UNCHANGED <<plannerVars, wave>>

\* Only a thread of the wave in execution moves, so the other waves stay as they are.
LEMMA ThreadMoveKeeps ==
  ASSUME Bookkeeping, PlaceInv, ProgressInv, NEW i, ThreadMove(i) PROVE PlaceInv' /\ ProgressInv'
<1>1. /\ DOMAIN th' = DOMAIN th /\ phase = "scheduled"
      /\ \A j \in DOMAIN th : j # i => th'[j] = th[j]
  BY DEF ThreadMove, ProgressInv
<1>2. PlaceInv'
  BY <1>1 DEF ThreadMove, PlaceInv, plannerVars
<1>3. \A k \in DOMAIN waves : \A s \in waves[k] : s.id \in DOMAIN th
  BY DEF Bookkeeping, PlaceInv, Ids
<1>4. wave > 0 => wave \in DOMAIN waves
  BY DEF Bookkeeping, ProgressInv
<1>5. \A k \in DOMAIN waves : WaveOf(k)'
  BY <1>1, <1>3 DEF ThreadMove, ProgressInv, WaveOf, plannerVars
<1>6. wave > 0 /\ WaveOver => WaveOver'
  BY <1>1, <1>3, <1>4 DEF ThreadMove, ProgressInv, WaveOver, plannerVars
<1> QED BY <1>1, <1>2, <1>5, <1>6 DEF ThreadMove, ProgressInv, plannerVars

\* _safe_run moves its own thread only, which has begun and is not over.
LEMMA ThreadStepMoves ==
  ASSUME PlaceInv, NEW s \in steps, ThreadStep(s) PROVE ThreadMove(s.id)
<1>1. s.id \in DOMAIN th /\ s.id \in DOMAIN stepStatus
  BY DEF PlaceInv, Ids
<1>2. CASE ReportMissing(s)
  BY <1>1, <1>2 DEF ReportMissing, ThreadGoto, ThreadFrame, ThreadMove
<1>3. CASE StartStep(s)
  BY <1>1, <1>3 DEF StartStep, ThreadGoto, Mark, ThreadFrame, ThreadMove
<1>4. CASE RunnerReturns(s) \/ RunnerRaises(s)
  BY <1>1, <1>4 DEF RunnerReturns, RunnerRaises, ThreadGoto, Mark, ThreadFrame, ThreadMove
<1>5. CASE LogStepDone(s)
  BY <1>1, <1>5 DEF LogStepDone, ThreadGoto, Mark, ThreadFrame, ThreadMove
<1>6. CASE LogStepFailed(s)
  BY <1>1, <1>6 DEF LogStepFailed, ThreadGoto, ThreadFrame, ThreadMove
<1> QED BY <1>2, <1>3, <1>4, <1>5, <1>6 DEF ThreadStep

\* _run_wave takes the result of one step of the wave, or leaves its loop.
LEMMA CollectMoves ==
  ASSUME PlaceInv, NEW s \in steps, Collect(s) PROVE ThreadMove(s.id) \/ MainMove("join", "unwind")
<1>1. s.id \in DOMAIN th /\ s.id \in DOMAIN stepStatus
  BY DEF PlaceInv, Ids
<1> QED BY <1>1 DEF Collect, CollectException, Goto, ThreadMove, MainMove

\* A plan in a campaign: all of its steps wait.
LEMMA MakePlanKeeps == ASSUME ScheduleInv, PlaceInv, ProgressInv, MakePlan PROVE PlaceInv' /\ ProgressInv'
<1>1. PICK intel \in Intel : Plan(intel)
  BY DEF MakePlan
<1>2. /\ waves' = <<>> /\ ours' = TRUE
      /\ (phase' = "raised" /\ steps' = {}) \/ phase' = "planned"
  BY <1>1 DEF Plan
<1>3. /\ main = "plan" /\ phase = "idle" /\ steps = {} /\ wave = 0 /\ wave' = 0 /\ reports' = {}
      /\ main' = IF phase' = "raised" THEN "raised" ELSE "authorize"
      /\ th' = [i \in Ids(steps') |-> "waiting"]
      /\ stepStatus' = [i \in Ids(steps') |-> "pending"]
  BY DEF MakePlan, PlaceInv, ProgressInv, NotPlanned, Goto, Ids
<1>4. PlaceInv'
  BY <1>2, <1>3 DEF PlaceInv, NotPlanned, Executing, Over
<1>5. ProgressInv'
  BY <1>2, <1>3 DEF ProgressInv
<1> QED BY <1>4, <1>5

\* schedule() in a campaign: no thread has moved yet.
LEMMA ScheduleKeeps ==
  ASSUME ScheduleInv, ScheduleInv', PlaceInv, ProgressInv, Schedule
  PROVE  PlaceInv' /\ ProgressInv'
<1>1. /\ main = "schedule" /\ phase \in {"planned", "scheduling"} /\ wave = 0
      /\ \A i \in DOMAIN th : th[i] = "waiting"
      /\ DOMAIN th = Ids(steps) /\ ours
  BY DEF Schedule, PlaceInv, ProgressInv
<1>2. /\ phase' \in {"scheduling", "scheduled"}
      /\ UNCHANGED <<steps, ours, wave, th, stepStatus, reports>>
      /\ main' = IF phase' = "scheduled" THEN "save_scanning" ELSE main
  BY <1>1 DEF Schedule, StartSchedule, ScheduleWave, EndSchedule, Goto
<1>3. waves' \in Seq(SUBSET steps)
  BY <1>2 DEF ScheduleInv, WaveInv, Bookkeeping
<1>4. PlaceInv'
  BY <1>1, <1>2 DEF PlaceInv, NotPlanned, Executing, Over
<1>5. \A k \in DOMAIN waves' : WaveOf(k)'
  BY <1>1, <1>2, <1>3 DEF WaveOf, Ids
<1> QED BY <1>1, <1>2, <1>3, <1>4, <1>5 DEF ProgressInv

\* The next wave: its steps have waited.
LEMMA SubmitWaveKeeps == ASSUME ScheduleInv, PlaceInv, ProgressInv, SubmitWave PROVE PlaceInv' /\ ProgressInv'
<1>0. Bookkeeping
  BY DEF ScheduleInv, WaveInv
<1>1. /\ main = "next_wave" /\ main' = "join" /\ wave' = wave + 1 /\ wave' \in 1..Len(waves) /\ wave \in Nat
      /\ DOMAIN th' = DOMAIN th
      /\ \A i \in DOMAIN th : th'[i] = IF i \in Ids(waves[wave + 1]) THEN "entry" ELSE th[i]
      /\ UNCHANGED <<plannerVars, stepStatus, reports>>
      /\ phase = "scheduled"
  BY <1>0 DEF SubmitWave, Goto, Bookkeeping, PlaceInv, ProgressInv, Executing
<1>2. PlaceInv'
  BY <1>1 DEF PlaceInv, NotPlanned, Executing, Over, plannerVars
<1>3. waves \in Seq(SUBSET steps) /\ waves' = waves /\ Len(waves) \in Nat /\ DOMAIN waves = 1..Len(waves)
  BY <1>0, <1>1 DEF Bookkeeping, plannerVars
<1>4. ASSUME NEW k \in DOMAIN waves, NEW s \in waves[k] PROVE s.id \in DOMAIN th
  BY <1>3 DEF PlaceInv, Ids
<1>5. ASSUME NEW s \in steps, s.id \in Ids(waves[wave + 1]) PROVE th[s.id] = "waiting"
  <2>1. PICK t \in waves[wave + 1] : t.id = s.id
    BY <1>5 DEF Ids
  <2>2. wave + 1 \in DOMAIN waves
    BY <1>1, <1>3
  <2>3. WaveOf(wave + 1)
    BY <2>2 DEF ProgressInv
  <2> QED BY <1>1, <2>1, <2>3 DEF WaveOf
<1>6. ASSUME NEW k \in DOMAIN waves, NEW s \in waves[k]
      PROVE  (k < wave' => th'[s.id] = "collected") /\ (k > wave' => th'[s.id] = "waiting")
  <2>1. s \in steps /\ s.id \in DOMAIN th /\ WaveOf(k) /\ k \in Nat
    <3>1. k \in 1..Len(waves) /\ waves[k] \subseteq steps
      BY <1>3
    <3> QED BY <1>4, <3>1 DEF ProgressInv
  <2>2. k < wave' => th[s.id] = "collected"
    <3>1. k < wave => th[s.id] = "collected"
      BY <2>1 DEF WaveOf
    <3>2. k = wave => th[s.id] = "collected"
      BY <1>1, <1>3, <1>6 DEF ProgressInv, WaveOver
    <3> QED BY <1>1, <2>1, <3>1, <3>2
  <2>3. k > wave' => th[s.id] = "waiting" /\ s.id \notin Ids(waves[wave + 1])
    <3>1. k > wave' => k > wave /\ k # wave + 1
      BY <1>1, <2>1
    <3>2. k > wave' => th[s.id] = "waiting" /\ s \notin waves[wave + 1]
      BY <1>0, <1>1, <1>3, <2>1, <3>1 DEF WaveOf, Bookkeeping
    <3>3. \A t \in waves[wave + 1] : t.id = s.id => t = s
      BY <1>1, <1>3, <2>1 DEF ScheduleInv, PlanInv, PlaceInv, WellMade
    <3> QED BY <3>2, <3>3 DEF Ids
  <2> QED BY <1>1, <1>5, <2>1, <2>2, <2>3
<1>7. \A k \in DOMAIN waves' : WaveOf(k)'
  BY <1>3, <1>6 DEF WaveOf
<1>8. wave' \in 0..Len(waves') /\ wave' > 0
  BY <1>1, <1>3
<1> QED BY <1>1, <1>2, <1>7, <1>8, <1>3 DEF ProgressInv, plannerVars

\* Every step of a campaign keeps its order.
LEMMA OrderStep == OrderInv /\ [Next]_vars => OrderInv'
<1> SUFFICES ASSUME OrderInv, [Next]_vars PROVE OrderInv'
  OBVIOUS
<1>0. ScheduleInv /\ PlaceInv /\ ProgressInv /\ Bookkeeping
  BY DEF OrderInv, ScheduleInv, WaveInv
<1>1. ScheduleInv'
  BY <1>0, CampaignMovesPlanner, PlannerStep
<1>2. ASSUME MainStep PROVE PlaceInv' /\ ProgressInv'
  <2>1. CASE MakePlan
    BY <1>0, <2>1, MakePlanKeeps
  <2>2. CASE Schedule
    BY <1>0, <1>1, <2>2, ScheduleKeeps
  <2>3. CASE SubmitWave
    BY <1>0, <2>3, SubmitWaveKeeps
  <2>4. CASE \E s \in steps : Collect(s)
    BY <1>0, <2>4, CollectMoves, ThreadMoveKeeps, MainMoveKeeps
  <2>5. CASE Begin
    <3>1. MainMove("idle", "save_planning")
      BY <2>5 DEF Begin, Goto, MainMove
    <3> QED BY <1>0, <3>1, MainMoveKeeps
  <2>6. CASE Authorize
    <3>1. MainMove("authorize", "schedule") \/ MainMove("authorize", "raised")
      BY <2>6 DEF Authorize, Goto, MainMove
    <3> QED BY <1>0, <3>1, MainMoveKeeps DEF Over
  <2>7. CASE EndWave
    <3>1. MainMove("join", "next_wave") /\ WaveOver
      BY <2>7 DEF EndWave, Goto, MainMove
    <3> QED BY <1>0, <3>1, MainMoveKeeps
  <2>8. CASE Unwind
    <3>1. MainMove("unwind", "save_failed")
      BY <2>8 DEF Unwind, Goto, MainMove
    <3> QED BY <1>0, <3>1, MainMoveKeeps
  <2>9. CASE Finish
    <3>1. MainMove("next_wave", "save_done") /\ wave = Len(waves)
      BY <2>9 DEF Finish, Goto, MainMove
    <3> QED BY <1>0, <3>1, MainMoveKeeps
  <2>10. ASSUME NEW from, NEW to, SaveStatus(from, to) PROVE MainMove(from, to) \/ MainMove(from, "raised")
    BY <2>10 DEF SaveStatus, Goto, MainMove
  <2>11. ASSUME NEW from, NEW e, NEW to, LogMilestone(from, e, to)
         PROVE  MainMove(from, to) \/ MainMove(from, "raised")
    BY <2>11 DEF LogMilestone, Goto, MainMove
  <2>12. ASSUME NEW from, MainMove(from, "raised") PROVE PlaceInv' /\ ProgressInv'
    BY <1>0, <2>12, MainMoveKeeps DEF Over
  <2>13. CASE SavePlanning
    BY <1>0, <2>10, <2>12, <2>13, MainMoveKeeps DEF SavePlanning
  <2>14. CASE LogStart
    BY <1>0, <2>11, <2>12, <2>14, MainMoveKeeps DEF LogStart
  <2>15. CASE SaveScanning
    BY <1>0, <2>10, <2>12, <2>15, MainMoveKeeps DEF SaveScanning
  <2>16. CASE LogPlan
    BY <1>0, <2>11, <2>12, <2>16, MainMoveKeeps DEF LogPlan
  <2>17. CASE SaveDone
    BY <1>0, <2>10, <2>12, <2>17, MainMoveKeeps DEF SaveDone
  <2>18. CASE LogDone
    BY <1>0, <2>11, <2>12, <2>18, MainMoveKeeps DEF LogDone
  <2>19. CASE SaveFailed
    BY <1>0, <2>10, <2>12, <2>19, MainMoveKeeps DEF SaveFailed
  <2>20. CASE LogFailed
    BY <1>0, <2>11, <2>12, <2>20, MainMoveKeeps DEF LogFailed
  <2> QED BY <1>2, <2>1, <2>2, <2>3, <2>4, <2>5, <2>6, <2>7, <2>8, <2>9, <2>13, <2>14,
             <2>15, <2>16, <2>17, <2>18, <2>19, <2>20
          DEF MainStep
<1>3. ASSUME NEW s \in steps, ThreadStep(s) PROVE PlaceInv' /\ ProgressInv'
  BY <1>0, <1>3, ThreadStepMoves, ThreadMoveKeeps
<1>4. ASSUME Crash \/ Recover \/ UNCHANGED vars PROVE PlaceInv' /\ ProgressInv'
  <2>1. \E to \in Over \cup {main} : MainMove(main, to)
    BY <1>4 DEF Crash, Recover, vars, campaign, Goto, MainMove, Over
  <2> QED BY <1>0, <2>1, MainMoveKeeps
<1> QED BY <1>1, <1>2, <1>3, <1>4 DEF Next, OrderInv

\* At first there is nothing to execute.
LEMMA OrderStart == Init => OrderInv
<1> SUFFICES ASSUME Init PROVE OrderInv
  OBVIOUS
<1>1. ScheduleInv
  BY PlannerStart DEF Init
<1>2. Ids(steps) = {} /\ DOMAIN th = {} /\ DOMAIN stepStatus = {}
  BY DEF Init, PlannerInit, Ids
<1>3. PlaceInv
  BY <1>2 DEF Init, PlannerInit, PlaceInv, NotPlanned, Executing
<1>4. ProgressInv
  BY <1>2 DEF Init, PlannerInit, ProgressInv
<1> QED BY <1>1, <1>3, <1>4 DEF OrderInv

\* The waves of a campaign are executed one after the other: those before the
\* one in execution are over, those after it have not begun.
THEOREM CampaignInvariance == Spec => []OrderInv
<1> QED BY OrderStart, OrderStep, PTL DEF Spec

\* For all intelligence and every number of workers, whatever fails: _safe_run
\* begins for a step only when it is over for all it depends on.
THEOREM StepsRunInOrder == Spec => []StepsInOrder
<1>1. ASSUME OrderInv PROVE StepsInOrder
  <2> SUFFICES ASSUME NEW s \in steps, th[s.id] \in {"entry", "run", "ran", "erred"}, NEW d \in s.deps
               PROVE  th[d] = "collected"
    BY DEF StepsInOrder
  <2>1. /\ ScheduleInv /\ PlaceInv /\ ProgressInv /\ Bookkeeping /\ DependenciesFirst
    BY <1>1 DEF OrderInv, ScheduleInv, WaveInv
  <2>2. s.id \in DOMAIN th /\ phase = "scheduled"
    BY <2>1 DEF PlaceInv, ProgressInv, Ids
  <2>3. steps = Scheduled /\ ~forced /\ waves \in Seq(SUBSET steps)
    BY <2>1, <2>2 DEF ScheduleInv, PlanInv, PlaceInv, Bookkeeping
  <2>4. PICK k \in DOMAIN waves : s \in waves[k]
    BY <2>3 DEF Scheduled
  <2>5. k = wave /\ k \in Nat
    <3>1. WaveOf(k) /\ k \in Nat /\ wave \in Nat
      BY <2>1, <2>3, <2>4 DEF ProgressInv
    <3> QED BY <2>4, <3>1 DEF WaveOf
  <2>6. d \in Ids(UNION {waves[j] : j \in 1..(k - 1)})
    BY <2>1, <2>3, <2>4 DEF DependenciesFirst
  <2>7. PICK x \in UNION {waves[j] : j \in 1..(k - 1)} : x.id = d
    BY <2>6 DEF Ids
  <2>8. PICK j \in 1..(k - 1) : x \in waves[j]
    OBVIOUS
  <2>9. j \in DOMAIN waves /\ j < wave
    BY <2>3, <2>4, <2>5, <2>8
  <2> QED BY <2>1, <2>7, <2>8, <2>9 DEF ProgressInv, WaveOf
<1> QED BY <1>1, CampaignInvariance, PTL

\* A campaign that has not ended goes on, and one that has does not.
LEMMA EndStep == OrderInv /\ EndInv /\ [Next]_vars => EndInv'
<1> SUFFICES ASSUME OrderInv, EndInv, [Next]_vars PROVE EndInv'
  OBVIOUS
<1>0. ScheduleInv /\ PlaceInv /\ ProgressInv /\ Bookkeeping
  BY DEF OrderInv, ScheduleInv, WaveInv
<1>1. ASSUME {status, saved} \cap {"done", "failed"} = {}, status' \in {status, "planning", "scanning"},
             saved' \in {status, saved}
      PROVE  EndInv'
  BY <1>1 DEF EndInv
<1>2. ASSUME UNCHANGED th, status' \in {status, saved}, saved' \in {status, saved},
             main' \in Over \/ <<main, main'>> \in {<<"save_done", "log_done">>, <<"log_done", "returned">>,
                                                  <<"save_failed", "log_failed">>} \/ main' = main
      PROVE  EndInv'
  BY <1>2 DEF EndInv, Over
<1>3. main \in {"idle", "save_planning", "log_start", "plan", "authorize", "schedule", "save_scanning",
                "log_plan", "next_wave", "join", "unwind"} => {status, saved} \cap {"done", "failed"} = {}
  BY DEF EndInv, Over
<1>4. ASSUME MainStep PROVE EndInv'
  <2>1. CASE MakePlan
    BY <1>1, <1>3, <2>1 DEF MakePlan, store
  <2>2. CASE Schedule
    BY <1>1, <1>3, <2>2 DEF Schedule, store
  <2>3. CASE SubmitWave \/ Begin \/ Authorize \/ EndWave
    BY <1>1, <1>3, <2>3 DEF SubmitWave, Begin, Authorize, EndWave, store
  <2>4. CASE \E s \in steps : Collect(s)
    BY <1>1, <1>3, <2>4 DEF Collect, CollectException, LogEvent, LogRaises, store
  <2>5. CASE Unwind
    <3>1. /\ main = "unwind" /\ PoolIdle /\ status' = "failed" /\ main' = "save_failed"
          /\ UNCHANGED <<th, saved>> /\ saved \notin {"done", "failed"} /\ phase = "scheduled"
      BY <1>0, <1>3, <2>5 DEF Unwind, Goto, store, PlaceInv, Executing
    <3>2. ASSUME NEW i \in DOMAIN th PROVE th[i] \in Ended \cup {"waiting"}
      <4>1. PICK s \in steps : s.id = i
        BY <1>0 DEF PlaceInv, Ids
      <4>2. steps = Scheduled
        BY <1>0, <3>1 DEF ScheduleInv, PlanInv, Bookkeeping
      <4>3. PICK k \in DOMAIN waves : s \in waves[k]
        BY <4>2 DEF Scheduled
      <4>4. WaveOf(k) /\ k \in Nat /\ wave \in Nat
        BY <1>0, <4>3 DEF ProgressInv, Bookkeeping
      <4>5. k = wave => th[i] \in Ended
        BY <3>1, <4>1, <4>3 DEF PoolIdle
      <4>6. k # wave => th[i] \in {"collected", "waiting"}
        BY <4>1, <4>3, <4>4 DEF WaveOf
      <4> QED BY <4>5, <4>6 DEF Ended
    <3> QED BY <3>1, <3>2 DEF EndInv
  <2>6. CASE Finish
    <3>1. /\ main = "next_wave" /\ wave = Len(waves) /\ status' = "done" /\ main' = "save_done"
          /\ UNCHANGED <<th, saved>> /\ saved \notin {"done", "failed"} /\ phase = "scheduled"
      BY <1>0, <1>3, <2>6 DEF Finish, Goto, store, PlaceInv, Executing
    <3>2. ASSUME NEW i \in DOMAIN th PROVE th[i] = "collected"
      <4>1. PICK s \in steps : s.id = i
        BY <1>0 DEF PlaceInv, Ids
      <4>2. steps = Scheduled /\ waves \in Seq(SUBSET steps)
        BY <1>0, <3>1 DEF ScheduleInv, PlanInv, Bookkeeping
      <4>3. PICK k \in DOMAIN waves : s \in waves[k]
        BY <4>2 DEF Scheduled
      <4>4. WaveOf(k) /\ k \in 1..Len(waves) /\ Len(waves) \in Nat /\ (wave > 0 => WaveOver)
        BY <1>0, <3>1, <4>2, <4>3 DEF ProgressInv
      <4>5. k = wave \/ k < wave
        BY <3>1, <4>4
      <4> QED BY <4>1, <4>3, <4>4, <4>5 DEF WaveOf, WaveOver
    <3> QED BY <3>1, <3>2 DEF EndInv
  <2>7. CASE SavePlanning \/ SaveScanning
    BY <1>1, <1>3, <2>7 DEF SavePlanning, SaveScanning, SaveStatus, Save, SaveRaises
  <2>8. CASE SaveDone \/ SaveFailed
    BY <1>2, <2>8 DEF SaveDone, SaveFailed, SaveStatus, Save, SaveRaises, Goto, Over
  <2>9. CASE LogStart \/ LogPlan
    BY <1>1, <1>3, <2>9 DEF LogStart, LogPlan, LogMilestone, LogEvent, LogRaises
  <2>10. CASE LogDone \/ LogFailed
    BY <1>2, <2>10 DEF LogDone, LogFailed, LogMilestone, LogEvent, LogRaises, Goto, Over
  <2> QED BY <1>4, <2>1, <2>2, <2>3, <2>4, <2>5, <2>6, <2>7, <2>8, <2>9, <2>10 DEF MainStep
<1>5. ASSUME NEW s \in steps, ThreadStep(s) PROVE EndInv'
  <2>1. s.id \in DOMAIN th /\ th[s.id] \in {"entry", "run", "ran", "erred"}
    BY <1>0, <1>5 DEF PlaceInv, Ids, ThreadStep, ReportMissing, StartStep, RunnerReturns, RunnerRaises, LogStepDone,
                      LogStepFailed
  <2>2. UNCHANGED <<status, saved>>
    BY <1>5 DEF ThreadStep, ReportMissing, StartStep, RunnerReturns, RunnerRaises, LogStepDone, LogStepFailed,
                ThreadFrame, LogEvent, LogRaises, store
  <2>3. {status, saved} \cap {"done", "failed"} = {}
    BY <2>1 DEF EndInv, Ended
  <2> QED BY <1>1, <2>2, <2>3
<1>6. ASSUME Crash \/ Recover \/ UNCHANGED vars PROVE EndInv'
  BY <1>2, <1>6 DEF Crash, Recover, LogEvent, LogRaises, Goto, vars, campaign, store, Over
<1> QED BY <1>4, <1>5, <1>6 DEF Next

\* For all intelligence, whatever fails and wherever the process dies: a campaign
\* on record as failed has no thread in a runner, and one on record as done has
\* executed every step and taken every result.
THEOREM EndedMeansOver == Spec => []EndedIsOver
<1>1. Init => EndInv
  BY DEF Init, EndInv
<1>2. EndInv => EndedIsOver
  BY DEF EndInv, EndedIsOver, Ended
<1> QED BY <1>1, <1>2, EndStep, CampaignInvariance, PTL DEF Spec

\* The name and the step of an event are its own.
LEMMA EventFields ==
  /\ \A n, i : Event(n, i).event = n /\ Event(n, i).step = i
  /\ \A n, m, i, j : Event(n, i) = Event(m, j) => n = m /\ i = j
BY DEF Event

\* A step that touches the records of one campaign step only.
LEMMA AuditOne ==
  ASSUME AuditInv, NEW i \in DOMAIN th, DOMAIN th' = DOMAIN th,
         \/ acks' = acks
         \/ \E n : acks' = acks \cup {Event(n, i)},
         \A j \in DOMAIN th : j # i => /\ th'[j] = th[j] /\ stepStatus'[j] = stepStatus[j]
                                       /\ j \in reports' <=> j \in reports,
         Recorded(i)'
  PROVE  AuditInv'
<1>1. ASSUME NEW j \in DOMAIN th, j # i PROVE Recorded(j)'
  <2>1. Recorded(j)
    BY DEF AuditInv
  <2>2. \A n : Event(n, j) \in acks' <=> Event(n, j) \in acks
    BY <1>1, EventFields
  <2> QED BY <1>1, <2>1, <2>2 DEF Recorded, Unlogged, LoggedAs, Logged
<1>2. \A e \in acks' : e \in acks \/ \E n : e = Event(n, i)
  OBVIOUS
<1>3. ASSUME NEW e \in acks', e.event \in {"step_done", "step_failed", "module_missing"}
      PROVE  e.step \in DOMAIN th' /\ e = Event(e.event, e.step)
  BY <1>2, <1>3, EventFields DEF AuditInv
<1> QED BY <1>1, <1>3 DEF AuditInv

\* A step that touches no records but the log, which no outcome is added to.
LEMMA AuditFrame ==
  ASSUME AuditInv, UNCHANGED <<th, stepStatus, reports>>,
         \/ acks' = acks
         \/ \E n, i : /\ n \notin {"step_done", "step_failed", "module_missing"}
                     /\ acks' = acks \cup {Event(n, i)}
  PROVE  AuditInv'
<1>1. \A m \in {"step_done", "step_failed", "module_missing"} : \A j :
        Event(m, j) \in acks' <=> Event(m, j) \in acks
  BY EventFields
<1>2. ASSUME NEW j \in DOMAIN th PROVE Recorded(j)'
  <2>1. Recorded(j)
    BY DEF AuditInv
  <2> QED BY <1>1, <2>1 DEF Recorded, Unlogged, LoggedAs, Logged
<1>3. ASSUME NEW e \in acks', e.event \in {"step_done", "step_failed", "module_missing"}
      PROVE  e \in acks
  BY <1>3, EventFields
<1> QED BY <1>2, <1>3 DEF AuditInv

\* log_event for step i: afterwards this event, and no other, is there as well.
LEMMA LogOne ==
  ASSUME NEW n, NEW i, LogEvent(Event(n, i))
  PROVE  /\ acks' = acks \cup {Event(n, i)}
         /\ Logged(n, i)'
         /\ \A m : m # n => (Logged(m, i)' <=> Logged(m, i))
BY EventFields DEF LogEvent, Logged

\* A log_event that raises adds nothing.
LEMMA LogNone ==
  ASSUME NEW e, LogRaises(e)
  PROVE  acks' = acks /\ \A m, i : Logged(m, i)' <=> Logged(m, i)
BY DEF LogRaises, Logged

\* _safe_run keeps the records of its step in agreement.
LEMMA AuditThread == ASSUME PlaceInv, AuditInv, NEW s \in steps, ThreadStep(s) PROVE AuditInv'
<1> DEFINE i == s.id
<1>1. i \in DOMAIN th /\ i \in DOMAIN stepStatus /\ DOMAIN th = DOMAIN stepStatus
  BY DEF PlaceInv, Ids
<1>2. Recorded(i)
  BY <1>1 DEF AuditInv
<1> HIDE DEF i
<1>3. /\ DOMAIN th' = DOMAIN th /\ reports' = reports
      /\ \A j \in DOMAIN th : j # i => th'[j] = th[j] /\ stepStatus'[j] = stepStatus[j]
  BY <1>1 DEF ThreadStep, ReportMissing, StartStep, RunnerReturns, RunnerRaises, LogStepDone, LogStepFailed,
       ThreadGoto, Mark, ThreadFrame, store, i
<1>4. acks' = acks \/ \E n : acks' = acks \cup {Event(n, i)}
  BY DEF ThreadStep, ReportMissing, StartStep, RunnerReturns, RunnerRaises, LogStepDone, LogStepFailed,
       LogEvent, LogRaises, store, i
<1>5. Recorded(i)'
  <2>1. CASE ReportMissing(s)
    BY <1>1, <1>2, <2>1, LogOne, LogNone
    DEF ReportMissing, ThreadGoto, ThreadFrame, Recorded, Unlogged, LoggedAs, i
  <2>2. CASE StartStep(s)
    BY <1>1, <1>2, <2>2, LogOne, LogNone
    DEF StartStep, ThreadGoto, Mark, ThreadFrame, Recorded, Unlogged, LoggedAs, i
  <2>3. CASE RunnerReturns(s) \/ RunnerRaises(s)
    BY <1>1, <1>2, <2>3
    DEF RunnerReturns, RunnerRaises, ThreadGoto, Mark, ThreadFrame, store, Recorded, Unlogged, LoggedAs, Logged, i
  <2>4. CASE LogStepDone(s)
    BY <1>1, <1>2, <2>4, LogOne, LogNone
    DEF LogStepDone, ThreadGoto, Mark, ThreadFrame, Recorded, Unlogged, LoggedAs, i
  <2>5. CASE LogStepFailed(s)
    BY <1>1, <1>2, <2>5, LogOne, LogNone
    DEF LogStepFailed, ThreadGoto, ThreadFrame, Recorded, Unlogged, LoggedAs, i
  <2> QED BY <2>1, <2>2, <2>3, <2>4, <2>5 DEF ThreadStep
<1> QED BY <1>1, <1>3, <1>4, <1>5, AuditOne

\* So does _run_wave, which takes the result or marks the step that raised.
LEMMA AuditCollect == ASSUME PlaceInv, AuditInv, NEW s \in steps, Collect(s) PROVE AuditInv'
<1> DEFINE i == s.id
<1>1. i \in DOMAIN th /\ i \in DOMAIN stepStatus /\ DOMAIN th = DOMAIN stepStatus
  BY DEF PlaceInv, Ids
<1>2. Recorded(i)
  BY <1>1 DEF AuditInv
<1> HIDE DEF i
<1>3. /\ DOMAIN th' = DOMAIN th
      /\ \A j \in DOMAIN th : j # i => /\ th'[j] = th[j] /\ stepStatus'[j] = stepStatus[j]
                                       /\ j \in reports' <=> j \in reports
  BY <1>1 DEF Collect, CollectException, store, i
<1>4. acks' = acks \/ \E n : acks' = acks \cup {Event(n, i)}
  BY DEF Collect, CollectException, LogEvent, LogRaises, store, i
<1>5. Recorded(i)'
  <2>1. CASE th[i] \in {"returned", "none"}
    <3>1. acks' = acks /\ stepStatus' = stepStatus /\ th'[i] = "collected"
          /\ (reports' = reports \/ (th[i] = "returned" /\ reports' = reports \cup {i}))
      BY <1>1, <2>1 DEF Collect, CollectException, store, i
    <3> QED BY <1>1, <1>2, <2>1, <3>1 DEF Recorded, Unlogged, LoggedAs, Logged
  <2>2. CASE th[i] = "exc"
    BY <1>1, <1>2, <2>2, LogOne, LogNone DEF Collect, CollectException, Recorded, Unlogged, LoggedAs, i
  <2> QED BY <2>1, <2>2 DEF Collect, CollectException, i
<1> QED BY <1>1, <1>3, <1>4, <1>5, AuditOne

\* Every step of a campaign keeps its records in agreement.
LEMMA AuditStep == OrderInv /\ AuditInv /\ [Next]_vars => AuditInv'
<1> SUFFICES ASSUME OrderInv, AuditInv, [Next]_vars PROVE AuditInv'
  OBVIOUS
<1>0. ScheduleInv /\ PlaceInv /\ ProgressInv /\ Bookkeeping
  BY DEF OrderInv, ScheduleInv, WaveInv
<1>1. ASSUME MainStep PROVE AuditInv'
  <2>1. CASE MakePlan
    <3>1. main = "plan" /\ phase = "idle" /\ steps = {}
      BY <1>0, <2>1 DEF MakePlan, PlaceInv, NotPlanned
    <3>2. reports' = {}
      BY <1>0, <2>1, <3>1 DEF MakePlan, PlaceInv, Ids
    <3>3. DOMAIN th = {} /\ acks' = acks
      BY <1>0, <2>1, <3>1 DEF MakePlan, PlaceInv, Ids, store
    <3>4. \A e \in acks : e.event \notin {"step_done", "step_failed", "module_missing"}
      BY <3>3 DEF AuditInv
    <3>5. \A n \in {"step_done", "step_failed", "module_missing"} : \A j : Event(n, j) \notin acks
      BY <3>4, EventFields
    <3> QED BY <2>1, <3>2, <3>3, <3>4, <3>5 DEF MakePlan, AuditInv, Recorded, Unlogged, Logged
  <2>2. CASE SubmitWave
    <3>1. wave + 1 \in DOMAIN waves /\ DOMAIN th' = DOMAIN th /\ waves \in Seq(SUBSET steps) /\ wave \in Nat
      BY <1>0, <2>2 DEF SubmitWave, ProgressInv, Bookkeeping
    <3>2. \A i \in Ids(waves[wave + 1]) : th[i] = "waiting"
      <4>1. WaveOf(wave + 1)
        BY <1>0, <3>1 DEF ProgressInv
      <4> QED BY <3>1, <4>1 DEF WaveOf, Ids
    <3>3. ASSUME NEW i \in DOMAIN th PROVE Recorded(i)'
      <4>1. Recorded(i)
        BY DEF AuditInv
      <4>2. th' = [j \in DOMAIN th |-> IF j \in Ids(waves[wave + 1]) THEN "entry" ELSE th[j]]
        BY <2>2 DEF SubmitWave
      <4>3. th'[i] = th[i] \/ (th[i] = "waiting" /\ th'[i] = "entry")
        BY <3>2, <4>2
      <4> QED BY <2>2, <4>1, <4>3 DEF SubmitWave, store, Recorded, Unlogged, LoggedAs, Logged
    <3> QED BY <2>2, <3>1, <3>3 DEF SubmitWave, store, AuditInv
  <2>3. CASE \E s \in steps : Collect(s)
    BY <1>0, <2>3, AuditCollect
  <2>4. CASE Begin \/ Authorize \/ Schedule \/ EndWave \/ Unwind \/ Finish
    BY <2>4, AuditFrame DEF Begin, Authorize, Schedule, EndWave, Unwind, Finish, store
  <2>5. CASE SavePlanning \/ SaveScanning \/ SaveDone \/ SaveFailed
    BY <2>5, AuditFrame DEF SavePlanning, SaveScanning, SaveDone, SaveFailed, SaveStatus, Save, SaveRaises
  <2>6. CASE LogStart \/ LogPlan \/ LogDone \/ LogFailed
    <3>1. UNCHANGED <<th, stepStatus, reports>>
      BY <2>6 DEF LogStart, LogPlan, LogDone, LogFailed, LogMilestone
    <3>2. \/ acks' = acks
          \/ \E n \in {"campaign_start", "plan_built", "campaign_done", "campaign_failed"} :
               acks' = acks \cup {Event(n, 0)}
      BY <2>6 DEF LogStart, LogPlan, LogDone, LogFailed, LogMilestone, LogEvent, LogRaises
    <3> QED BY <3>1, <3>2, AuditFrame
  <2> QED BY <1>1, <2>1, <2>2, <2>3, <2>4, <2>5, <2>6 DEF MainStep
<1>2. ASSUME NEW s \in steps, ThreadStep(s) PROVE AuditInv'
  BY <1>0, <1>2, AuditThread
<1>3. ASSUME Crash \/ Recover \/ UNCHANGED vars PROVE AuditInv'
  <2>1. UNCHANGED <<th, stepStatus, reports>>
    BY <1>3 DEF Crash, Recover, vars, campaign
  <2>2. acks' = acks \/ acks' = acks \cup {Event("campaign_recovered", 0)}
    BY <1>3 DEF Crash, Recover, LogEvent, LogRaises, vars, store
  <2> QED BY <2>1, <2>2, AuditFrame
<1> QED BY <1>1, <1>2, <1>3 DEF Next

\* log_event that returns: the event that an unended line costs now counts as lost.
LEMMA LogEventKeeps == ASSUME TearInv, NEW e, LogEvent(e), Crashes' = Crashes PROVE TearInv'
<1> DEFINE lost == acks \ log
           bound == faults + Crashes
<1>1. /\ log \subseteq acks /\ IsFiniteSet(acks) /\ faults \in Nat
      /\ Cardinality(lost) + Pending <= bound /\ bound \in Nat
  BY DEF TearInv, Crashes
<1>2. acks' = acks \cup {e} /\ faults' = faults /\ tail' = {} /\ bound' = bound /\ log' = IF tail = {} THEN log \cup {e} ELSE log
  BY DEF LogEvent
<1>3. IsFiniteSet(lost) /\ Cardinality(lost) \in Nat /\ IsFiniteSet(acks') /\ log' \subseteq acks'
  BY <1>1, <1>2, FS_Subset, FS_CardinalityType, FS_AddElement
<1>4. IsFiniteSet(lost') /\ Cardinality(lost') \in Nat
  BY <1>3, FS_Subset, FS_CardinalityType
<1>5. Cardinality(lost') <= Cardinality(lost) + Pending
  <2>1. CASE tail = {}
    <3>1. lost' \subseteq lost
      BY <1>2, <2>1
    <3>2. Cardinality(lost') <= Cardinality(lost)
      BY <1>3, <3>1, FS_Subset
    <3> HIDE DEF lost
    <3> QED BY <1>3, <1>4, <2>1, <3>2 DEF Pending
  <2>2. CASE tail # {}
    <3>1. lost' \subseteq lost \cup {e}
      BY <1>2, <2>2
    <3>2. /\ IsFiniteSet(lost \cup {e}) /\ Cardinality(lost \cup {e}) <= Cardinality(lost) + 1
          /\ Cardinality(lost \cup {e}) \in Nat
      <4>1. /\ IsFiniteSet(lost \cup {e})
            /\ Cardinality(lost \cup {e}) = IF e \in lost THEN Cardinality(lost) ELSE Cardinality(lost) + 1
        BY <1>3, FS_AddElement
      <4>2. Cardinality(lost \cup {e}) \in Nat
        BY <4>1, FS_CardinalityType
      <4> HIDE DEF lost
      <4> QED BY <1>3, <4>1, <4>2
    <3>3. Cardinality(lost') <= Cardinality(lost \cup {e})
      BY <3>1, <3>2, FS_Subset
    <3> HIDE DEF lost
    <3> QED BY <1>3, <1>4, <2>2, <3>2, <3>3 DEF Pending
  <2> QED BY <2>1, <2>2
<1>6. Cardinality(lost') + Pending' <= bound'
  <2>1. Pending' = 0 /\ Pending \in Nat
    BY <1>2 DEF Pending
  <2> HIDE DEF lost, bound
  <2> QED BY <1>1, <1>2, <1>3, <1>4, <1>5, <2>1
<1> QED BY <1>1, <1>2, <1>3, <1>6 DEF TearInv

\* Room for one more.
LEMMA Room == \A x, p, q, b : x \in Nat /\ p \in 0..1 /\ q \in 0..1 /\ b \in Nat /\ x + p <= b => x + q <= b + 1
OBVIOUS

\* A write that is cut short leaves at most an unended line, and that is counted.
LEMMA TearKeeps ==
  ASSUME TearInv, log' = log, acks' = acks,
         \/ faults' = faults + 1 /\ Crashes' = Crashes
         \/ faults' = faults /\ Crashes' = Crashes + 1
  PROVE  TearInv'
<1> DEFINE n == Cardinality(acks \ log)
<1>1. n \in Nat /\ n' = n
  BY FS_Subset, FS_CardinalityType DEF TearInv
<1>2. Pending \in 0..1 /\ Pending' \in 0..1
  BY DEF Pending
<1>3. faults \in Nat /\ Crashes \in Nat
  BY DEF TearInv, Crashes
<1>4. n + Pending <= faults + Crashes
  BY DEF TearInv
<1>5. faults' \in Nat /\ faults' + Crashes' = (faults + Crashes) + 1 /\ faults + Crashes \in Nat
  BY <1>3
<1> HIDE DEF n
<1>6. n' + Pending' <= (faults + Crashes) + 1
  BY <1>1, <1>2, <1>4, <1>5, Room
<1>7. n' + Pending' <= faults' + Crashes'
  BY <1>5, <1>6
<1> QED BY <1>5, <1>7 DEF TearInv, n

\* Every step of a campaign, by what it does to the log.
LEMMA TearStep == TearInv /\ [Next]_vars => TearInv'
<1> SUFFICES ASSUME TearInv, [Next]_vars PROVE TearInv'
  OBVIOUS
<1> DEFINE Down == main \in {"down", "recovered"}
<1>2. ASSUME Down' <=> Down PROVE Crashes' = Crashes /\ Crashes \in Nat
  BY <1>2 DEF Crashes
<1>3. ASSUME NEW e, LogEvent(e), Down' <=> Down PROVE TearInv'
  BY <1>2, <1>3, LogEventKeeps
<1>4. ASSUME NEW e, LogRaises(e), Down' <=> Down PROVE TearInv'
  <2>1. faults' = faults + 1 /\ Crashes' = Crashes /\ log' = log /\ acks' = acks
    BY <1>2, <1>4 DEF LogRaises, WriteStops
  <2> QED BY <2>1, TearKeeps
<1>5. ASSUME UNCHANGED <<log, tail, acks>>, faults' \in {faults, faults + 1}, Down' <=> Down PROVE TearInv'
  <2>1. Crashes' = Crashes /\ Crashes \in Nat /\ faults \in Nat
    BY <1>2, <1>5 DEF TearInv
  <2>2. Cardinality(acks \ log) \in Nat /\ Pending \in Nat
    BY FS_Subset, FS_CardinalityType DEF TearInv, Pending
  <2> DEFINE used == Cardinality(acks \ log) + Pending
  <2>3. used' = used /\ used \in Nat /\ used <= faults + Crashes
    BY <1>5, <2>2 DEF TearInv, Pending
  <2>4. used' <= (faults + Crashes)'
    <3>1. \A u, f, g, c \in Nat : u <= f + c /\ g \in {f, f + 1} => u <= g + c
      OBVIOUS
    <3>2. faults' \in {faults, faults + 1} /\ faults' \in Nat
      BY <1>5, <2>1
    <3> HIDE DEF used, Crashes, Down
    <3> QED BY <2>1, <2>3, <3>1, <3>2
  <2>5. faults' \in Nat
    BY <1>5, <2>1
  <2> QED BY <1>5, <2>4, <2>5 DEF TearInv
<1>6. ASSUME MainStep PROVE TearInv'
  <2>1. CASE SavePlanning \/ SaveScanning \/ SaveDone \/ SaveFailed
    BY <1>5, <2>1 DEF SavePlanning, SaveScanning, SaveDone, SaveFailed, SaveStatus, Save, SaveRaises, Goto
  <2>2. ASSUME NEW from \in {"log_start", "log_plan", "log_done", "log_failed"},
               NEW to \in {"plan", "next_wave", "returned", "raised"},
               NEW e \in {"campaign_start", "plan_built", "campaign_done", "campaign_failed"},
               LogMilestone(from, e, to)
        PROVE  TearInv'
    <3>1. Down' <=> Down
      BY <2>2 DEF LogMilestone, Goto
    <3>2. LogEvent(Event(e, 0)) \/ LogRaises(Event(e, 0))
      BY <2>2 DEF LogMilestone
    <3> QED BY <1>3, <1>4, <3>1, <3>2
  <2>3. CASE LogStart \/ LogPlan \/ LogDone \/ LogFailed
    BY <2>2, <2>3 DEF LogStart, LogPlan, LogDone, LogFailed
  <2>4. CASE \E s \in steps : Collect(s)
    <3>1. PICK s \in steps : Collect(s)
      BY <2>4
    <3>2. Down' <=> Down
      BY <3>1 DEF Collect, CollectException, Goto
    <3>3. \/ \E e : LogEvent(e) \/ LogRaises(e)
          \/ UNCHANGED <<log, tail, acks, faults>>
      BY <3>1 DEF Collect, CollectException, store
    <3> QED BY <1>3, <1>4, <1>5, <3>2, <3>3
  <2>5. CASE MakePlan \/ Schedule
    BY <1>5, <2>5 DEF MakePlan, Schedule, Goto, store
  <2>6. CASE Begin \/ Authorize \/ SubmitWave \/ EndWave \/ Unwind \/ Finish
    BY <1>5, <2>6 DEF Begin, Authorize, SubmitWave, EndWave, Unwind, Finish, Goto, store
  <2> QED BY <1>6, <2>1, <2>3, <2>4, <2>5, <2>6 DEF MainStep
<1>7. ASSUME NEW s \in steps, ThreadStep(s) PROVE TearInv'
  <2>1. Down' <=> Down
    BY <1>7 DEF ThreadStep, ReportMissing, StartStep, RunnerReturns, RunnerRaises, LogStepDone, LogStepFailed,
                ThreadFrame
  <2>2. \/ \E e : LogEvent(e) \/ LogRaises(e)
        \/ UNCHANGED <<log, tail, acks, faults>>
    BY <1>7 DEF ThreadStep, ReportMissing, StartStep, RunnerReturns, RunnerRaises, LogStepDone, LogStepFailed, store
  <2> QED BY <1>3, <1>4, <1>5, <2>1, <2>2
<1>8. CASE Crash
  <2>1. faults' = faults /\ Crashes' = Crashes + 1 /\ log' = log /\ acks' = acks
    BY <1>8 DEF Crash, Alive, Goto, Crashes, WriteStops
  <2> QED BY <2>1, TearKeeps
<1>9. CASE Recover
  <2>1. Down' <=> Down
    BY <1>9 DEF Recover, Goto
  <2>2. LogEvent(Event("campaign_recovered", 0)) \/ LogRaises(Event("campaign_recovered", 0))
    BY <1>9 DEF Recover
  <2> QED BY <1>3, <1>4, <2>1, <2>2
<1>10. CASE UNCHANGED vars
  BY <1>5, <1>10 DEF vars, campaign, store
<1> QED BY <1>6, <1>7, <1>8, <1>9, <1>10 DEF Next

\* The bookkeeping of torn lines is an invariant.
LEMMA TearInvariance == Spec => []TearInv
<1>1. Init => TearInv
  <2> SUFFICES ASSUME Init PROVE TearInv
    OBVIOUS
  <2>1. log = {} /\ tail = {} /\ acks = {} /\ faults = 0 /\ main = "idle"
    BY DEF Init
  <2>2. Cardinality(acks \ log) = 0 /\ IsFiniteSet(acks)
    BY <2>1, FS_EmptySet
  <2> QED BY <2>1, <2>2 DEF TearInv, Pending, Crashes
<1> QED BY <1>1, TearStep, PTL DEF Spec

\* However many writes fail, wherever the process dies, and however often
\* recovery is tried: read_log misses, of the events whose log_event returned, at
\* most one for each write that failed and one for the crash.
THEOREM TearsAreBounded == Spec => []TearCostsOneEvent
<1>1. TearInv => TearCostsOneEvent
  <2> SUFFICES ASSUME TearInv PROVE TearCostsOneEvent
    OBVIOUS
  <2>1. acks \ ReadLog \subseteq acks \ log /\ IsFiniteSet(acks \ log)
    BY FS_Subset DEF TearInv, ReadLog
  <2>2. /\ Cardinality(acks \ ReadLog) <= Cardinality(acks \ log)
        /\ Cardinality(acks \ ReadLog) \in Nat /\ Cardinality(acks \ log) \in Nat
    BY <2>1, FS_Subset, FS_CardinalityType
  <2>3. Cardinality(acks \ log) + Pending <= faults + Crashes /\ faults + Crashes \in Nat /\ Pending \in Nat
    BY DEF TearInv, Pending, Crashes
  <2> QED BY <2>2, <2>3 DEF TearCostsOneEvent
<1> QED BY <1>1, TearInvariance, PTL

\* The steps whose outcome cannot be read back are no more than the events that
\* are lost: the outcome of each is one of those, and they are all different.
LEMMA UnreadableAreLost == ASSUME AuditInv, TearInv PROVE Cardinality(Unreadable) <= faults + Crashes
<1> DEFINE f == [i \in Unreadable |-> Outcome(i)]
           lost == acks \ log
<1>1. ASSUME NEW i \in Unreadable PROVE Outcome(i) \in lost /\ Outcome(i).step = i
  <2>1. i \in DOMAIN th /\ th[i] = "collected" /\ Outcome(i) \notin log
    BY DEF Unreadable, ReadLog
  <2>2. Recorded(i)
    BY <2>1 DEF AuditInv
  <2>3. Outcome(i) \in acks
    BY <2>1, <2>2 DEF Recorded, LoggedAs, Logged, Outcome
  <2> QED BY <2>1, <2>3, EventFields DEF Outcome
<1>2. f \in [Unreadable -> lost]
  BY <1>1
<1>3. \A i, j \in Unreadable : f[i] = f[j] => i = j
  BY <1>1
<1>4. f \in Injection(Unreadable, lost)
  BY <1>2, <1>3, Zenon DEF Injection, IsInjective
<1>5. IsFiniteSet(lost)
  BY FS_Subset DEF TearInv
<1> HIDE DEF f, lost
<1>6. Cardinality(Unreadable) <= Cardinality(lost) /\ IsFiniteSet(Unreadable)
  BY <1>4, <1>5, FS_Injection
<1>7. Cardinality(Unreadable) \in Nat /\ Cardinality(lost) \in Nat
  BY <1>5, <1>6, FS_CardinalityType
<1>8. Cardinality(lost) + Pending <= faults + Crashes /\ faults + Crashes \in Nat /\ Pending \in Nat
  BY DEF TearInv, Pending, Crashes, lost
<1> QED BY <1>6, <1>7, <1>8

\* Whatever writes of the store fail, and in whatever order the threads, the main
\* thread and a crash come: no ended line that read_log returns says of a step what
\* it is not, results are kept of done steps only, every step that is over had
\* its outcome logged, and no more outcomes are unreadable than writes were cut.
THEOREM AuditTrailAgrees == Spec => []AuditAgrees
<1>1. Init => AuditInv
  BY DEF Init, AuditInv
<1>2. ASSUME PlaceInv, AuditInv, TearInv PROVE AuditAgrees
  <2>1. ASSUME NEW e \in ReadLog \ tail, e.event \in {"step_done", "step_failed", "module_missing"}
        PROVE  e = Outcome(e.step)
    <3>1. e \in acks
      BY <1>2 DEF ReadLog, TearInv
    <3>2. e.step \in DOMAIN th /\ e = Event(e.event, e.step) /\ Logged(e.event, e.step)
      BY <1>2, <2>1, <3>1 DEF AuditInv, Logged
    <3>3. Recorded(e.step)
      BY <1>2, <3>2 DEF AuditInv
    <3> DEFINE n == e.event
               i == e.step
    <3>4. e = Event(n, i) /\ Logged(n, i) /\ Recorded(i) /\ n \in {"step_done", "step_failed", "module_missing"}
      BY <2>1, <3>2, <3>3
    <3> HIDE DEF n, i
    <3>5. \/ LoggedAs(i, "done", "step_done")
          \/ LoggedAs(i, "failed", "step_failed")
          \/ LoggedAs(i, "pending", "module_missing")
      BY <3>4 DEF Recorded, Unlogged
    <3>6. e = Outcome(i)
      BY <3>4, <3>5 DEF LoggedAs, Outcome
    <3> QED BY <3>6 DEF i
  <2>2. \A i \in reports : th[i] = "collected" /\ stepStatus[i] = "done"
    BY <1>2 DEF AuditInv, Recorded, PlaceInv
  <2>3. ASSUME NEW i \in DOMAIN th, th[i] = "collected" PROVE Outcome(i) \in acks
    <3>1. Recorded(i)
      BY <1>2 DEF AuditInv
    <3> QED BY <2>3, <3>1 DEF Recorded, LoggedAs, Logged, Outcome
  <2> QED BY <1>2, <2>1, <2>2, <2>3, UnreadableAreLost DEF AuditAgrees
<1>3. OrderInv => PlaceInv
  BY DEF OrderInv
<1>4. Spec => []AuditInv
  BY <1>1, AuditStep, CampaignInvariance, PTL DEF Spec
<1> QED BY <1>2, <1>3, <1>4, CampaignInvariance, TearInvariance, PTL
=============================================================================
