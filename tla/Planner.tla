------------------------------ MODULE Planner ------------------------------
(***************************************************************************)
(* core/planner.py: from intelligence items to plan steps, and from steps  *)
(* to the waves the orchestrator executes.                                 *)
(*                                                                         *)
(* An intelligence item is the module it names, the priority it asks for   *)
(* (0 when it names none), and whether it asks for ports.  "plugin" stands *)
(* for any module the planner does not know, "nameless" for an item        *)
(* without a "module" entry.  A plan is a set of steps: plan() sorts its   *)
(* list by (priority, step_id), and that order is all schedule() takes     *)
(* from it.                                                                *)
(***************************************************************************)
EXTENDS Integers, Sequences, FiniteSets

CONSTANTS Intel,          \* the intelligence lists plan() may be given
          Documents,      \* the plans from_json() may be given, each step with an id of its own
          MaxConcurrency, \* Planner(max_concurrency)
          MaxPlans        \* bound on the plans made with one Planner

\* Orchestrator passes its max_workers, 8 unless the caller says otherwise.
\* (With 0 or less schedule() would put no step in any wave, for ever.)
ASSUME PlannerAssumption ==
  /\ MaxConcurrency \in Nat \ {0}
  /\ MaxPlans \in Nat

Modules == {"stealth", "discovery", "asset", "recon", "plugin", "collector"}
Items == [module : Modules \cup {"exfil", "nameless"}, priority : Int, ports : {"none", "inside", "outside"}]

ASSUME InputAssumption ==
  /\ \A intel \in Intel : intel \in Seq(Items)
  /\ \A doc \in Documents : \A a, b \in doc : a.id = b.id => a = b

Step == [id : Nat \ {0}, module : Modules, priority : Int, deps : SUBSET Nat,
         ports : {"none", "inside", "outside"}]

VARIABLES
  counter,   \* self._step_counter
  steps,     \* the plan
  remaining, \* schedule(): the steps in no wave yet
  done,      \* schedule(): the ids of the steps that are in a wave
  waves,     \* schedule(): the waves so far
  phase,     \* "idle", "planned", "scheduling", "scheduled", "raised"
  \* History, read by no operation:
  ours,      \* the plan comes from plan(), not from from_json()
  forced,    \* schedule() took its deadlock branch
  plans      \* number of plans so far

plannerVars == <<counter, steps, remaining, done, waves, phase, ours, forced, plans>>

-----------------------------------------------------------------------------
(***************************************************************************)
(* plan()                                                                  *)
(***************************************************************************)
Default == [stealth |-> 5, discovery |-> 10, asset |-> 15, recon |-> 20,
            plugin |-> 25, collector |-> 40]

\* ports: the item asks for ports, outside the scope or not.
Item(m, p) == [module |-> m, priority |-> p, ports |-> "none"]
ItemWithPorts(m, which) == [module |-> m, priority |-> 0, ports |-> which]

\* _canonical_module: "exfil" is the retired name of the collector.
Canonical(m) == IF m = "exfil" THEN "collector" ELSE m

\* The items that name one of these modules, in their order: the n-th has
\* n - 1 of them before it.
Only(intel, names) ==
  LET at == {i \in DOMAIN intel : Canonical(intel[i].module) \in names}
      nth(n) == CHOOSE i \in at : Cardinality({j \in at : j < i}) = n - 1
  IN  [n \in 1..Cardinality(at) |-> intel[nth(n)]]

\* Discovery and asset steps are there even if nobody asked for them.
OrDefault(items, m) == IF items = <<>> THEN <<Item(m, 0)>> ELSE items

\* The steps in the order in which plan() makes them.  Items that name the
\* collector are dropped: it is planned once, at the end.
Draft(intel) ==
  Only(intel, {"stealth"})
    \o OrDefault(Only(intel, {"discovery"}), "discovery")
    \o OrDefault(Only(intel, {"asset"}), "asset")
    \o Only(intel, {"recon"})
    \o Only(intel, {"plugin", "nameless"})
    \o <<Item("collector", 0)>>

\* Faulty variant: an asset step waits for the discovery steps only.
Faulty_WaitsFor(d, k) ==
  IF d[k].module \in {"stealth", "discovery"} THEN {}
  ELSE {j \in 1..(k - 1) : d[j].module = "discovery"}

\* Which of the steps made before it step k depends on.
WaitsFor(d, k) ==
  IF d[k].module \in {"stealth", "discovery"} THEN {}
  ELSE IF d[k].module = "asset" THEN {j \in 1..(k - 1) : d[j].module \in {"stealth", "discovery"}}
  ELSE 1..(k - 1)

\* _mk.  Only the steps of two modules take over the parameters of their items.
Mk(d, k, c) ==
  [id |-> c + k,
   module |-> d[k].module,
   priority |-> IF d[k].priority = 0 THEN Default[d[k].module] ELSE d[k].priority,
   deps |-> {c + j : j \in WaitsFor(d, k)},
   ports |-> IF d[k].module \in {"stealth", "asset"} THEN d[k].ports ELSE "none"]

Nameless(d) == {k \in DOMAIN d : d[k].module = "nameless"}

\* it["module"] raises KeyError for an item without one, after the ids of the
\* steps made before it are spent.
Plan(intel) ==
  LET d == Draft(intel) IN
  /\ plans' = plans + 1
  /\ ours' = TRUE
  /\ \/ /\ Nameless(d) = {}
        /\ steps' = {Mk(d, k, counter) : k \in DOMAIN d}
        /\ counter' = counter + Len(d)
        /\ phase' = "planned"
     \/ /\ Nameless(d) # {}
        /\ \E k \in Nameless(d) :
             /\ \A j \in Nameless(d) : k <= j
             /\ counter' = counter + k - 1
        /\ steps' = {}
        /\ phase' = "raised"
  /\ remaining' = {} /\ done' = {} /\ waves' = <<>> /\ forced' = FALSE

\* from_json(): the steps are taken as they are.
FromJson(doc) ==
  /\ plans' = plans + 1
  /\ ours' = FALSE
  /\ steps' = doc
  /\ phase' = "planned"
  /\ remaining' = {} /\ done' = {} /\ waves' = <<>> /\ forced' = FALSE
  /\ UNCHANGED counter

-----------------------------------------------------------------------------
(***************************************************************************)
(* schedule()                                                              *)
(***************************************************************************)
Ids(S) == {s.id : s \in S}

StartSchedule ==
  /\ phase = "planned"
  /\ phase' = "scheduling"
  /\ remaining' = steps
  /\ done' = {}
  /\ waves' = <<>>
  /\ forced' = FALSE
  /\ UNCHANGED <<counter, steps, ours, plans>>

\* Faulty variants: a step is ready when one of its dependencies is done; the
\* most urgent steps come last.
Faulty_Ready == {s \in remaining : s.deps = {} \/ s.deps \cap done # {}}

\* The wave is removed from remaining, cut or not.
Faulty_AddWave(wave) ==
  /\ waves' = Append(waves, wave)
  /\ done' = done \cup Ids(wave)
  /\ remaining' = {s \in remaining : ~(s.deps \subseteq done)}

Ready == {s \in remaining : s.deps \subseteq done}

\* wave.sort(key=priority) keeps the order of the plan among equals.
Before(t, s) == t.priority < s.priority \/ (t.priority = s.priority /\ t.id < s.id)

\* wave[: self.max_concurrency]
First(S) == {s \in S : Cardinality({t \in S : Before(t, s)}) < MaxConcurrency}

AddWave(wave) ==
  /\ waves' = Append(waves, wave)
  /\ done' = done \cup Ids(wave)
  /\ remaining' = remaining \ wave

\* Faulty variant: no way out of a deadlock.
Faulty_ScheduleWave ==
  /\ phase = "scheduling"
  /\ Ready # {}
  /\ AddWave(First(Ready))
  /\ UNCHANGED <<counter, steps, phase, ours, forced, plans>>

\* One turn of the while loop.
ScheduleWave ==
  /\ phase = "scheduling"
  /\ remaining # {}
  /\ \/ /\ Ready # {}
        /\ AddWave(First(Ready))
        /\ UNCHANGED forced
     \/ /\ Ready = {}
        /\ \E s \in remaining :
             /\ \A t \in remaining : s.id <= t.id
             /\ AddWave({s})
        /\ forced' = TRUE
  /\ UNCHANGED <<counter, steps, phase, ours, plans>>

EndSchedule ==
  /\ phase = "scheduling"
  /\ remaining = {}
  /\ phase' = "scheduled"
  /\ UNCHANGED <<counter, steps, remaining, done, waves, ours, forced, plans>>

-----------------------------------------------------------------------------
PlannerInit ==
  /\ counter = 0
  /\ steps = {} /\ remaining = {} /\ done = {} /\ waves = <<>>
  /\ phase = "idle"
  /\ ours = FALSE /\ forced = FALSE
  /\ plans = 0

\* A bound: nothing is planned after a document was read.  (A plan depends on
\* earlier ones through the counter alone, and from_json leaves that as it is.)
MayPlan ==
  /\ phase \in {"idle", "scheduled", "raised"}
  /\ plans < MaxPlans
  /\ plans > 0 => ours

PlannerNext ==
  \/ MayPlan /\ \E intel \in Intel : Plan(intel)
  \/ phase = "idle" /\ \E doc \in Documents : FromJson(doc)
  \/ StartSchedule \/ ScheduleWave \/ EndSchedule

\* schedule() is a loop of one thread: it does not stop in the middle.
PlannerFairness == WF_plannerVars(StartSchedule \/ ScheduleWave \/ EndSchedule)

PlannerSpec == PlannerInit /\ [][PlannerNext]_plannerVars /\ PlannerFairness
-----------------------------------------------------------------------------
(***************************************************************************)
(* What a plan and its schedule promise.                                   *)
(***************************************************************************)
Scheduled == UNION {waves[k] : k \in DOMAIN waves}

\* schedule() loses no step and schedules none twice, also when it cuts a wave
\* or breaks a deadlock.
EachStepOnce ==
  /\ phase \in {"scheduling", "scheduled"} => steps = remaining \cup Scheduled
  /\ remaining \cap Scheduled = {}
  /\ \A j, k \in DOMAIN waves : j # k => waves[j] \cap waves[k] = {}

\* A step comes in a later wave than everything it depends on, as long as
\* schedule() has not broken a deadlock.
DependenciesFirst ==
  ~forced => \A k \in DOMAIN waves : \A s \in waves[k] :
               s.deps \subseteq Ids(UNION {waves[j] : j \in 1..(k - 1)})

\* Some of the steps wait for each other, or for a step that is not there: what
\* is outside them is not enough for any of them.
Stuck(S) ==
  \E T \in SUBSET S : T # {} /\ \A s \in T : ~(s.deps \subseteq Ids(S \ T))

\* schedule() breaks a deadlock exactly when the plan has one.  A plan that
\* plan() made has none: its steps run in dependency order, and the collector
\* runs in a wave of its own after all others, once.
OrderedUnlessStuck ==
  phase = "scheduled" =>
    /\ forced <=> Stuck(steps)
    /\ ours => /\ ~forced
               /\ waves[Len(waves)] = {s \in steps : s.module = "collector"}
               /\ Cardinality(waves[Len(waves)]) = 1

\* Every schedule() ends.
ScheduleEnds == (phase = "planned") ~> (phase = "scheduled")
=============================================================================
