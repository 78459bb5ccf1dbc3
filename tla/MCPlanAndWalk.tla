--------------------------- MODULE MCPlanAndWalk ---------------------------
(* One run of modules Planner and Assets, which share nothing: a behaviour  *)
(* plans, or it walks.                                                      *)
EXTENDS Planner, MCAssets

Mentioned == {"stealth", "discovery", "asset", "recon", "plugin", "exfil", "nameless"}

\* Every list of up to three items, and of up to two that ask for a priority
\* between those of asset and recon, or ahead of everything.
AllIntel == BoundedSeq({Item(m, 0) : m \in Mentioned}, 3)
              \cup BoundedSeq({Item(m, p) : m \in Mentioned, p \in {1, 17}}, 2)

\* Every document of up to three steps, with cycles and dangling dependencies.
AllDocuments ==
  LET StepsWith(i) == [id : {i}, module : {"plugin"}, priority : {1, 2},
                      deps : SUBSET {1, 2, 3, 9}, ports : {"none"}]
  IN  {{a, b, c} : a \in StepsWith(1), b \in StepsWith(2), c \in StepsWith(3)}

MCInit == PlannerInit /\ Init

MCNext ==
  \/ pc = "idle" /\ PlannerNext /\ UNCHANGED vars
  \/ plans = 0 /\ Next /\ UNCHANGED plannerVars

MCSpec == MCInit /\ [][MCNext]_<<plannerVars, vars>> /\ PlannerFairness /\ Fairness
=============================================================================
