------------------------------- MODULE Runners -------------------------------
(***************************************************************************)
(* modules/registry.py, the runners of a campaign's steps, over            *)
(* scan_ports of core/accel.py and the Collector: what they hand on to     *)
(* each other in the context of the Orchestrator, which outlives the       *)
(* campaign.                                                               *)
(*                                                                         *)
(* The steps are those of Planner.plan(), which gives a discovery step no  *)
(* ports of its own: pacing and discovery first, in any order, then the    *)
(* assets, the recon and the collector (module Planner); one of each here, *)
(* and no plugins.  A runner touches the context once, at its end, and     *)
(* recon is alone in its wave; so each is one step.  A banner is the host  *)
(* it was read from.                                                       *)
(***************************************************************************)
EXTENDS Integers, Sequences, SequencesExt, FiniteSets

CONSTANTS TargetHosts,   \* the targets of campaigns
          OtherHosts,    \* other names that the asset walk reaches
          SweepPorts,    \* COMMON_PORTS
          WalkPorts,     \* WEB_PORTS
          ScopedPorts,   \* the ports of the scope; empty: any port
          PortsGiven,    \* what a plan may give its asset step as web_ports
          MaxCampaigns   \* bound on the campaigns of one Orchestrator

ASSUME RunnersAssumption == MaxCampaigns \in Nat /\ IsFiniteSet(SweepPorts) /\ IsFiniteSet(ScopedPorts)

NoHost == "none"

VARIABLES
  target, step,     \* the campaign and where it is
  waiting,          \* the steps of its first wave that have not run
  findings,         \* ctx["findings"]
  pacer,            \* ctx["pacer"] is there
  collected,        \* ctx["collected"]
  \* History, read by no operation:
  campaigns,
  given,            \* the ports of every web_ports parameter so far
  connections,      \* hosts and ports that discovery and recon connected to
  probes            \* the probes of the recon results

runnerVars == <<target, step, waiting, findings, pacer, collected, campaigns, given, connections, probes>>

Finding(module, host, port, banner) == [module |-> module, host |-> host, port |-> port, banner |-> banner]

-----------------------------------------------------------------------------
\* run_campaign: the context stays.
RunCampaign(t, paced) ==
  /\ step = "idle" /\ campaigns < MaxCampaigns
  /\ target' = t /\ step' = "first" /\ campaigns' = campaigns + 1
  /\ waiting' = IF paced THEN {"stealth", "discovery"} ELSE {"discovery"}
  /\ UNCHANGED <<findings, pacer, collected, given, connections, probes>>

\* stealth_runner
StealthRunner ==
  /\ step = "first" /\ "stealth" \in waiting
  /\ waiting' = waiting \ {"stealth"}
  /\ pacer' = TRUE
  /\ UNCHANGED <<target, step, findings, collected, campaigns, given, connections, probes>>

\* Faulty variant: the ports of the scope are not asked for.
Faulty_PortsToScan == SweepPorts

\* The ports of a discovery step
PortsToScan == IF ScopedPorts # {} THEN ScopedPorts ELSE SweepPorts

\* The rows of scan_ports: open ports, with banners if they come from the Go
\* core, without if from Python; none if both backends raised.
ScanRows(open) ==
  LET Rows == {Finding("discovery", target, p, banner) : p \in open, banner \in {target, NoHost}}
      n    == Cardinality(open)
  IN  {rows \in [1..n -> Rows] : \A i, j \in 1..n : i < j => rows[i].port < rows[j].port} \cup {<<>>}

\* discovery_runner
DiscoveryRunner ==
  /\ step = "first" /\ "discovery" \in waiting
  /\ waiting' = waiting \ {"discovery"}
  /\ connections' = connections \cup {<<target, p>> : p \in PortsToScan}
  /\ \E open \in SUBSET PortsToScan : \E rows \in ScanRows(open) : findings' = findings \o rows
  /\ UNCHANGED <<target, step, pacer, collected, campaigns, given, probes>>

WaveEnds ==
  /\ step = "first" /\ waiting = {}
  /\ step' = "asset"
  /\ UNCHANGED <<target, waiting, findings, pacer, collected, campaigns, given, connections, probes>>

\* The web ports that a step with no web_ports parameter tries
AssetPorts == {p \in WalkPorts : ScopedPorts = {} \/ p \in ScopedPorts}

\* asset_runner: any names the scope allows, at the ports of the step as they are
\* given, or of the scope (module Assets); nothing when the walk raised.
AssetRunner ==
  /\ step = "asset"
  /\ step' = "recon"
  /\ \E tried \in PortsGiven \cup {AssetPorts} :
       /\ given' = given \cup (IF tried \in PortsGiven THEN tried ELSE {})
       /\ \/ UNCHANGED findings
          \/ \E h \in OtherHosts \cup {target}, p \in tried : findings' = Append(findings, Finding("asset", h, p, NoHost))
  /\ UNCHANGED <<target, waiting, pacer, collected, campaigns, connections, probes>>

\* What recon takes for discovered: no matter by whom, and of which host.
Discovered == {i \in DOMAIN findings : findings[i].module # "recon"}
OpenPorts == {findings[i].port : i \in Discovered}

\* The first banner that was found with a port
Existing(port) ==
  LET known == {i \in Discovered : findings[i].port = port /\ findings[i].banner # NoHost}
  IN  IF known = {} THEN NoHost ELSE findings[CHOOSE i \in known : \A j \in known : i <= j].banner

\* recon_runner: what has no banner yet is asked for one; the server may have
\* none, and the connection may fail.
ReconRunner ==
  /\ step = "recon"
  /\ step' = "collector"
  /\ LET asked == {p \in OpenPorts : Existing(p) = NoHost}
     IN  /\ connections' = connections \cup {<<target, p>> : p \in asked}
         /\ \E grabbed \in [asked -> {target, NoHost}] :
              probes' = probes \cup {[campaign |-> campaigns, host |-> target, port |-> p,
                                      banner |-> IF p \in asked THEN grabbed[p] ELSE Existing(p)] : p \in OpenPorts}
  /\ findings' = Append(findings, Finding("recon", target, 0, NoHost))
  /\ UNCHANGED <<target, waiting, pacer, collected, campaigns, given>>

\* The step is not in every plan, and it may raise before it reports.
NoRecon ==
  /\ step = "recon"
  /\ step' = "collector"
  /\ UNCHANGED <<target, waiting, findings, pacer, collected, campaigns, given, connections, probes>>

\* Collector.add: one finding for each natural id; the service in it is told by
\* the banner.
NaturalId(f) == <<f.module, f.host, f.port, f.banner>>

\* collector_runner, and the end of the campaign
CollectorRunner ==
  /\ step = "collector"
  /\ step' = "idle"
  /\ collected' = Cardinality({NaturalId(f) : f \in ToSet(findings)})
  /\ UNCHANGED <<target, waiting, findings, pacer, campaigns, given, connections, probes>>

-----------------------------------------------------------------------------
RunnersInit ==
  /\ target = NoHost /\ step = "idle" /\ waiting = {}
  /\ findings = <<>> /\ pacer = FALSE /\ collected = 0
  /\ campaigns = 0 /\ given = {} /\ connections = {} /\ probes = {}

RunnersNext ==
  \/ \E t \in TargetHosts, paced \in BOOLEAN : RunCampaign(t, paced)
  \/ StealthRunner \/ DiscoveryRunner \/ WaveEnds \/ AssetRunner \/ ReconRunner \/ NoRecon \/ CollectorRunner

RunnersSpec == RunnersInit /\ [][RunnersNext]_runnerVars

-----------------------------------------------------------------------------
\* However the findings of discovery and of the assets come together: a port
\* that is connected to is one that the scope allows or that a plan gave its
\* asset step, whoever found it, and in the first campaign of an Orchestrator a
\* banner that recon reports for its target was read from the target
\* (discovery_runner, recon_runner).  In a later campaign it may be that of an
\* earlier target.
ProbesAreOfTheTarget ==
  /\ \A c \in connections : ScopedPorts # {} => c[2] \in ScopedPorts \cup given
  /\ \A p \in probes : p.campaign = 1 => p.banner \in {NoHost, p.host}

\* A campaign whose steps were authorized connects to no port outside its scope:
\* _authorize_steps "fails before any step runs when a step leaves the
\* authorized scope".
StepsStayInScope == \A c \in connections : ScopedPorts # {} => c[2] \in ScopedPorts
=============================================================================
