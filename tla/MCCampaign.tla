----------------------------- MODULE MCCampaign -----------------------------
(* Intelligence for the runs of module Campaign. *)
EXTENDS Campaign

\* A wave of two, a module that is not registered, an item without a module,
\* items that ask for ports, and a wave that has to be cut.
SomeIntel == {<<>>,
              <<Item("recon", 0)>>,
              <<Item("plugin", 0)>>,
              <<ItemWithPorts("asset", "inside"), ItemWithPorts("discovery", "outside")>>,
              <<ItemWithPorts("asset", "outside")>>,
              <<Item("nameless", 0)>>,
              <<Item("discovery", 0), Item("discovery", 0), Item("stealth", 0)>>}

None == {}
=============================================================================
