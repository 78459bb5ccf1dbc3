---------------------------- MODULE AssetsProofs ----------------------------
(***************************************************************************)
(* Proofs about module Assets, for every scope, every list of ports and    *)
(* all bounds: the walk stays in its scope and in its budget.              *)
(***************************************************************************)
EXTENDS Assets, FiniteSetTheorems, TLAPS

\* Where the walk has a name in hand that the scope was asked about.
OnName == {"resolve", "ports", "baseline", "redirect", "documents"}

\* The name in hand and every address that is left of it passed the scope, and
\* so did the place of the last request, from which a redirect starts.
ScopeInv ==
  /\ ips \in Seq(InScope)
  /\ pc \in OnName => name \in InScope
  /\ RequestsStayInScope

\* The orders in which the addresses of a name may be probed hold those
\* addresses and no others.
LEMMA SequencesOfAllowed ==
  ASSUME NEW S \in SUBSET Addresses, NEW s \in SetToSeqs(S)
  PROVE  s \in Seq(S)
<1>1. IsFiniteSet(S)
  BY AssetsAssumption, FS_Subset
<1>2. Cardinality(S) \in Nat
  BY <1>1, FS_CardinalityType
<1> QED BY <1>2 DEF SetToSeqs

\* Every step keeps ScopeInv.
LEMMA ScopeStep == ScopeInv /\ [Next]_vars => ScopeInv'
<1> SUFFICES ASSUME ScopeInv, [Next]_vars PROVE ScopeInv'
  OBVIOUS
<1> USE DEF ScopeInv, OnName, RequestsStayInScope, Authorized, walk, result, target
<1>1. CASE Pop
  BY <1>1 DEF Pop, Known
<1>2. CASE Resolve
  <2>1. ips' \in Seq(InScope)
    <3>1. CASE ips' = ips
      BY <3>1
    <3>2. ASSUME NEW addresses \in SUBSET Addresses, ips' \in SetToSeqs(Allowed(addresses))
          PROVE  ips' \in Seq(InScope)
      <4>1. Allowed(addresses) \in SUBSET Addresses /\ Allowed(addresses) \subseteq InScope
        BY DEF Allowed
      <4>2. ips' \in Seq(Allowed(addresses))
        BY <3>2, <4>1, SequencesOfAllowed
      <4> QED BY <4>1, <4>2
    <3> QED BY <1>2, <3>1, <3>2 DEF Resolve
  <2>2. pc = "resolve" /\ UNCHANGED <<name, at>>
    BY <1>2 DEF Resolve
  <2> QED BY <2>1, <2>2
<1>3. CASE Candidate
  <2>1. ips \in Seq(InScope) /\ ips # <<>>
    BY <1>3 DEF Candidate, Probes
  <2>2. Head(ips) \in InScope /\ Tail(ips) \in Seq(InScope)
    BY <2>1
  <2>3. ips' \in Seq(InScope)
    BY <1>3, <2>1, <2>2 DEF Candidate, NextTarget
  <2>4. at' = [host |-> name, ip |-> Head(ips), port |-> plan[port]] /\ pc = "ports" /\ name' = name
    BY <1>3 DEF Candidate, Probe
  <2> QED BY <2>2, <2>3, <2>4
<1>4. CASE Baseline
  BY <1>4 DEF Baseline
<1>5. CASE FollowHop
  <2>1. PICK ip \in InScope : NextHost \in InScope /\ at' = [host |-> NextHost, ip |-> ip, port |-> NextPort]
    BY <1>5 DEF FollowHop, HopAllowed, Probe
  <2>2. pc = "redirect" /\ UNCHANGED <<ips, name>>
    BY <1>5 DEF FollowHop
  <2> QED BY <2>1, <2>2
<1>6. CASE BlockHop
  BY <1>6 DEF BlockHop
<1>7. CASE HopRaises
  BY <1>7 DEF HopRaises
<1>8. CASE NoHop
  BY <1>8 DEF NoHop
<1>9. CASE Document
  BY <1>9 DEF Document
<1>10. CASE EndDocuments
  BY <1>10 DEF EndDocuments
<1>11. CASE EndPorts
  BY <1>11 DEF EndPorts
<1>12. CASE Expand
  BY <1>12 DEF Expand
<1>13. CASE Return
  BY <1>13 DEF Return
<1>14. CASE ResolveRaises
  BY <1>14 DEF ResolveRaises
<1>15. CASE Call
  BY <1>15 DEF Call
<1>16. CASE UNCHANGED vars
  BY <1>16 DEF vars
<1> QED
  BY <1>1, <1>2, <1>3, <1>4, <1>5, <1>6, <1>7, <1>8, <1>9, <1>10, <1>11, <1>12, <1>13, <1>14, <1>15, <1>16 DEF Next, WalkStep

\* Every request of discover_assets, redirects included, goes to a host and an
\* address that is_target_allowed() accepts, whatever names resolve to from one
\* moment to the next and wherever servers redirect.
THEOREM StaysInScope == Spec => []RequestsStayInScope
<1>1. Init => ScopeInv
  BY DEF Init, ScopeInv, OnName, RequestsStayInScope, Here
<1>2. ScopeInv => RequestsStayInScope
  BY DEF ScopeInv
<1> QED BY <1>1, <1>2, ScopeStep, PTL DEF Spec

-----------------------------------------------------------------------------
\* The count and what was sent differ by the requests of the present chain of
\* redirects or pair of documents, which began below the bound and has two
\* requests at most.
BudgetInv ==
  /\ requests \in Nat /\ used \in Nat /\ sent \in Nat /\ hop \in Nat
  /\ sent = requests + used /\ sent <= MaxRequests + 1
  /\ used > 0 => Budget
  /\ pc = "redirect" => used = hop /\ hop < MaxRedirects
  /\ pc = "documents" => used <= 2
  /\ pc \notin {"redirect", "documents", "raised"} => used = 0

\* Every step keeps BudgetInv.
LEMMA BudgetStep == BudgetInv /\ [Next]_vars => BudgetInv'
<1> SUFFICES ASSUME BudgetInv, [Next]_vars PROVE BudgetInv'
  OBVIOUS
<1> USE AssetsAssumption DEF BudgetInv, Budget, MaxRedirects, walk, result, target
<1>1. CASE Pop
  BY <1>1 DEF Pop
<1>2. CASE Resolve
  BY <1>2 DEF Resolve
<1>3. CASE Candidate
  BY <1>3 DEF Candidate, Probes, Probe
<1>4. CASE Baseline
  BY <1>4 DEF Baseline
<1>5. CASE FollowHop
  <2>1. sent' = sent + 1 /\ pc = "redirect" /\ hop < MaxRedirects /\ requests < MaxRequests
    BY <1>5 DEF FollowHop, Follows, Probe
  <2> QED BY <1>5, <2>1 DEF FollowHop
<1>6. CASE BlockHop
  BY <1>6 DEF BlockHop, EndRedirects
<1>7. CASE HopRaises
  BY <1>7 DEF HopRaises
<1>8. CASE NoHop
  BY <1>8 DEF NoHop, EndRedirects
<1>9. CASE Document
  BY <1>9 DEF Document, FetchesDocument
<1>10. CASE EndDocuments
  BY <1>10 DEF EndDocuments
<1>11. CASE EndPorts
  BY <1>11 DEF EndPorts
<1>12. CASE Expand
  BY <1>12 DEF Expand
<1>13. CASE Return
  BY <1>13 DEF Return
<1>14. CASE ResolveRaises
  BY <1>14 DEF ResolveRaises
<1>15. CASE Call
  BY <1>15 DEF Call
<1>16. CASE UNCHANGED vars
  BY <1>16 DEF vars
<1> QED
  BY <1>1, <1>2, <1>3, <1>4, <1>5, <1>6, <1>7, <1>8, <1>9, <1>10, <1>11, <1>12, <1>13, <1>14, <1>15, <1>16 DEF Next, WalkStep

\* A walk sends one request above max_requests at the most, though the redirects
\* and the documents of a target are checked against a count that is brought up
\* to date behind them; and the number it reports is the number it sent.
THEOREM StaysInBudget == Spec => []RequestsBounded
<1>1. Init => BudgetInv
  BY AssetsAssumption DEF Init, BudgetInv
<1>2. BudgetInv => RequestsBounded
  BY DEF BudgetInv, RequestsBounded
<1> QED BY <1>1, <1>2, BudgetStep, PTL DEF Spec
=============================================================================
