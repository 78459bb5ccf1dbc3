------------------------------- MODULE Sweep -------------------------------
(***************************************************************************)
(* What a sweep of transport/goscan promises to the one who asked for it:  *)
(* each port asked for is dialled exactly once, and the answer lists, once *)
(* each, the ports that were found open and no others.                     *)
(***************************************************************************)
EXTENDS Integers, Sequences, FiniteSets, Functions

CONSTANT Ports

VARIABLES asked,    \* the ports of the present sweep
          dialled,  \* what was found, for the ports dialled so far
          answered, \* the sweep has been answered
          answer    \* the ports in the answer

vars == <<asked, dialled, answered, answer>>

Init == asked = {} /\ dialled = <<>> /\ answered = TRUE /\ answer = <<>>

Ask(P) ==
  /\ answered
  /\ asked' = P
  /\ dialled' = <<>>
  /\ answered' = FALSE
  /\ answer' = <<>>

Dial(p, open) ==
  /\ p \in asked \ DOMAIN dialled
  /\ dialled' = [q \in DOMAIN dialled \cup {p} |-> IF q = p THEN open ELSE dialled[q]]
  /\ UNCHANGED <<asked, answered, answer>>

Answer ==
  /\ ~answered
  /\ DOMAIN dialled = asked
  /\ answered' = TRUE
  /\ IsInjective(answer')
  /\ Range(answer') = {p \in asked : dialled[p]}
  /\ UNCHANGED <<asked, dialled>>

\* The process may end instead, without an answer.

Next ==
  \/ \E P \in SUBSET Ports : Ask(P)
  \/ \E p \in Ports, open \in BOOLEAN : Dial(p, open)
  \/ Answer

Spec == Init /\ [][Next]_vars
=============================================================================
