------------------------------ MODULE MCGoScan ------------------------------
(* The two ends of a Go sweep in one run.  They share nothing here: a       *)
(* behaviour is one of the process, or one of its clients, while the other  *)
(* stays where it began.                                                    *)
EXTENDS GoPool, GoServe

ScanInit == Init /\ ServeInit

PoolMoves == ServeInit /\ Next /\ UNCHANGED serveVars
PoolAtRest == program = "serve" /\ place = "read" /\ requests = 0
ServeMoves == PoolAtRest /\ ServeNext /\ UNCHANGED vars

\* Whoever is where it began has nothing to do by itself: no goroutine runs, and
\* no call has been made.
ScanSpec ==
  ScanInit /\ [][PoolMoves \/ ServeMoves]_<<vars, serveVars>> /\ Fairness /\ ServeFairness
=============================================================================
