------------------------------ MODULE MCAccel ------------------------------
(* Instances of module Accel.  What changes is the host, once, or only the  *)
(* shared file, twice: then scans and matches are all that is asked of a    *)
(* sound library.                                                           *)
EXTENDS Accel, TLC

VARIABLE edited   \* the file changes, not the host

AllKinds == {"match", "fingerprint", "graph", "batch", "compare", "health"}
ThreadSymmetry == Permutations(Threads)

MCInit == Init /\ edited \in BOOLEAN /\ (edited => lib = "good" /\ exe = "good" /\ rust = "good")
MCNext ==
  /\ Next /\ UNCHANGED edited
  /\ IF edited THEN UNCHANGED <<lib, exe>> /\ \A t \in Threads : kind'[t] \in {"none", "batch", "match"}
     ELSE UNCHANGED file /\ changes' <= 1
MCSpec == MCInit /\ [][MCNext]_<<vars, edited>>
=============================================================================
