------------------------------- MODULE MCWal -------------------------------
(* Wal on a small instance; the bounds are given in the .cfg files. *)
EXTENDS Wal
=============================================================================
