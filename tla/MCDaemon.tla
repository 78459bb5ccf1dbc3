------------------------------ MODULE MCDaemon ------------------------------
(* Instance of module Daemon: fewer workers than ports. *)
EXTENDS Daemon

ThreePorts == <<80, 443, 22>>
=============================================================================
