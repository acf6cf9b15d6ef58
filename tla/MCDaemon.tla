------------------------------ MODULE MCDaemon ------------------------------
(* Daemon for TLC: both modes, every channel setting of the command line.   *)
EXTENDS Daemon
=============================================================================
