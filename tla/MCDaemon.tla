------------------------------ MODULE MCDaemon ------------------------------
(* Process ids of Daemon for TLC. *)
EXTENDS Daemon

CONSTANTS p1, p2, p3, p4, p5
=============================================================================
