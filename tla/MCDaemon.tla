------------------------------ MODULE MCDaemon ------------------------------
(* Small instances of Daemon.                                              *)
EXTENDS Daemon, TLC

MCSymmetry == Permutations(Conns) \cup Permutations(Prompts) \cup Permutations(Names)
=============================================================================
