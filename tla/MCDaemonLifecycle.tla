------------------------- MODULE MCDaemonLifecycle -------------------------
(***************************************************************************)
(* TLC instances of DaemonLifecycle: three daemon processes, so that a     *)
(* third can meet what two have left.                                      *)
(***************************************************************************)
EXTENDS DaemonLifecycle

CONSTANTS c1, r1
=============================================================================
