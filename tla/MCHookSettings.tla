--------------------------- MODULE MCHookSettings ---------------------------
(***************************************************************************)
(* TLC instance of HookSettings: one user command, an event Divan has a    *)
(* script for and one it has none for, two spellings of the directory.     *)
(***************************************************************************)
EXTENDS HookSettings

CONSTANTS c1, d1, d2
=============================================================================
