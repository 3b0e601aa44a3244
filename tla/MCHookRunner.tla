---------------------------- MODULE MCHookRunner ----------------------------
(***************************************************************************)
(* Small instances of HookRunner: a pool of two workers and one reviewer,  *)
(* opened twice, with one mishap in between.                               *)
(***************************************************************************)
EXTENDS HookRunner

CONSTANTS s1, s2, r1
=============================================================================
