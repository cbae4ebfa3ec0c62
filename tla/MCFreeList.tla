---------------------------- MODULE MCFreeList ----------------------------
(* FreeList for TLC: one arena of five aligned units.                      *)
EXTENDS FreeList

MCLength == 1 .. 4
===========================================================================
