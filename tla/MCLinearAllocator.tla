------------------------ MODULE MCLinearAllocator ------------------------
(* LinearAllocator for TLC: room for two arenas of two aligned units,      *)
(* and for the guest's own data below the first.                           *)
EXTENDS LinearAllocator

MCLength == {1, 2, 3}
===========================================================================
