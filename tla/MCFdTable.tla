---------------------------- MODULE MCFdTable ----------------------------
(* FdTable for TLC: interchangeable plain descriptions, one of each other  *)
(* kind.                                                                   *)
EXTENDS FdTable, TLC

CONSTANTS p1, p2, p3, epoll, listener

MCObject == {p1, p2, p3, epoll, listener}
MCSpecial == {epoll}
MCInherited == {listener}
Symmetry == Permutations({p1, p2, p3})
===========================================================================
