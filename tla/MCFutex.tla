----------------------------- MODULE MCFutex -----------------------------
(* Futex for TLC.  A wait with a deadline need not expire, so it covers    *)
(* one without.  A fresh handle always exists: when one is needed its      *)
(* address has no entry, so |Thread| + |Addr| - 2 are in use at most.      *)
EXTENDS Futex, TLC

CONSTANTS n1, n2, n3, t1, t2, t3

MCThread == {t1, t2, t3}
MCAddr == {1}
MCNotify == {n1, n2, n3}
MCWakeVal == {-1, 1, 2}
MCTimed == {TRUE}
Symmetry == Permutations(MCThread) \cup Permutations(MCNotify)
===========================================================================
