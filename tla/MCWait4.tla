----------------------------- MODULE MCWait4 -----------------------------
(* Wait4 for TLC.                                                          *)
EXTENDS Wait4, TLC

CONSTANTS n1, n2, n3, n4, t1, t2, p1

MCThread == {t1, t2}
MCPid == {p1}
MCNotify == {child_event, n1, n2, n3, n4}
===========================================================================
