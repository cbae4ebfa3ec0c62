---------------------------- MODULE MCReadiness ----------------------------
(* Readiness for TLC: a guest that uses one kind of descriptor and perhaps *)
(* an epoll instance.                                                      *)
EXTENDS Readiness

MCPrograms ==
    { {k, "Epoll"} : k \in {"Stdin", "PipeRead", "EventFd", "File", "Socket"} }
MCEvents == {{"IN"}, {"OUT"}}
=============================================================================
