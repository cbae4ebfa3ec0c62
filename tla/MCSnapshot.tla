---------------------------- MODULE MCSnapshot ----------------------------
(* Snapshot on a small instance: a module with a page of data and a page   *)
(* of zeroes, one without data, and one that exports no memory.            *)
EXTENDS Snapshot, TLC

CONSTANTS m1, m2, m3

MCData == m1 :> <<2, 0>> @@ m2 :> <<0>> @@ m3 :> << >>
MCPrograms ==
    { {"Pipe", "dup", "close", "cloexec", "fields"},
      {"File", "dup", "close", "NR_SNAPSHOT"},
      {"Dir", "Client", "Listener", "close", "cloexec", "fields"},
      {"EventFd", "Epoll", "close", "NR_SNAPSHOT"},
      {"memory", "fields", "NR_SNAPSHOT"} }
=============================================================================
