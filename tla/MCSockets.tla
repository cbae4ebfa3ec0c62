----------------------------- MODULE MCSockets -----------------------------
(* Sockets on a small instance.                                            *)
EXTENDS Sockets, TLC

CONSTANTS s1, s2

MCSock == {s1, s2}
Guest(family, uses) == [family |-> family, uses |-> uses]
MCPrograms ==
    { Guest("tcp", {"serve", "names", "faults", "freeze"}),
      Guest("inherited", {"serve", "names", "faults", "freeze"}),
      Guest("tcp", {"serve", "bytes", "flags"}),
      Guest("tcp", {"bytes", "shutdown"}),
      Guest("inherited", {"bytes", "shutdown"}),
      Guest("tcp", {"serve", "options", "shutdown"}),
      Guest("unix", {"serve", "faults", "freeze"}),
      Guest("unix", {"serve", "bytes", "shutdown"}),
      Guest("udp", {"serve", "names", "options"}) }
Symmetry == Permutations(MCSock)
=============================================================================
