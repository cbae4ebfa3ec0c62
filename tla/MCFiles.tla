------------------------------ MODULE MCFiles ------------------------------
(* Files for TLC: a preopened directory /1 next to a directory /2, paths   *)
(* into both, and four ways to open a file.                                *)
EXTENDS Files

Rel(c) == [abs |-> FALSE, comps |-> c]
MCGuestPath == {Rel(<<1>>), Rel(<<Up, 2>>), Rel(<<1, 2>>),
                [abs |-> TRUE, comps |-> <<1, 1>>]}
MCHostDirs == {<< >>, <<1>>, <<2>>}
MCPreopen == <<1>>
Flags(r, w, o) == [read |-> r, write |-> w, opts |-> o]
MCOpenFlags == {Flags(TRUE, FALSE, {}), Flags(TRUE, TRUE, {"CREAT"}),
                Flags(TRUE, FALSE, {"APPEND"}),
                Flags(FALSE, TRUE, {"TRUNC", "DIRECTORY"})}
MCLens == {<<1>>, <<1, 2>>}
=============================================================================
