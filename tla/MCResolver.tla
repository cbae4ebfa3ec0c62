---------------------------- MODULE MCResolver ----------------------------
(* Resolver on a small instance.                                           *)
EXTENDS Resolver

CONSTANTS a4, b6

MCAnswers == {<<b6, a4>>, <<a4, a4, a4>>}
MCDenylists == {{}, {b6}}
=============================================================================
