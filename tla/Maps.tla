------------------------------- MODULE Maps -------------------------------
(***************************************************************************)
(* The two mutations of a std::collections::HashMap that the kernel uses:  *)
(* a map is a function whose DOMAIN is the set of its keys.                *)
(***************************************************************************)

\* insert(k, v): binds k, replacing the value k had.
Put(m, k, v) == [x \in DOMAIN m \cup {k} |-> IF x = k THEN v ELSE m[x]]

\* remove(k): unbinds k, if it was bound.
Del(m, k) == [x \in DOMAIN m \ {k} |-> m[x]]

\* No key is bound.
EmptyMap == [x \in {} |-> x]
===========================================================================
