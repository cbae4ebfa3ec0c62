---------------------------- MODULE ArenaSpec ----------------------------
(***************************************************************************)
(* What an arena promises (src/mm/arena.rs), as a specification: alloc     *)
(* hands out bytes that are free and fit best, free takes bytes back.      *)
(* LinearAllocator is built from these operators; FreeList implements      *)
(* this specification with a Vec of holes.                                 *)
(***************************************************************************)
EXTENDS Arena

VARIABLES
    arena,          \* a member of Arenas
    allocated       \* bytes handed out and not freed

vars == <<arena, allocated>>

Init == arena = NewArena(0) /\ allocated = {}

Allocate(len) ==
    \E r \in Alloc(arena, len) :
        arena' = r.arena /\ allocated' = allocated \cup Bytes(r.off, len)

Release(off, len) ==
    /\ Bytes(off, len) \subseteq allocated
    /\ arena' = Free(arena, off, len)
    /\ allocated' = allocated \ Bytes(off, len)

Next ==
    \/ \E len \in Length : Allocate(len)
    \/ \E off \in Offset, len \in Length : Release(off, len)

Spec == Init /\ [][Next]_vars
==========================================================================
