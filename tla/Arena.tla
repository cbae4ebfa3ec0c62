------------------------------- MODULE Arena -------------------------------
(***************************************************************************)
(* One arena of the anonymous-mmap allocator (src/mm/arena.rs): a bump     *)
(* pointer and the bytes that munmap gave back.                            *)
(*                                                                         *)
(* The free list is abstracted to the set of bytes it covers; its entries  *)
(* are then the maximal runs of that set, because free() merges neighbours *)
(* and alloc() takes bytes away.  Module FreeList has the list itself and  *)
(* shows that it behaves as defined here.  Which of several equally good   *)
(* entries is taken depends on the list's order and is left open.          *)
(***************************************************************************)
EXTENDS Naturals

CONSTANTS
    ARENA_SIZE,     \* 256 KiB in the code
    Align,          \* 8 in the code
    Length          \* lengths asked for

ASSUME ArenaAssumption ==
    /\ ARENA_SIZE \in Nat \ {0} /\ Align \in Nat \ {0}
    /\ Length \subseteq 1 .. ARENA_SIZE

Offset == 0 .. ARENA_SIZE - 1
Arenas == [base : Nat, used : 0 .. ARENA_SIZE, free : SUBSET Offset]

\* The bytes [off, off + len).
Bytes(off, len) == off .. off + len - 1

\* (x + (align - 1)) & !(align - 1).
AlignUp(x) == x + ((Align - (x % Align)) % Align)

\* Arena::new.
NewArena(base) == [base |-> base, used |-> 0, free |-> {}]

\* The entries of the free list.
Holes(free) ==
    { h \in [off : Offset, len : 1 .. ARENA_SIZE] :
        /\ Bytes(h.off, h.len) \subseteq free
        /\ h.off = 0 \/ h.off - 1 \notin free
        /\ h.off + h.len \notin free }

\* alloc: the smallest hole that fits, then the bump pointer.  The set of
\* possible results, empty when the arena is full: the offset, and the arena
\* afterwards.  BumpShort bumps by one byte too few, BumpUnchecked also when
\* the arena is full.
Slack(h) == AlignUp(h.off) - h.off
Fitting(free, len) == { h \in Holes(free) : Slack(h) + len <= h.len }
BestFit(free, len) ==
    { h \in Fitting(free, len) :
        \A g \in Fitting(free, len) : h.len - Slack(h) <= g.len - Slack(g) }
Carve(ar, len, off) ==
    [off |-> off, arena |-> [ar EXCEPT !.free = ar.free \ Bytes(off, len)]]
BumpShort(ar, len) ==
    LET off == AlignUp(ar.used)
    IN  { [off |-> off, arena |-> [ar EXCEPT !.used = u]] :
            u \in { v \in {off + len - 1} : v <= ARENA_SIZE } }
BumpUnchecked(ar, len) ==
    { [off |-> AlignUp(ar.used), arena |-> [ar EXCEPT !.used = AlignUp(ar.used) + len]] }
BumpAlloc(ar, len) ==
    LET off == AlignUp(ar.used)
    IN  { [off |-> off, arena |-> [ar EXCEPT !.used = u]] :
            u \in { v \in {off + len} : v <= ARENA_SIZE } }
Alloc(ar, len) ==
    IF Fitting(ar.free, len) /= {}
      THEN { Carve(ar, len, AlignUp(h.off)) : h \in BestFit(ar.free, len) }
      ELSE BumpAlloc(ar, len)

\* free: no test that the bytes had been allocated.  FreeRewind moves the bump
\* pointer back when the last bytes below it are freed.
FreeRewind(ar, off, len) ==
    IF off + len = ar.used THEN [ar EXCEPT !.used = off]
      ELSE [ar EXCEPT !.free = ar.free \cup Bytes(off, len)]
Free(ar, off, len) == [ar EXCEPT !.free = ar.free \cup Bytes(off, len)]

\* contains(): [addr, addr + len) lies in the arena.
InArena(ar, addr, len) == addr >= ar.base /\ addr + len <= ar.base + ARENA_SIZE
============================================================================
