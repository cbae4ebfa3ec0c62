----------------------------- MODULE FreeList -----------------------------
(***************************************************************************)
(* The free list of one arena as the code keeps it, a Vec of (offset,      *)
(* length) pairs (src/mm/arena.rs), under any sequence of alloc and free   *)
(* of allocated bytes.                                                     *)
(***************************************************************************)
EXTENDS Arena, Sequences, Functions

VARIABLES
    used,           \* bump pointer
    free_list,      \* Vec<(usize, usize)>
    allocated       \* bytes handed out and not freed

list_vars == <<used, free_list, allocated>>

Entry(off, len) == [off |-> off, len |-> len]
EntryOf(b) == Bytes(b.off, b.len)

ListInit == used = 0 /\ free_list = <<>> /\ allocated = {}
----------------------------------------------------------------------------
\* The search: least waste, and the first of several such entries.  FirstFit
\* takes the first that is large enough.
Waste(h, len) == h.len - len - Slack(h)
Candidates(len) == { i \in DOMAIN free_list : Slack(free_list[i]) + len <= free_list[i].len }
FirstFit(len) == CHOOSE i \in Candidates(len) : \A j \in Candidates(len) : i <= j
Best(len) ==
    CHOOSE i \in Candidates(len) : \A j \in Candidates(len) :
        \/ Waste(free_list[i], len) < Waste(free_list[j], len)
        \/ Waste(free_list[i], len) = Waste(free_list[j], len) /\ i <= j

\* Vec::swap_remove.
SwapRemove(s, i) == SubSeq([s EXCEPT ![i] = s[Len(s)]], 1, Len(s) - 1)

\* The list after [off, end) has been cut out of entry i: dropped, shortened
\* at either side, or split in two with the second part at the end.
CutOut(i, off, end) ==
    LET h == free_list[i]
        h_end == h.off + h.len
        before == Entry(h.off, off - h.off)
        after == Entry(end, h_end - end)
    IN  CASE off = h.off /\ end = h_end -> SwapRemove(free_list, i)
          [] off = h.off /\ end /= h_end -> [free_list EXCEPT ![i] = after]
          [] off /= h.off /\ end = h_end -> [free_list EXCEPT ![i] = before]
          [] OTHER -> Append([free_list EXCEPT ![i] = before], after)

AllocFromList(len) ==
    /\ Candidates(len) /= {}
    /\ LET off == AlignUp(free_list[Best(len)].off)
       IN  /\ free_list' = CutOut(Best(len), off, off + len)
           /\ allocated' = allocated \cup Bytes(off, len)
    /\ UNCHANGED used

AllocByBump(len) ==
    /\ Candidates(len) = {}
    /\ AlignUp(used) + len <= ARENA_SIZE
    /\ used' = AlignUp(used) + len
    /\ allocated' = allocated \cup Bytes(AlignUp(used), len)
    /\ UNCHANGED free_list

\* sort_by_key: the permutation in offset order, equal keys in their order.
InOrder(s, p) ==
    \A i, j \in DOMAIN s : i < j =>
        \/ s[p[i]].off < s[p[j]].off
        \/ s[p[i]].off = s[p[j]].off /\ p[i] < p[j]
Sorted(s) ==
    LET p == CHOOSE p \in [DOMAIN s -> DOMAIN s] : InOrder(s, p) /\ Range(p) = DOMAIN s
    IN  [i \in DOMAIN s |-> s[p[i]]]

\* free: push, sort by offset, and merge each entry with the next while they
\* touch.  NoMerge only sorts.
Merge(acc, h) ==
    IF acc /= <<>> /\ acc[Len(acc)].off + acc[Len(acc)].len = h.off
      THEN [acc EXCEPT ![Len(acc)] = Entry(acc[Len(acc)].off, acc[Len(acc)].len + h.len)]
      ELSE Append(acc, h)
Merged(s) ==
    LET upto[n \in 0 .. Len(s)] == IF n = 0 THEN <<>> ELSE Merge(upto[n - 1], s[n])
    IN  upto[Len(s)]
NoMerge(s) == Sorted(s)
Coalesce(s) == Merged(Sorted(s))
FreeRange(off, len) ==
    /\ Bytes(off, len) \subseteq allocated
    /\ off + len <= ARENA_SIZE
    /\ free_list' = Coalesce(Append(free_list, Entry(off, len)))
    /\ allocated' = allocated \ Bytes(off, len)
    /\ UNCHANGED used

ListNext ==
    \/ \E len \in Length : AllocFromList(len) \/ AllocByBump(len)
    \/ \E off \in Offset, len \in Length : FreeRange(off, len)

ListSpec == ListInit /\ [][ListNext]_list_vars
----------------------------------------------------------------------------
(* Properties.                                                             *)

\* The arena that the list stands for: the bytes its entries cover.
AsArena == [base |-> 0, used |-> used,
            free |-> UNION { EntryOf(free_list[i]) : i \in DOMAIN free_list }]

(***************************************************************************)
(* Whatever the order of frees and of carving, the list is the set of      *)
(* maximal runs of free bytes, each once, below the bump pointer and clear *)
(* of what is allocated ("free_list entries are non-overlapping and within *)
(* [base, base + ARENA_SIZE)"): no request fails that a merged hole could  *)
(* serve.                                                                  *)
(***************************************************************************)
EntriesAreRuns ==
    /\ IsInjective(free_list)
    /\ Range(free_list) = Holes(AsArena.free)
    /\ AsArena.free \subseteq (0 .. used - 1) \ allocated

(***************************************************************************)
(* alloc and free on the list implement the specification of an arena:     *)
(* every step on the Vec is a step on the set of free bytes (best fit,     *)
(* bump, free with its sort and merge).                                    *)
(***************************************************************************)
A == INSTANCE ArenaSpec WITH arena <- AsArena
ImplementsArena == A!Spec
============================================================================
