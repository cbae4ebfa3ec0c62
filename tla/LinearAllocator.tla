-------------------------- MODULE LinearAllocator --------------------------
(***************************************************************************)
(* mmap, munmap, mremap and brk over the guest's linear memory             *)
(* (src/sys/memory.rs, src/mm/mod.rs).                                     *)
(*                                                                         *)
(* The guest is well behaved: it unmaps and remaps only bytes it holds.    *)
(* An allocation larger than an arena, a file mapping or a flag the kernel *)
(* does not know returns an error before anything changes.                 *)
(***************************************************************************)
EXTENDS Arena, Sequences, Words

CONSTANTS
    FIRST_ARENA_BASE,   \* where the first arena goes
    PAGE_SIZE,          \* unit of Memory::grow
    InitMem, MaxMem     \* size of linear memory: initial, and Wasm's limit

ASSUME AllocatorAssumption ==
    /\ FIRST_ARENA_BASE \in Nat /\ PAGE_SIZE \in Nat \ {0}
    /\ InitMem \in Nat /\ MaxMem \in Nat /\ U32 \in Nat
    /\ InitMem <= MaxMem /\ MaxMem < U32 /\ FIRST_ARENA_BASE < U32

VARIABLES
    arenas,     \* Vec<Arena>
    high_water, \* where the next arena goes
    mem,        \* bytes of linear memory
    held,       \* the bytes the guest has mapped
    touched,    \* history: bytes the guest may have written
    given       \* the bytes the last call handed to the guest

alloc_vars == <<arenas, high_water, mem, held, touched, given>>

AllocTypeOK ==
    /\ arenas \in Seq(Arenas)
    /\ high_water \in 0 .. U32 - 1
    /\ mem \in 0 .. MaxMem
    /\ held \subseteq Nat /\ touched \subseteq Nat /\ given \subseteq Nat

AllocInit ==
    /\ arenas = <<>>
    /\ high_water = FIRST_ARENA_BASE
    /\ mem = InitMem
    /\ held = {} /\ touched = {} /\ given = {}

\* The guest receives the bytes S, and may write them at once.
Give(S) ==
    /\ held' = held \cup S
    /\ touched' = touched \cup S
    /\ given' = S
----------------------------------------------------------------------------
\* LinearAllocator::mmap on (arenas ars, high water hw) with size bytes of
\* memory: the first arena that can, or a new arena, or "grow by need bytes".
\* The set of possible results; at holds the address, if there is one.
\* DecideUnsized never asks for growth.
Able(ars, len) == { i \in DOMAIN ars : Alloc(ars[i], len) /= {} }
FirstAble(ars, len) == { i \in Able(ars, len) : \A j \in Able(ars, len) : i <= j }
InExisting(ars, hw, len) ==
    UNION { { [arenas |-> [ars EXCEPT ![i] = r.arena], hw |-> hw,
               at |-> {ars[i].base + r.off}, need |-> 0] : r \in Alloc(ars[i], len) }
            : i \in FirstAble(ars, len) }
InNew(ars, hw, len) ==
    { [arenas |-> Append(ars, r.arena), hw |-> (hw + ARENA_SIZE) % U32,
       at |-> {hw + r.off}, need |-> 0] : r \in Alloc(NewArena(hw), len) }
NeedGrow(ars, hw, size) ==
    { [arenas |-> ars, hw |-> hw, at |-> {}, need |-> hw + ARENA_SIZE - size] }
DecideUnsized(ars, hw, size, len) ==
    IF Able(ars, len) /= {} THEN InExisting(ars, hw, len) ELSE InNew(ars, hw, len)
Decide(ars, hw, size, len) ==
    CASE Able(ars, len) /= {} -> InExisting(ars, hw, len)
      [] Able(ars, len) = {} /\ hw + ARENA_SIZE > size -> NeedGrow(ars, hw, size)
      [] OTHER -> InNew(ars, hw, len)

\* The bytes a decision hands out.
Got(d, len) == UNION { Bytes(a, len) : a \in d.at }

\* need.div_ceil(PAGE_SIZE) pages.
Rounded(need) == ((need + PAGE_SIZE - 1) \div PAGE_SIZE) * PAGE_SIZE

\* The mmap system call, to the end: one decision, growth if that asked for
\* it, and a second decision in any case.  Growth may fail; so may, without
\* growth, the second decision.
GrowFails(len) ==
    /\ \E d \in Decide(arenas, high_water, mem, len) : d.need > 0
    /\ given' = {}
    /\ UNCHANGED <<arenas, high_water, mem, held, touched>>
Mmap(len) ==
    \E d \in Decide(arenas, high_water, mem, len) :
      /\ mem + Rounded(d.need) <= MaxMem
      /\ mem' = mem + Rounded(d.need)
      /\ \E e \in Decide(d.arenas, d.hw, mem', len) :
           /\ arenas' = e.arenas
           /\ high_water' = e.hw
           /\ Give(Got(e, len))

\* munmap: the arena that contains the range takes it back.
Holder(addr, len) == { i \in DOMAIN arenas : InArena(arenas[i], addr, len) }
Munmap(addr, len) ==
    /\ Bytes(addr, len) \subseteq held
    /\ \E i \in Holder(addr, len) :
         /\ \A j \in Holder(addr, len) : i <= j
         /\ arenas' = [arenas EXCEPT ![i] = Free(arenas[i], addr - arenas[i].base, len)]
    /\ held' = held \ Bytes(addr, len)
    /\ given' = {}
    /\ UNCHANGED <<high_water, mem, touched>>

\* mremap to a smaller size returns at once and gives nothing back.
MremapShrink(addr, len, new_len) ==
    /\ Bytes(addr, len) \subseteq held
    /\ new_len <= len
    /\ held' = held \ (Bytes(addr, len) \ Bytes(addr, new_len))
    /\ given' = {}
    /\ UNCHANGED <<arenas, high_water, mem, touched>>

\* mremap to a larger size: the range must end at an arena's bump pointer.
\* It is not zero-filled.
CanGrow(ar, addr, len, new_len) ==
    /\ addr >= ar.base
    /\ addr - ar.base + len = ar.used
    /\ ar.used + (new_len - len) <= ARENA_SIZE
MremapGrow(addr, len, new_len) ==
    /\ Bytes(addr, len) \subseteq held
    /\ new_len > len
    /\ \E i \in DOMAIN arenas :
         /\ CanGrow(arenas[i], addr, len, new_len)
         /\ \A j \in 1 .. i - 1 : ~CanGrow(arenas[j], addr, len, new_len)
         /\ arenas' = [arenas EXCEPT ![i].used = @ + (new_len - len)]
    /\ Give(Bytes(addr + len, new_len - len))
    /\ UNCHANGED <<high_water, mem>>

AllocNext ==
    \/ \E len \in Length : Mmap(len) \/ GrowFails(len)
    \/ \E addr \in held, len \in Length : Munmap(addr, len)
    \/ \E addr \in held, len, new_len \in Length :
          MremapShrink(addr, len, new_len) \/ MremapGrow(addr, len, new_len)

AllocSpec == AllocInit /\ [][AllocNext]_alloc_vars
----------------------------------------------------------------------------
(* Properties.                                                             *)

\* What mmap or mremap hands out, the guest did not hold already: mappings
\* never overlap, whatever was mapped, unmapped and remapped before.
NoOverlap == [][given' \cap held = {}]_alloc_vars

\* Every mapping lies inside linear memory, so mmap's zero-fill is never
\* skipped.
InMemory == \A b \in held : b < mem

\* mremap does not zero what it adds and need not: no byte of it has been in
\* the guest's hands before.
ExtensionFresh ==
    [][ \A addr \in held : \A len, new_len \in Length :
          MremapGrow(addr, len, new_len) => given' \cap touched = {} ]_alloc_vars
============================================================================
