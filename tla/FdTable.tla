------------------------------ MODULE FdTable ------------------------------
(***************************************************************************)
(* The per-kernel descriptor table (src/fd.rs, struct FdTable) and the     *)
(* system calls that allocate, duplicate, flag and close descriptors       *)
(* (src/sys/file.rs and the callers of FdTable::insert).                   *)
(*                                                                         *)
(* A Resource is abstracted to the identity of the open description it     *)
(* shares through its Arcs.  One Store owns the table exclusively, so one  *)
(* system call is one step.                                                *)
(***************************************************************************)
EXTENDS Naturals, Maps, Words

CONSTANTS
    FirstFd,    \* descriptors below FirstFd are stdio; the code has 3
    FdLimit,    \* the guest uses descriptor numbers below FdLimit only
    Object,     \* open descriptions
    Special,    \* the ones dup() refuses: Epoll and EventFd
    Inherited   \* listeners handed over by the parent process

ASSUME FdAssumption ==
    /\ FirstFd \in Nat /\ FdLimit \in Nat /\ U32 \in Nat
    /\ FirstFd <= FdLimit /\ FdLimit <= U32
    /\ FirstFd < U32
    /\ Special \subseteq Object /\ Inherited \subseteq Object

VARIABLES
    table,      \* HashMap<u32, Resource>
    next_fd,    \* the descriptor insert() hands out next
    cloexec     \* descriptors whose FD_CLOEXEC bit is set

table_vars == <<table, next_fd, cloexec>>

Fd == 0 .. U32 - 1
Usable == 0 .. FdLimit - 1
Live == { table[fd] : fd \in DOMAIN table }
Dupable(fd) == fd \in DOMAIN table /\ table[fd] \notin Special

TableTypeOK ==
    /\ DOMAIN table \subseteq Fd
    /\ table \in [DOMAIN table -> Object]
    /\ next_fd \in Fd
    /\ cloexec \subseteq Fd

\* with_buffered_stdio(): three distinct descriptions, nothing close-on-exec.
TableInit ==
    /\ table \in [0 .. FirstFd - 1 -> Object \ (Special \cup Inherited)]
    /\ \A f, g \in DOMAIN table : table[f] = table[g] => f = g
    /\ next_fd = FirstFd
    /\ cloexec = {}
----------------------------------------------------------------------------
(* The operations of struct FdTable.                                       *)

\* u32 addition: wraps in the release profile, which has no overflow checks.
\* SuccSkip leaves a descriptor out.
SuccSkip(fd) == fd + 2
Succ(fd) == (fd + 1) % U32

\* next_fd after fd has been bound by insert_at or insert_at_least.
\* BumpTo is off by one.
BumpTo(fd) == IF fd > next_fd THEN Succ(fd) ELSE next_fd
Bump(fd) == IF fd >= next_fd THEN Succ(fd) ELSE next_fd

\* insert(): takes next_fd without looking whether it is bound.
Insert(o) ==
    /\ next_fd < FdLimit
    /\ table' = Put(table, next_fd, o)
    /\ next_fd' = Succ(next_fd)

\* The descriptor insert_at_least(min, _) chooses: the first free one from min.
\* MinItself does not look whether it is free.
MinItself(min, fd) == fd = min
LowestFrom(min, fd) ==
    /\ fd >= min
    /\ fd \notin DOMAIN table
    /\ \A g \in min .. fd - 1 : g \in DOMAIN table

InsertAtLeast(min, o, fd) ==
    /\ LowestFrom(min, fd)
    /\ table' = Put(table, fd, o)
    /\ next_fd' = Bump(fd)

\* set_cloexec(fd, on): does not look whether fd is bound.
SetCloexec(fd, on) == IF on THEN cloexec \cup {fd} ELSE cloexec \ {fd}

\* close() also clears the bit.
Close(fd) ==
    /\ fd \in DOMAIN table
    /\ table' = Del(table, fd)
    /\ cloexec' = cloexec \ {fd}
    /\ UNCHANGED next_fd
----------------------------------------------------------------------------
(* The system calls.                                                       *)

\* openat, socket, accept4, epoll_create1, eventfd2: one fresh description.
\* O_CLOEXEC, SOCK_CLOEXEC and EFD_CLOEXEC are accepted and dropped.
Open(o) ==
    /\ o \in Object \ (Live \cup Inherited)
    /\ Insert(o)
    /\ UNCHANGED cloexec

\* pipe2 and socketpair: two consecutive inserts; the flags' CLOEXEC bit
\* is not looked at.
Pipe2(rd, wr) ==
    /\ {rd, wr} \subseteq Object \ (Live \cup Special \cup Inherited)
    /\ rd /= wr
    /\ next_fd < FdLimit /\ Succ(next_fd) < FdLimit
    /\ table' = Put(Put(table, next_fd, rd), Succ(next_fd), wr)
    /\ next_fd' = Succ(Succ(next_fd))
    /\ UNCHANGED cloexec

\* dup(old): insert_at_least(old + 1), never close-on-exec.
Dup(old, fd) ==
    /\ Dupable(old)
    /\ InsertAtLeast(Succ(old), table[old], fd)
    /\ cloexec' = SetCloexec(fd, FALSE)

\* dup2 and dup3 on two different descriptors: the target is closed, if it
\* was bound, and bound again with insert_at.
DupTo(old, new, want) ==
    /\ old /= new
    /\ Dupable(old)
    /\ table' = Put(Del(table, new), new, table[old])
    /\ next_fd' = Bump(new)
    /\ cloexec' = SetCloexec(new, want)

\* fcntl(fd, F_DUPFD or F_DUPFD_CLOEXEC, min).
FcntlDupFd(old, min, want, fd) ==
    /\ Dupable(old)
    /\ InsertAtLeast(min, table[old], fd)
    /\ cloexec' = SetCloexec(fd, want)

\* fcntl(fd, F_SETFD, on): any u32, bound or not.
FcntlSetFd(fd, on) ==
    /\ cloexec' = SetCloexec(fd, on)
    /\ UNCHANGED <<table, next_fd>>

\* attach_inherited_listeners: insert_at, whose EBADF is ignored.
AttachInherited(fd, o) ==
    /\ fd \notin DOMAIN table
    /\ o \in Inherited \ Live
    /\ table' = Put(table, fd, o)
    /\ next_fd' = Bump(fd)
    /\ UNCHANGED cloexec

\* apply_snapshot_kernel_state on the snapshot of this table: every entry is
\* rebuilt as a description of its own, except that an inherited listener
\* comes back only where the parent passes it again.  (It is inserted after
\* next_fd has been restored and lies below it, so next_fd stays.)
RestoreImages ==
    LET own == { fd \in DOMAIN table : table[fd] \notin Inherited }
    IN  UNION { [own \cup D -> Object] : D \in SUBSET (DOMAIN table \ own) }
Restore(new) ==
    /\ \A fd \in DOMAIN new :
          /\ (new[fd] \in Special) = (table[fd] \in Special)
          /\ (new[fd] \in Inherited) = (table[fd] \in Inherited)
    /\ \A f, g \in DOMAIN new : new[f] = new[g] => f = g
    /\ table' = new
    /\ UNCHANGED <<next_fd, cloexec>>

\* The calls that choose or fill a free descriptor.
Allocate ==
    \/ \E o \in Object : Open(o)
    \/ \E rd, wr \in Object : Pipe2(rd, wr)
    \/ \E old, fd \in Usable : Dup(old, fd)
    \/ \E old, min, fd \in Usable, want \in BOOLEAN : FcntlDupFd(old, min, want, fd)
    \/ \E fd \in Usable, o \in Object : AttachInherited(fd, o)

TableNext ==
    \/ Allocate
    \/ \E old, new \in Usable, want \in BOOLEAN : DupTo(old, new, want)
    \/ \E fd \in Usable, on \in BOOLEAN : FcntlSetFd(fd, on)
    \/ \E fd \in Usable : Close(fd)
    \/ \E new \in RestoreImages : Restore(new)

TableSpec == TableInit /\ [][TableNext]_table_vars
----------------------------------------------------------------------------
(* Properties.                                                             *)

\* insert() binds next_fd without testing it; that is sound because every
\* bound descriptor stays below next_fd, whatever dup2, F_DUPFD, inherited
\* listeners and a snapshot restore put in the table.
NextFdAboveBound == \A fd \in DOMAIN table : fd < next_fd

\* No allocating call (open, pipe2, dup, F_DUPFD, an inherited listener)
\* silently replaces what a bound descriptor refers to, although insert()
\* tests nothing; only close, dup2, dup3 and a restore change a binding.
NoSilentRebind ==
    [][ Allocate => \A fd \in DOMAIN table :
          fd \in DOMAIN table' /\ table'[fd] = table[fd] ]_table_vars
============================================================================
