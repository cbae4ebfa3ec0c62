# Verification of edge-libos

edge-libos runs WebAssembly guests on a Linux personality written in Rust: a
guest's system calls arrive at `dispatch.rs` and are answered by the handlers
under `src/sys/`. This directory holds TLA+ specifications of its stateful
parts, TLC configurations that check them on small instances, and TLAPS proofs
that hold for every size. Paths below are relative to the repository.

## 1. The system

There are two kinds of state, and the difference decides what can go wrong.

* `Kernel` (`src/kernel.rs`) belongs to one Wasmtime `Store`: descriptors,
  allocator, file system, sockets. One system call at a time touches it, so its
  hazards are long sequences of legal calls, numeric edges and state that a call
  takes with it across an `await`. What interferes is outside: peers, other
  programs on the host, timers, and the time-out of `freeze`, which drops a
  parked call with everything it holds.
* `ProcessState` is shared by the threads of a process behind locks: futex
  table, children, `child_event`, resolver. Its hazards are interleavings. No
  lock is held across an `await`, so an operation is several critical sections
  with gaps between them.

`snapshot.rs` and the commands `freeze` and `serve` carry a kernel from one
process to another, through a file, and meet every other part.

| Part | Specification | Composed with |
|---|---|---|
| futex (`sys/futex.rs`) | `Futex` | snapshot and restore of the table |
| children (`sys/process.rs`) | `Wait4` | the children's threads |
| descriptors (`fd.rs`, `sys/file.rs`) | `FdTable` | inherited listeners, restore |
| allocator (`mm/`, `sys/memory.rs`) | `LinearAllocator`, `Arena`, `FreeList`, `ArenaSpec` | growth of memory |
| paths (`vfs.rs`, `sys/path.rs`) | `Vfs` | |
| files, directories (`sys/file.rs`) | `Files` | `Vfs`, the host's tree |
| pipes, eventfd, poll, epoll | `Readiness` | each other, and their timers |
| sockets, UDP (`sys/socket.rs`, `sys/udp.rs`) | `Sockets` | the network, freeze and restore |
| resolver (`sys/resolver.rs`) | `Resolver` | threads, a slow backend, the clock |
| snapshot, freeze, serve | `Snapshot` | the host's files, crashes, other releases |

`Maps` has insert and remove of a Rust `HashMap`, `Words` the width of u32. A
module `XProofs` has the theorems about `X`, a module `MCX` the constants for
TLC. `ProcessProofs` has the theorems about `FdTable`, `Wait4` and
`LinearAllocator`, `MemoryProofs` those about `FreeList` and `Snapshot`;
`SocketsInvariant` the invariant that `SocketsProofs` uses,
with the lemmas about calls that move no byte and make no connection.

## 2. The modules

**Futex.** A step is one critical section or one operation on a tokio `Notify`.
`FutexWait` is phase 2 of `futex_wait`, `Poll` the first poll of `notified()`,
`Expire` and `DropNotified` the time-out (a dropped future that was already
chosen passes its notification on), `Return` phase 4. `FutexWake` is the locked
part of `futex_wake`, `NotifyIteration` one turn of its loop. The futex word is
the guest's, so the value check is a free choice. `FreezeRestore` keeps the
counters and drops the waiters. `Notify` is a library, modelled by its
documented behaviour: `notify_one` wakes one queued waiter or stores one permit.

**Wait4.** `life` is the program counter of a child's thread, `call` that of a
parent's thread. `Fork` and `Register` both insert an entry (the second replaces
the first and its `Notify`); `Crash` and `CrashSignal` are `register_and_signal`;
`Exit` and `Drain` are `reap_all_children`. `notify_waiters` leaves no permit.

**FdTable.** A resource is the identity of its open description. u32 addition
is modulo `U32`, as in a release build. `Restore` rebuilds every entry as a
description of its own, and inherited listeners only if passed again.

**Arena, ArenaSpec, FreeList, LinearAllocator.** `Arena` gives alloc and free on
the set of free bytes, as operators; `ArenaSpec` is the specification of one
arena made of them. `FreeList` has the `Vec` the code keeps, with `swap_remove`,
split, sort and merge, and implements `ArenaSpec` under the mapping
`arena <- AsArena`. The sort is what `sort_by_key` returns, the permutation in
offset order that keeps equal keys in place; the merge loop is a function over
the prefixes of the sorted list. `LinearAllocator` is the mmap, munmap and mremap calls over
`Arena`, so what it shows holds of the list. The guest unmaps and remaps only
what it holds.

**Vfs, Files.** A host path is a sequence of names, a guest path may contain
`..`. `Resolve` and `Normalize` are `path::resolve` and `normalize`; resolution
is lexical. In `Files` a file is its size, so a read stands for the interval it
returns, and a `FilePos` has both `pos` and the host's cursor. A directory
descriptor keeps the path it was opened with, `dir_cache` the bytes of a listing.

**Readiness.** `PollOne` and `ComputeRevents` are the two readiness tables.
`call` is the parked call: nothing else runs in its `Store`, and all notifiers
are run by that guest, so a parked call ends at its timer or not at all. A byte
is its number in its stream; `sent`, `got`, `added`, `taken` are history. A
guest uses one kind of descriptor and perhaps epoll (`Programs`).

**Sockets.** `call` holds the listener or stream that `accept4`, `send*` or
`recv*` has taken out of `SocketInner`. The host is modelled by connections with
two ends, backlogs, ports in use and one AF_UNIX path. `Freeze` drops a parked
call and takes the snapshots; `Restore` reopens them among ports that others may
have taken and inherited descriptors that may not come back.

**Resolver.** A thread is idle, in a lookup, or back with a list. An entry
carries its age and, as history, the age of the answer in it. `Resume` inserts
the answer, evicting first when the cache is full, as the code does even for a
name that is present. The layout of the `addrinfo` list is computed in bytes.

**Snapshot.** One `edge-cli` process at a time boots a module or serves a file.
`freeze_snapshot` and `snapshot_syscall` write the image, or tear it;
`serve_loop` reads it and verifies the hash, `ApplyEntry` rebuilds one descriptor
at a time and may fail, `apply_snapshot_to_memory` grows and copies. A page is a
value, 0 for zeroes. The plain fields of `Kernel` are one field, `misc`.

## 3. The runs

| Run | Instance | What it shows |
|---|---|---|
| `futex` | 3 threads, 1 address | no counter exceeds the threads inside plus restored ones; an address nobody waits on has no entry; no WAIT returns 0 without a WAKE; a WAKE that empties an entry wakes at least one waiter |
| `wait4` | 2 threads, 1 child | a registration is reaped once at most; a thread parked on a handle that an exit path has still to notify wakes |
| `fd_table` | 4 descriptors, 5 descriptions | every bound descriptor is below `next_fd`; no allocating call replaces one |
| `allocator` | 2 arenas of 2 units, pages that do not divide arenas | mappings never overlap and lie in memory; what mremap adds was never handed out |
| `free_list` | 1 arena of 5 units | the entries are the maximal runs of free bytes; the list implements `ArenaSpec` |
| `files` | 2 names, a directory outside the root, 2 descriptors, chunks of 2 | the guest stays below its root, also through stale directory descriptors; a write misses the position by less than a chunk; readv is read; a directory pass is one listing |
| `readiness` | 1 pipe besides stdio, 1 duplicate, 1 registration, counter limit 2 | bytes and counts are conserved; no call sleeps over a ready pipe; what is reported can be read; a call with a timer returns |
| `sockets` | 2 descriptors, 1 connection, 2 bytes, 9 kinds of guest | bytes arrive once and in order; getpeername, and getsockname for UDP, tell the truth; listeners are kept and come back after a restore |
| `snapshot` | 3 modules, 2 releases, 5 kinds of guest, 3 pages | a guest that starts has the frozen kernel and memory; a refused image changes nothing |
| `resolver` | 2 threads, 2 names, 1 cache entry | a cached answer is younger than ttl plus time-out; the list is well formed and holds no denied address; a lookup ends |
| `futex_sleeper` | as `futex` | `SleeperReachable` is violated |
| `sockets_port` | as `sockets` | `PortSurvives` is violated |

The two violated properties quote the repository:

* `SleeperReachable`: ADR 0001 says an entry is removed "when no waiters
  remain". `futex_wake` and `release_waiter` both decrement, so an entry goes
  while a thread still sleeps, and no later WAKE finds that thread.
* `PortSurvives`: `freeze.rs` and `snapshot.rs` say that the snapshot of a server
  on port 0 records the port it got. A server parked in `accept4` has its
  listener out of `SocketInner`, and the port recorded is 0.

**Bounds.** Three threads are the fewest for a waker, a woken thread and a
sleeper. `MaxReported` 2 allows one WAKE of two or two of one; with 3 the
properties of `futex` hold as well (392,996 states instead of 113,768). Children meet only in `child_event` and in
`exit`, so one suffices for `wait4`. Five units allow a split, a merge on both
sides and an exact fit. Two names and a directory outside give `..` something to
reach, and a size of 3 with chunks of 2 gives the cursor room to run ahead. One
connection with two bytes has a short read, a peek and a rest; two descriptors
are a server and what it accepts, or two rivals for a port. In `sockets`,
`readiness` and `snapshot` a guest is limited to a kind (`Programs`), because the
kinds touch disjoint state; each kind has all the calls of its component. One
cache entry for two names forces evictions. One descriptor asked about at a time
is enough in `readiness` as the tables treat descriptors one by one, and the
theorems are for any number.

**Deadlock** is not checked where the system may really stop: `wait4` (the PID
is used up, threads are parked), `files`, `readiness` (a wait without a timer)
and `sockets` (a frozen process).

**Fairness.** `Futex`: each thread's steps inside a call, as tokio polls a woken
task and the rest is straight-line code; none for calls or time-outs. `Wait4`: a
child's thread after marking or after a failure, the loop in exit, and wait4
while it is not parked; none for `_start` or calls. `Readiness`: the timers of
parked calls. `Resolver`: the clock, the time-out and the resumption of a thread
whose lookup is over; the backend owes nothing. All of it is weak.

Each property of a passing run has a mutant: an operator beside the definition
it distorts (a missing check, an off-by-one, a dropped release), under which TLC
finds that property violated.

## 4. The proofs

| Theorem | States, for every value of the constants |
|---|---|
| `ProcessProofs!NextFdSafe` | type and `NextFdAboveBound`, if `FdLimit < U32` |
| `ProcessProofs!NoSilentRebindHolds` | `NoSilentRebind`, if `FdLimit < U32` |
| `ProcessProofs!ReapSafe` | type, `ReapsMatchEntries` |
| `FutexProofs!FutexTableSafe` | type, `NoOvercount`, `TableDrains` |
| `FutexProofs!ReturnsAreWoken` | `NoSpuriousReturn` |
| `ProcessProofs!MappingsInMemory` | type, `InMemory` |
| `ProcessProofs!MappingsApart` | `NoOverlap` |
| `ProcessProofs!ExtensionsFresh` | `ExtensionFresh` |
| `FilesProofs!CwdStaysUnderRoot` | `CwdUnderRoot` |
| `FilesProofs!StaysConfined` | `Confined` |
| `FilesProofs!CursorNeverFar` | `CursorOvershoot` |
| `FilesProofs!ReadvReads` | `ReadvIsRead` |
| `FilesProofs!DirStreamHolds` | `DirStream` |
| `ReadinessProofs!PipesLoseNothing` | `StreamFifo` |
| `ReadinessProofs!CountersLoseNothing` | `EventConserved` |
| `ReadinessProofs!WaitsOnlyWhenIdle` | `NeverSleepsReady` |
| `ReadinessProofs!ReportsHold` | `ReportsActionable` |
| `SocketsProofs!StreamsInOrder` | `StreamOrder` |
| `SocketsProofs!PeersAreNamed` | `PeerNamed` |
| `SocketsProofs!ListenersAreKept` | `ListenerKept` |
| `SocketsProofs!UdpNamesHold` | `UdpNames` |
| `SocketsProofs!ListenersComeBack` | `ListenersSurvive` |
| `ResolverProofs!AnswersFresh` | `Fresh` |
| `ResolverProofs!ListsWellFormed` | `ListWellFormed` |
| `MemoryProofs!FreeListRuns` | `EntriesAreRuns` |
| `MemoryProofs!FreeListIsArena` | `ImplementsArena` |
| `MemoryProofs!FreezeServe` | `RoundTrip` |
| `MemoryProofs!MemoryKept` | `MemoryRestored` |
| `MemoryProofs!RefusalIsClean` | `RefusedUntouched` |

* **FdTable.** The invariant adds `next_fd <= FdLimit`, which keeps the u32
  addition from wrapping. Without `FdLimit < U32` it can wrap to 0.
* **Futex.** `TableDrains` needs `NoEmptyEntry` (an entry counts at least one
  waiter) together with `NoOvercount`. For `NoSpuriousReturn` each reported wake
  is a token: a `notify_one` still to be called, a stored permit, a chosen waiter
  that has not returned, or a return. `Accounted` says that they add up to no more
  than was reported, and each step moves, drops or (a WAKE) creates tokens.
* **Wait4.** Each insertion is counted, and each reap removes an entry.
* **LinearAllocator.** Arenas lie one after the other below `high_water` and
  inside memory, held bytes were touched, touched bytes lie below some arena's
  bump pointer, and held bytes are in no free set. An extension is fresh because
  it starts at the bump pointer. Assumed: `MaxMem < U32`.
* **FreeList.** `ListInv` says that between any two entries there is a byte that
  neither covers, and that they lie below the bump pointer, clear of what is
  allocated.
  Entries that share no byte are not enough: two that touch are no maximal run.
  `alloc` keeps it in the four ways of cutting a hole. `free` pushes an entry
  that may touch others; a permutation in offset order exists (induction over
  the length, by inserting the last entry), and merging its prefixes one after
  the other restores the gaps and keeps the bytes. So the entries are the
  maximal runs, and the hole of least waste in the list is one `ArenaSpec` may
  choose, which makes every step on the list a step of `ArenaSpec`. Assumed: the
  lengths asked for lie in `1 .. ARENA_SIZE`.
* **Files.** Whatever `normalize` returns is below the root, whichever directory
  the resolution began at; so each path call changes names below it, and a
  rename moves a subtree to a place below it. Nothing is assumed of the paths
  recorded in descriptors, which may be stale. The other three theorems share
  `OpenInv`: the tree is finite and every inode that a name or an open file uses
  has a size; every open file has its cursor near `pos`; every directory pass has
  returned the part of its listing before `pos`, and `dir_cache` is that listing.
  What `readv` and `writev` do over any number of buffers is shown by induction
  on what `FoldLeft` computes. Assumed: the host's tree is finite to begin with.
* **Readiness.** `StreamFifo` is proved from its form element by element. The
  two properties of waiting calls need only that no other call runs while one is
  parked or its report is out, and that both tables agree with `read` about a
  read end.
* **Sockets.** `IInv` and its parts are in `SocketsInvariant`. The bytes of a stream are taken, peeked or in the host's buffer,
  numbered through; this needs that no two sockets, backlogs or parked calls have
  the same end (`Apart`), which a step could break only by duplicating a stream
  across an `await`. `Peered` ties a socket's `peer` to the other end,
  `Listeners` and `Udp` the addresses to those in use on the host, and `Image`
  the frozen image to the sockets it was made from.
* **Resolver.** The age of the answer in an entry exceeds that of the entry by
  the time-out at most, and so does the one a thread still has to insert. The
  list is the filtered answer, laid out: what the filter keeps and where the
  offsets lie is shown by induction over the answer.
* **Snapshot.** While entries are applied, the rebuilt part of the table and the
  entries still to do make up the image; the image's pages are the non-zero
  pages of the memory it was taken from.

The library's induction theorems have an operator as parameter, which the
provers cannot instantiate. The inductions here go by `SetInduction`: a set of
numbers with 0 and with every successor is `Nat`, from the well-foundedness of
`<`. A recursive function is first shown to exist, then to have its property.

Every invariant, every action property and the refinement that the passing runs
check is stated by one of these theorems. Only model-checked is liveness
(`WakeReachesSomeone`, `ParkedWakes`, `TimedWaitReturns`, `LookupEnds`): fairness
and `ENABLED` are out of the prover's reach.

## 5. Limits and known differences

Properties state what the code keeps, so some have a hypothesis where it does
not keep more:

* `MemoryRestored` supposes that the guest zeroed no page its module fills with
  data, and allows zero pages to be missing at the end. The comment on
  `collect_pages` promises a "byte-identical" memory without either.
* `RoundTrip` compares snapshots, which do not record that two descriptors
  shared a description; a restored pipe has two unconnected ends. The comment on
  `apply_snapshot` says the counter of an EventFd is reset; it is kept.
* `StreamOrder` gives up the order after a `recvfrom` that reads past peeked
  bytes (none is lost or repeated), and says nothing of a connection made while
  old peeked bytes are left.
* `ListenerKept` leaves out sockets whose `accept4` has failed with EIO or
  ENOMEM and has dropped their listener.
* `ListenersSurvive` leaves out a port the host chose when the freeze dropped the
  `accept4` holding the listener (the subject of `PortSurvives`), and a socket
  bound again elsewhere.
* `ParkedWakes` is about handles that an exit path notifies. An exit between
  `try_reap` and `notified()` is missed, a failed set-up notifies only
  `child_event`, and a re-registered child abandons its first handle.
* `NeverSleepsReady` leaves out stdin for poll, which calls it readable while it
  is open.
* The sum of ttl and time-out in `Fresh` is real: an entry is as young as its
  insertion, not as its answer, and an older answer may replace a newer one.

Modelled without a property: `dup` searches from `oldfd + 1`; `mmap` asks the
allocator twice and loses the first range; `RENAME_EXCHANGE` is a plain rename;
MSG_DONTWAIT may leave a socket non-blocking; a full cache evicts on a refresh;
F_SETFD marks unbound descriptors; an AF_UNIX bind that loses a race for its path
answers 0 unbound; an image written by the snapshot call has no module hash, and
that test is skipped for it; the counters of a restored futex table count
waiters that are gone.

Outside the models: descriptors at the top of u32, memories of 4 GiB, guests
that unmap what they do not hold, guest pointers that are bad half way through a
call, and symbolic links (`Confined` is about the names calls resolve to).

## 6. Not modelled

* Signals: recorded, never delivered. `signals_pending` only grows, and
  dispositions and masks are plain fields.
* clone: validates its flags, draws and registers a thread id and writes it to
  the guest; no thread is started yet.
* The UDP receive queue: only unit tests fill or empty it yet.
* migrate: runs freeze and serve one after the other as processes.
* Metering (Wasmtime counts the fuel), dispatch, guest memory views, time,
  identity, random, ioctl: no state that a later step depends on, apart from a
  single timer and the random generator.
* The byte encoding of snapshots, and the arguments, messages, tracing and
  benchmarks of the command line.
