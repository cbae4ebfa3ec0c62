------------------------------ MODULE Snapshot ------------------------------
(***************************************************************************)
(* Freezing a guest into a snapshot file and serving it again              *)
(* (src/snapshot.rs, src/snapshot/io.rs, src/cli/freeze.rs,                *)
(* src/cli/serve.rs, NR_SNAPSHOT in src/sys/process.rs).                   *)
(*                                                                         *)
(* One edge-cli process at a time: it boots a module or serves a file,     *)
(* runs the guest, and goes.  A descriptor names an object; descriptors    *)
(* share an object as the code shares an Arc (dup, the two ends of a       *)
(* pipe).  A page of memory is a value, 0 for a page of zeroes.  All the   *)
(* plain fields of Kernel (args, env, comm, exit_code, brk, vfs, clock,    *)
(* signals, cpu_ns) are one, misc.  What becomes of the sockets themselves *)
(* is in Sockets; here a socket can be opened again or not.                *)
(***************************************************************************)
EXTENDS Naturals, Sequences, Maps

CONSTANTS
    Module,     \* wasm files, told apart by their SHA-256
    NoHash,     \* [0u8; 32]: what NR_SNAPSHOT leaves in module_sha256
    Data,       \* the memory an instance of a module begins with, its data
                \* segments included; << >> when it exports none (or a shared one)
    Version,    \* format versions of the releases that wrote the files
    Programs,   \* for each guest, the set of things it does
    FirstFd,    \* descriptors below FirstFd are stdio; the code has 3
    FdLimit,    \* bound: the guest uses descriptors below FdLimit
    MaxPages,   \* bound: pages of memory
    MaxCount    \* bound: bytes in a buffer, a file position, an event counter

ASSUME SnapshotAssumption ==
    /\ NoHash \notin Module /\ Data \in [Module -> Seq(Nat)]
    /\ FirstFd \in Nat /\ FdLimit \in Nat /\ FirstFd <= FdLimit

SNAPSHOT_FORMAT_VERSION == 1

VARIABLES
    uses,       \* what this guest does
    phase,      \* what the edge-cli process is at
    mod,        \* the module it has instantiated
    table, object, cloexec, next_fd,    \* the descriptor table, and its objects
    mem,        \* linear memory, page by page
    mm,         \* pages the allocator has handed out
    misc,       \* the plain fields of Kernel
    present,    \* the guest's file can be opened for reading and writing
    disk,       \* the snapshot file: "absent", "torn" or "whole"
    image,      \* the KernelSnapshot in a whole file
    frozen,     \* the memory it was taken from
    todo        \* entries apply_snapshot_kernel_state has yet to rebuild

kernel == <<table, object, cloexec, next_fd, mm, misc>>
vars == <<uses, phase, mod, kernel, mem, present, disk, image, frozen, todo>>

Uses(what) == what \in uses
Fresh == [path |-> FALSE, n |-> 0, watch |-> {}]
Stdio == 0 .. FirstFd - 1

\* Kernel::new: stdio, each an empty buffer of its own.
New ==
    /\ table' = [fd \in Stdio |-> [kind |-> "Stdio", obj |-> fd]]
    /\ object' = [fd \in Stdio |-> Fresh]
    /\ cloexec' = {} /\ next_fd' = FirstFd /\ mm' = 0 /\ misc' = 0

\* No process: there is no kernel.
Gone ==
    /\ phase' = "down" /\ mem' = << >> /\ todo' = {}
    /\ table' = EmptyMap /\ object' = EmptyMap
    /\ cloexec' = {} /\ next_fd' = FirstFd /\ mm' = 0 /\ misc' = 0

Init ==
    /\ uses \in Programs /\ phase = "down" /\ mod \in Module
    /\ table = EmptyMap /\ object = EmptyMap /\ cloexec = {} /\ next_fd = FirstFd
    /\ mem = << >> /\ mm = 0 /\ misc = 0 /\ todo = {} /\ present = TRUE
    /\ disk = "absent" /\ image = EmptyMap /\ frozen = << >>

\* Bound: no guest boots past a file that can be served.
Boot(m) ==
    /\ phase = "down" /\ disk # "whole" /\ phase' = "running"
    /\ mod' = m /\ mem' = Data[m] /\ New
    /\ UNCHANGED <<uses, present, disk, image, frozen, todo>>
----------------------------------------------------------------------------
(* The guest's calls, by what they do to the state that is saved.          *)

\* Bound: a guest that has written a whole file goes on to end or to be frozen;
\* the file does not see what else it does.
Guest ==
    /\ phase = "running" /\ disk # "whole"
    /\ UNCHANGED <<uses, phase, mod, present, disk, image, frozen, todo>>
OnlyFds == UNCHANGED <<mem, mm, misc>>

\* The objects some descriptor still names.
Referenced(t, o) == [i \in { t[fd].obj : fd \in DOMAIN t } |-> o[i]]

\* openat, eventfd2, epoll_create1, socket: one descriptor, its own object.
Open(kind) ==
    /\ Guest /\ OnlyFds /\ Uses(kind) /\ next_fd < FdLimit
    /\ kind \in {"File", "Dir"} => present
    /\ table' = Put(table, next_fd, [kind |-> kind, obj |-> next_fd])
    /\ object' = Put(object, next_fd, [Fresh EXCEPT !.path = kind \in {"File", "Dir"}])
    /\ next_fd' = next_fd + 1 /\ UNCHANGED cloexec

\* pipe2: two ends of one buffer.
Pipe2 ==
    /\ Guest /\ OnlyFds /\ Uses("Pipe") /\ next_fd + 1 < FdLimit
    /\ table' = Put(Put(table, next_fd, [kind |-> "PipeRead", obj |-> next_fd]),
                    next_fd + 1, [kind |-> "PipeWrite", obj |-> next_fd])
    /\ object' = Put(object, next_fd, Fresh)
    /\ next_fd' = next_fd + 2 /\ UNCHANGED cloexec

Dup(fd) ==
    /\ Guest /\ OnlyFds /\ Uses("dup") /\ next_fd < FdLimit
    /\ table[fd].kind \notin {"Epoll", "EventFd"}
    /\ table' = Put(table, next_fd, table[fd])
    /\ next_fd' = next_fd + 1 /\ UNCHANGED <<object, cloexec>>

Close(fd) ==
    /\ Guest /\ OnlyFds /\ Uses("close")
    /\ table' = Del(table, fd) /\ object' = Referenced(table', object)
    /\ cloexec' = cloexec \ {fd} /\ UNCHANGED next_fd

SetCloexec(fd) ==
    /\ Guest /\ OnlyFds /\ Uses("cloexec")
    /\ cloexec' = cloexec \cup {fd} /\ UNCHANGED <<table, object, next_fd>>

\* write to a pipe or an eventfd, read or write of a file: the count moves on.
Advance(fd) ==
    /\ Guest /\ OnlyFds
    /\ table[fd].kind \in {"PipeWrite", "File", "EventFd"}
    /\ object[table[fd].obj].n < MaxCount
    /\ object' = [object EXCEPT ![table[fd].obj].n = @ + 1]
    /\ UNCHANGED <<table, cloexec, next_fd>>

\* read of a pipe or an eventfd.
Drain(fd) ==
    /\ Guest /\ OnlyFds
    /\ table[fd].kind \in {"PipeRead", "EventFd"} /\ object[table[fd].obj].n > 0
    /\ object' = [object EXCEPT ![table[fd].obj].n = 0]
    /\ UNCHANGED <<table, cloexec, next_fd>>

EpollCtl(ep, fd) ==
    /\ Guest /\ OnlyFds /\ table[ep].kind = "Epoll" /\ ep # fd
    /\ object' = [object EXCEPT ![table[ep].obj].watch = @ \cup {fd}]
    /\ UNCHANGED <<table, cloexec, next_fd>>

Store(i, v) ==
    /\ Guest /\ Uses("memory") /\ mem' = [mem EXCEPT ![i] = v] /\ UNCHANGED kernel

\* mmap: one more page, which memory.grow has zeroed.
Mmap ==
    /\ Guest /\ Uses("memory") /\ mem # << >> /\ Len(mem) < MaxPages
    /\ mem' = Append(mem, 0) /\ mm' = Len(mem')
    /\ UNCHANGED <<table, object, cloexec, next_fd, misc>>

SetField ==
    /\ Guest /\ Uses("fields") /\ misc' = 1 - misc
    /\ UNCHANGED <<table, object, cloexec, next_fd, mm, mem>>
----------------------------------------------------------------------------
(* Freezing.                                                               *)

\* collect_pages: the pages that are not zero, under their index.
\* PagesPacked counts only the pages it keeps.
PagesPacked(m) ==
    LET kept == SelectSeq(m, LAMBDA p : p # 0) IN [i \in DOMAIN kept |-> kept[i]]
collect_pages(m) == [i \in { j \in DOMAIN m : m[j] # 0 } |-> m[i]]

\* An entry of FdSnapshot: the object's content, not its identity.
EntrySnapshot(fd) == [kind |-> table[fd].kind, body |-> object[table[fd].obj]]

build_kernel_snapshot ==
    [fds |-> [fd \in DOMAIN table |-> EntrySnapshot(fd)],
     cloexec |-> cloexec, next_fd |-> next_fd, mm |-> mm, misc |-> misc]

\* write_snapshot_file: fs::write truncates the file and then fills it.  It may
\* fail before, or after the truncation.
WriteFile(hash, v) ==
    \/ /\ disk' = "whole" /\ frozen' = mem
       /\ image' = [format_version |-> v, module_sha256 |-> hash,
                    pages |-> collect_pages(mem), kernel |-> build_kernel_snapshot]
    \/ disk' = "torn" /\ image' = EmptyMap /\ frozen' = << >>
    \/ UNCHANGED <<disk, image, frozen>>

\* NR_SNAPSHOT: the guest goes on.
snapshot_syscall(v) ==
    /\ phase = "running" /\ Uses("NR_SNAPSHOT") /\ WriteFile(NoHash, v)
    /\ UNCHANGED <<uses, phase, mod, kernel, mem, present, todo>>

\* freeze: the guest has returned or its time is up; the process ends.
freeze_snapshot(v) ==
    /\ phase = "running" /\ WriteFile(mod, v) /\ Gone
    /\ UNCHANGED <<uses, mod, present>>

\* The process is killed, or the guest ends, without a freeze.
Exit ==
    /\ phase \in {"running", "refused", "failed"} /\ Gone
    /\ UNCHANGED <<uses, mod, present, disk, image, frozen>>

\* Somebody else removes the guest's file, or puts one back.
HostFile ==
    /\ Uses("File") /\ phase # "running" /\ present' = ~present
    /\ UNCHANGED <<uses, phase, mod, kernel, mem, disk, image, frozen, todo>>
----------------------------------------------------------------------------
(* Serving.                                                                *)

\* verify_module_hash: an image with no hash is served to any module.
verify_module_hash(m) == image.module_sha256 \in {NoHash, m}

\* FdTable::empty, after the plain fields and mm are in place.
Reset ==
    /\ misc' = image.kernel.misc /\ mm' = image.kernel.mm
    /\ table' = EmptyMap /\ object' = EmptyMap /\ cloexec' = {} /\ next_fd' = FirstFd
    /\ todo' = DOMAIN image.kernel.fds

\* serve_loop as far as the reset: a file that is absent or torn ends it before
\* there is a kernel.  Refuse is what it does with an image it will not apply.
\* ResetAndRefuse finds out when the state is half replaced.
ResetAndRefuse == phase' = "refused" /\ Reset
Refuse == phase' = "refused" /\ New /\ UNCHANGED todo
serve_loop(m) ==
    /\ phase = "down" /\ disk = "whole"
    /\ mod' = m /\ mem' = Data[m]
    /\ IF verify_module_hash(m) /\ image.format_version = SNAPSHOT_FORMAT_VERSION
       THEN phase' = "entries" /\ Reset
       ELSE Refuse
    /\ UNCHANGED <<uses, present, disk, image, frozen>>

\* insert_at on the table being rebuilt, the object a fresh one.
InsertAt(fd) ==
    LET e == image.kernel.fds[fd] IN
    /\ table' = Put(table, fd, [kind |-> e.kind, obj |-> fd])
    /\ object' = Put(object, fd, e.body)
    /\ next_fd' = IF fd >= next_fd THEN fd + 1 ELSE next_fd
    /\ todo' = todo \ {fd}
    /\ UNCHANGED <<phase, cloexec, mm, misc>>

\* Which entries can be rebuilt: never a directory or a TCP client; a file if
\* the host still has it; a listener if its port can be had.
Rebuilds(fd, free) ==
    LET kind == image.kernel.fds[fd].kind IN
    /\ kind \notin {"Dir", "Client"}
    /\ kind = "File" => present
    /\ kind = "Listener" => free

\* One turn of the loop over the entries, in the order of their descriptors.
\* EntrySkipped goes on past an entry it cannot rebuild.
EntrySkipped(fd) == todo' = todo \ {fd} /\ UNCHANGED <<phase, kernel>>
EntryFails(fd) == phase' = "failed" /\ UNCHANGED <<kernel, todo>>
ApplyEntry ==
    /\ phase = "entries" /\ todo # {}
    /\ \E fd \in todo, free \in BOOLEAN :
        /\ \A later \in todo : fd <= later
        /\ IF Rebuilds(fd, free) THEN InsertAt(fd) ELSE EntryFails(fd)
    /\ UNCHANGED <<uses, mod, mem, present, disk, image, frozen>>

\* The end of apply_snapshot_kernel_state.
EntriesDone ==
    /\ phase = "entries" /\ todo = {} /\ phase' = "memory"
    /\ cloexec' = image.kernel.cloexec /\ next_fd' = image.kernel.next_fd
    /\ UNCHANGED <<uses, mod, table, object, mem, mm, misc, present, disk, image, frozen, todo>>

\* What a memory holds at page i: memory.grow adds pages of zeroes.
Page(m, i) == IF i \in DOMAIN m THEN m[i] ELSE 0

\* apply_snapshot_to_memory: grows to the last page saved, which the host may
\* refuse, and copies the pages in.  serve_loop itself fails without a memory.
apply_snapshot_to_memory ==
    /\ phase = "memory"
    /\ LET pages == image.pages
           lens == {Len(mem)} \cup DOMAIN pages
       IN  \E len \in lens :
            /\ \A other \in lens : other <= len
            /\ \/ /\ mem # << >>
                  /\ phase' = "ready"
                  /\ mem' = [i \in 1 .. len |-> IF i \in DOMAIN pages THEN pages[i]
                                               ELSE Page(mem, i)]
               \/ /\ mem = << >> \/ len > Len(mem)
                  /\ phase' = "failed" /\ UNCHANGED mem
    /\ UNCHANGED <<uses, mod, kernel, present, disk, image, frozen, todo>>

\* call_start.  Bound: a file is served once (migrate deletes it).
CallStart ==
    /\ phase = "ready" /\ phase' = "running"
    /\ disk' = "absent" /\ image' = EmptyMap /\ frozen' = << >>
    /\ UNCHANGED <<uses, mod, kernel, mem, present, todo>>
----------------------------------------------------------------------------
Kinds == {"File", "Dir", "EventFd", "Epoll", "Listener", "Client"}

GuestCall ==
    \/ \E kind \in Kinds : Open(kind)
    \/ Pipe2
    \/ \E fd \in DOMAIN table :
          \/ Dup(fd) \/ Close(fd) \/ SetCloexec(fd) \/ Advance(fd) \/ Drain(fd)
          \/ \E ep \in DOMAIN table : EpollCtl(ep, fd)
    \/ \E i \in DOMAIN mem, v \in 0 .. 1 : Store(i, v)
    \/ Mmap
    \/ SetField

Next ==
    \/ \E m \in Module : Boot(m) \/ serve_loop(m)
    \/ GuestCall
    \/ \E v \in Version : snapshot_syscall(v) \/ freeze_snapshot(v)
    \/ Exit
    \/ HostFile
    \/ ApplyEntry
    \/ EntriesDone
    \/ apply_snapshot_to_memory
    \/ CallStart

Spec == Init /\ [][Next]_vars
----------------------------------------------------------------------------
(***************************************************************************)
(* A guest that serve starts has the kernel that was frozen: a snapshot    *)
(* taken of it at that moment would be the one it was restored from, down  *)
(* to the next descriptor and the close-on-exec flags.  What cannot be     *)
(* rebuilt ends the serve; the guest never runs on part of a kernel        *)
(* (apply_snapshot_kernel_state, serve_loop).                              *)
(***************************************************************************)
RoundTrip == phase = "ready" => build_kernel_snapshot = image.kernel

(***************************************************************************)
(* The memory of a restored guest is the frozen one, up to zero pages at   *)
(* its end, if the guest had zeroed no page that its module fills with     *)
(* data (collect_pages keeps no zero page, apply_snapshot_to_memory writes *)
(* the pages kept).                                                        *)
(***************************************************************************)
MemoryRestored ==
    /\ phase = "ready"
    /\ \A i \in DOMAIN frozen : frozen[i] = 0 => Page(Data[mod], i) = 0
    /\ Len(Data[mod]) <= Len(frozen)
    => \A i \in DOMAIN mem \cup DOMAIN frozen : Page(mem, i) = Page(frozen, i)

(***************************************************************************)
(* An image of another module or of another format version is refused      *)
(* before anything of it is applied: the kernel and the memory are those   *)
(* of a module just instantiated (verify_module_hash "MUST be called       *)
(* BEFORE any apply_snapshot_*", the version test at the head of           *)
(* apply_snapshot_kernel_state).                                           *)
(***************************************************************************)
RefusedUntouched ==
    phase = "refused" =>
        /\ DOMAIN table = Stdio /\ next_fd = FirstFd /\ cloexec = {}
        /\ misc = 0 /\ mm = 0 /\ mem = Data[mod]
=============================================================================
