------------------------------- MODULE Files -------------------------------
(***************************************************************************)
(* Files, directories and the working directory: the path and file calls   *)
(* of src/sys/file.rs over Vfs, with the host's file system as their       *)
(* environment.                                                            *)
(*                                                                         *)
(* The bytes of a file are abstracted to its size, so that a read stands   *)
(* for the interval it returns.  A FilePos has two positions: its own pos  *)
(* and the cursor of the host file behind it, which read moves by whole    *)
(* chunks and write never sets.  A call that fails and changes nothing has *)
(* no action.  Which number FdTable gives a descriptor is FdTable's        *)
(* subject; here it is the least unused one.                               *)
(***************************************************************************)
EXTENDS Vfs, Maps

CONSTANTS
    Name,       \* file names: positive numbers, in their sort order
    Preopen,    \* the preopened directory, a host path
    HostDirs,   \* the directories the host has at the start
    GuestPath,  \* bound: the paths the guest uses
    Fd,         \* bound: descriptor numbers
    MaxOpen,    \* bound: open file descriptions
    MaxInode,   \* bound: regular files
    MaxSize,    \* bound: the size of a file, and a position in it
    MaxNodes,   \* bound: names in the host's tree
    Chunk,      \* bytes the read loop takes from the host at a time (4096)
    RecLen      \* bytes of an encoded dirent64

ASSUME FilesAssumption ==
    /\ Name \subseteq Nat \ {0} /\ Preopen \in Seq(Name)
    /\ HostDirs \subseteq Seq(Name) /\ IsFiniteSet(HostDirs) /\ Preopen \in HostDirs
    /\ GuestPath \subseteq [abs : BOOLEAN, comps : Seq(Name \cup {Up})]
    /\ Fd \subseteq Nat
    /\ MaxOpen \in Nat /\ MaxInode \in Nat /\ MaxSize \in Nat /\ MaxNodes \in Nat
    /\ Chunk \in Nat \ {0} /\ RecLen \in Nat \ {0}

VARIABLES
    tree,       \* the host's names: path -> Dir or an inode
    size,       \* inode -> size, for the inodes in use
    root, cwd,  \* Vfs
    fds,        \* descriptor -> open file description (the Arc)
    file,       \* open file description -> FilePos
    seen        \* history: what getdents64 returned since the last rewind

vars == <<tree, size, root, cwd, fds, file, seen>>

Dir == 0
NoCache == [filled |-> FALSE, bytes |-> << >>]
NoPass == [listing |-> << >>, bytes |-> << >>]

Opened(fd) == file[fds[fd]]
IsDir(p) == p \in DOMAIN tree /\ tree[p] = Dir
IsFile(p) == p \in DOMAIN tree /\ tree[p] # Dir
Parent(p) == SubSeq(p, 1, Len(p) - 1)
CanCreate(p) == p # << >> /\ p \notin DOMAIN tree /\ IsDir(Parent(p))
                /\ Cardinality(DOMAIN tree) < MaxNodes
Below(p) == { q \in DOMAIN tree : Under(p, q) /\ q # p }

Init ==
    /\ tree = [p \in HostDirs |-> Dir]
    /\ size = EmptyMap
    /\ root = Preopen /\ cwd = Preopen
    /\ fds = EmptyMap /\ file = EmptyMap /\ seen = EmptyMap
----------------------------------------------------------------------------
(* Paths and the host's tree.                                              *)

\* The recorded path of every directory descriptor.
Dirs == [fd \in { f \in DOMAIN fds : Opened(f).is_dir } |-> Opened(fd).path]

\* Every call resolves its (dirfd, path) arguments first: the host paths it
\* can go on with.  The calls without a dirfd pass AT_FDCWD.
ResolvedFrom(dirfds) ==
    LET results == { Resolve(root, cwd, Dirs, d, p) : d \in dirfds, p \in GuestPath }
    IN  { res.path : res \in { x \in results : x.ok /\ x.path \in Seq(Name) } }
Resolved == ResolvedFrom({AT_FDCWD} \cup DOMAIN fds)
ResolvedAtCwd == ResolvedFrom({AT_FDCWD})

\* The host keeps an inode while a name or an open file refers to it.
InUse(t, f) == { t[p] : p \in DOMAIN t } \cup { f[o].ino : o \in DOMAIN f }
Kept(sz, t, f) == [i \in DOMAIN sz \cap InUse(t, f) |-> sz[i]]

\* mkdir, mkdirat.
Mkdirat(p) ==
    /\ CanCreate(p)
    /\ tree' = Put(tree, p, Dir)
    /\ UNCHANGED <<size, root, cwd, fds, file, seen>>

\* unlink, rmdir, unlinkat.
Unlinkat(p, removedir) ==
    /\ IF removedir THEN IsDir(p) /\ Below(p) = {} /\ p # << >> ELSE IsFile(p)
    /\ tree' = Del(tree, p)
    /\ size' = Kept(size, tree', file)
    /\ UNCHANGED <<root, cwd, fds, file, seen>>

\* std::fs::rename: the whole subtree moves, over a file or an empty
\* directory of the same kind.
Moved(p, old, new) ==
    IF Under(old, p) THEN new \o SubSeq(p, Len(old) + 1, Len(p)) ELSE p
HostRename(old, new) ==
    /\ old \in DOMAIN tree /\ new # << >> /\ IsDir(Parent(new))
    /\ ~(Under(old, new) /\ old # new)
    /\ new \in DOMAIN tree =>
           IF tree[old] = Dir THEN IsDir(new) /\ Below(new) = {} ELSE IsFile(new)
    /\ tree' = IF old = new \/ (new \in DOMAIN tree /\ IsFile(old) /\ tree[new] = tree[old])
               THEN tree
               ELSE LET stays == { p \in DOMAIN tree \ {new} : ~Under(old, p) }
                        moves == { p \in DOMAIN tree : Under(old, p) }
                    IN  [q \in stays \cup { Moved(p, old, new) : p \in moves } |->
                            IF q \in stays THEN tree[q]
                            ELSE tree[CHOOSE p \in moves : Moved(p, old, new) = q]]

\* rename, renameat, renameat2.  NOREPLACE looks first; EXCHANGE is a plain
\* rename; WHITEOUT and unknown flags are refused.
Renameat(old, new, flag) ==
    /\ flag \in {"none", "NOREPLACE", "EXCHANGE"}
    /\ flag = "NOREPLACE" => new \notin DOMAIN tree
    /\ HostRename(old, new)
    /\ size' = Kept(size, tree', file)
    /\ UNCHANGED <<root, cwd, fds, file, seen>>

\* link, linkat: a second name for a regular file.
Linkat(old, new) ==
    /\ IsFile(old) /\ CanCreate(new)
    /\ tree' = Put(tree, new, tree[old])
    /\ UNCHANGED <<size, root, cwd, fds, file, seen>>

NewInode == Min(1 .. MaxInode \ DOMAIN size)
FreeInode == (1 .. MaxInode) # DOMAIN size

\* truncate: opens with create(true), so a missing file appears.
Truncate(p, len) ==
    /\ \/ /\ IsFile(p)
          /\ size' = [size EXCEPT ![tree[p]] = len]
          /\ UNCHANGED tree
       \/ /\ CanCreate(p) /\ FreeInode
          /\ tree' = Put(tree, p, NewInode)
          /\ size' = Put(size, NewInode, len)
    /\ UNCHANGED <<root, cwd, fds, file, seen>>

\* chdir, then Vfs::chdir.
Chdir(p) ==
    /\ Under(root, p) /\ IsDir(p)
    /\ cwd' = p
    /\ UNCHANGED <<tree, size, root, fds, file, seen>>

\* chroot: Vfs::chroot moves the working directory too.  ChrootOnly does not.
ChrootOnly(p) ==
    /\ IsDir(p) /\ root' = p
    /\ UNCHANGED <<tree, size, cwd, fds, file, seen>>
Chroot(p) ==
    /\ IsDir(p) /\ root' = p /\ cwd' = p
    /\ UNCHANGED <<tree, size, fds, file, seen>>
----------------------------------------------------------------------------
(* Open files.                                                             *)

\* OpenOptions::open as Vfs::open builds it: O_APPEND alone makes the file
\* writable; creating or truncating needs write access; O_APPEND with
\* O_TRUNC is refused.
Writable(fl) == fl.write \/ "APPEND" \in fl.opts
OptionsOk(fl) ==
    /\ fl.read \/ fl.write
    /\ "TRUNC" \in fl.opts => fl.write /\ "APPEND" \notin fl.opts
    /\ "CREAT" \in fl.opts => Writable(fl)

NewFile(p, node, fl) ==
    [path |-> p, is_dir |-> node = Dir, ino |-> node, pos |-> 0, cursor |-> 0,
     read |-> fl.read, write |-> Writable(fl), append |-> "APPEND" \in fl.opts,
     cache |-> NoCache]

\* open, openat: host open, then the O_DIRECTORY check (a file it created or
\* truncated stays so when that fails), then FdTable::insert.
Openat(p, fl) ==
    LET fresh == p \notin DOMAIN tree
        refused == "DIRECTORY" \in fl.opts /\ ~IsDir(p)
        o == Min(1 .. MaxOpen \ DOMAIN file)
    IN  /\ OptionsOk(fl)
        /\ (1 .. MaxOpen) # DOMAIN file /\ Fd # DOMAIN fds
        /\ IF fresh THEN "CREAT" \in fl.opts /\ CanCreate(p) /\ FreeInode
           ELSE /\ ~({"CREAT", "EXCL"} \subseteq fl.opts)
                /\ IsDir(p) => ~Writable(fl)
        /\ tree' = IF fresh THEN Put(tree, p, NewInode) ELSE tree
        /\ size' = IF fresh THEN Put(size, NewInode, 0)
                   ELSE IF "TRUNC" \in fl.opts THEN [size EXCEPT ![tree[p]] = 0]
                   ELSE size
        /\ IF refused THEN UNCHANGED <<fds, file, seen>>
           ELSE /\ fds' = Put(fds, Min(Fd \ DOMAIN fds), o)
                /\ file' = Put(file, o, NewFile(p, tree'[p], fl))
                /\ seen' = Put(seen, o, NoPass)
        /\ UNCHANGED <<root, cwd>>

\* close drops the last reference to the description, and the host the inode.
Close(fd) ==
    /\ fds' = Del(fds, fd)
    /\ LET live == { fds'[f] : f \in DOMAIN fds' }
       IN  /\ file' = [o \in live |-> file[o]]
           /\ seen' = [o \in live |-> seen[o]]
    /\ size' = Kept(size, tree, file')
    /\ UNCHANGED <<tree, root, cwd>>

\* dup, dup2 and fcntl(F_DUPFD): Arc::clone.
Dup(fd) ==
    /\ Fd # DOMAIN fds
    /\ fds' = Put(fds, Min(Fd \ DOMAIN fds), fds[fd])
    /\ UNCHANGED <<tree, size, root, cwd, file, seen>>
----------------------------------------------------------------------------
(* read, write, lseek.  A transfer carries the FilePos, the size of the    *)
(* file, the bytes moved and whether a short one has ended it.             *)

Transfer(f, sz) == [f |-> f, size |-> sz, n |-> 0, over |-> FALSE]
AtLeast0(n) == IF n < 0 THEN 0 ELSE n
Least(a, b) == IF a < b THEN a ELSE b
Most(a, b) == IF a > b THEN a ELSE b

\* read on a file: seek to pos, take whole chunks until the buffer is full
\* or the file ends, keep what fits.  A file not open for reading has been
\* sought all the same.  ReadWholeChunks moves pos with the cursor.
ReadWholeChunks(t, n) ==
    LET over == Least(Chunk * ((n + Chunk - 1) \div Chunk), AtLeast0(t.size - t.f.pos))
    IN  [t EXCEPT !.f = [t.f EXCEPT !.pos = t.f.pos + over, !.cursor = t.f.pos + over],
                  !.n = t.n + Least(n, over)]
ReadStep(t, n) ==
    IF t.over THEN t ELSE
    LET left == AtLeast0(t.size - t.f.pos)
        chunks == Chunk * ((n + Chunk - 1) \div Chunk)
        got == IF t.f.read THEN Least(n, left) ELSE 0
        over == IF t.f.read THEN Least(chunks, left) ELSE 0
    IN  [t EXCEPT !.f = [t.f EXCEPT !.pos = t.f.pos + got,
                                    !.cursor = t.f.pos + over],
                  !.n = t.n + got, !.over = got < n]

\* write: at the host's cursor, or at the end for O_APPEND; pos just
\* advances.  WriteNoPos leaves pos alone.
WriteNoPos(t, n) ==
    IF ~t.f.write THEN t ELSE
    LET at == IF t.f.append THEN t.size ELSE t.f.cursor
    IN  [t EXCEPT !.f = [t.f EXCEPT !.cursor = at + n],
                  !.size = Most(t.size, at + n), !.n = t.n + n]
WriteStep(t, n) ==
    IF t.over \/ ~t.f.write THEN [t EXCEPT !.over = TRUE] ELSE
    LET at == IF t.f.append THEN t.size ELSE t.f.cursor
    IN  [t EXCEPT !.f = [t.f EXCEPT !.pos = t.f.pos + n, !.cursor = at + n],
                  !.size = Most(t.size, at + n), !.n = t.n + n]

\* read and readv: one read per buffer, up to the first short one.
Readv(fd, lens) ==
    LET f == Opened(fd)
    IN  /\ ~f.is_dir
        /\ file' = [file EXCEPT ![fds[fd]] =
                       FoldLeft(ReadStep, Transfer(f, size[f.ino]), lens).f]
        /\ UNCHANGED <<tree, size, root, cwd, fds, seen>>

\* write and writev.
Writev(fd, lens) ==
    LET f == Opened(fd)
        t == FoldLeft(WriteStep, Transfer(f, size[f.ino]), lens)
    IN  /\ ~f.is_dir /\ t.size <= MaxSize /\ t.f.pos <= MaxSize
        /\ file' = [file EXCEPT ![fds[fd]] = t.f]
        /\ size' = [size EXCEPT ![f.ino] = t.size]
        /\ UNCHANGED <<tree, root, cwd, fds, seen>>

\* lseek: a directory can only be rewound; SEEK_CUR starts at the host's
\* cursor, and a negative SEEK_SET or SEEK_END is taken as 0.
SeekTo(f, off, whence) ==
    CASE whence = "SET" -> AtLeast0(off)
      [] whence = "CUR" -> f.cursor + off
      [] whence = "END" -> AtLeast0(size[f.ino] + off)
Lseek(fd, off, whence) ==
    LET o == fds[fd]
        f == file[o]
        to == IF f.is_dir THEN 0 ELSE SeekTo(f, off, whence)
    IN  /\ f.is_dir => whence = "SET" /\ off = 0
        /\ to \in 0 .. MaxSize
        /\ file' = [file EXCEPT ![o] = [f EXCEPT !.pos = to,
                        !.cursor = IF f.is_dir THEN f.cursor ELSE to]]
        /\ seen' = IF f.is_dir THEN [seen EXCEPT ![o].bytes = << >>] ELSE seen
        /\ UNCHANGED <<tree, size, root, cwd, fds>>

\* ftruncate: pos and cursor stay.
Ftruncate(fd, len) ==
    LET f == Opened(fd)
    IN  /\ ~f.is_dir /\ f.write
        /\ size' = [size EXCEPT ![f.ino] = len]
        /\ UNCHANGED <<tree, root, cwd, fds, file, seen>>
----------------------------------------------------------------------------
(* getdents64.                                                             *)

\* readdir_all: the sorted names, each encoded in RecLen bytes.
Children(p) == { q[Len(q)] : q \in { r \in Below(p) : Len(r) = Len(p) + 1 } }
Encode(names) ==
    [i \in 1 .. RecLen * Len(names) |->
        [name |-> names[((i - 1) \div RecLen) + 1], byte |-> (i - 1) % RecLen]]
SortedNames(S) ==
    [i \in 1 .. Cardinality(S) |-> CHOOSE x \in S : Cardinality({ y \in S : y < x }) = i - 1]
ReaddirAll(p) == Encode(SortedNames(Children(p)))

\* The first call fills dir_cache from the recorded path; every call returns
\* the bytes from pos on, cutting records where the buffer ends.  Refilled
\* reads the directory again at every call.
Refilled(f) == [filled |-> TRUE, bytes |-> ReaddirAll(f.path)]
Filled(f) == IF f.cache.filled THEN f.cache
             ELSE [filled |-> TRUE, bytes |-> ReaddirAll(f.path)]
Getdents64(fd, len) ==
    LET o == fds[fd]
        f == file[o]
        c == Filled(f)
        end == Least(f.pos + len, Len(c.bytes))
        slice == SubSeq(c.bytes, f.pos + 1, end)
    IN  /\ f.is_dir /\ (f.cache.filled \/ IsDir(f.path))
        /\ file' = [file EXCEPT ![o].cache = c, ![o].pos = Most(f.pos, end)]
        /\ seen' = [seen EXCEPT
               ![o] = [listing |-> IF f.cache.filled THEN seen[o].listing
                                   ELSE ReaddirAll(f.path),
                       bytes |-> seen[o].bytes \o slice]]
        /\ UNCHANGED <<tree, size, root, cwd, fds>>
----------------------------------------------------------------------------
CONSTANTS OpenFlags, Lens    \* bounds: the flags of open, the iovecs

ASSUME CallsAssumption ==
    /\ OpenFlags \subseteq [read : BOOLEAN, write : BOOLEAN,
                           opts : SUBSET {"CREAT", "EXCL", "TRUNC", "APPEND", "DIRECTORY"}]
    /\ Lens \subseteq Seq(Nat)

Next ==
    \/ \E p \in ResolvedAtCwd :
          \/ Chdir(p) \/ Chroot(p)
          \/ \E len \in 0 .. MaxSize : Truncate(p, len)
    \/ \E p \in Resolved :
          \/ Mkdirat(p)
          \/ \E removedir \in BOOLEAN : Unlinkat(p, removedir)
          \/ \E fl \in OpenFlags : Openat(p, fl)
          \/ \E q \in Resolved :
                \/ Linkat(p, q)
                \/ \E flag \in {"none", "NOREPLACE", "EXCHANGE"} : Renameat(p, q, flag)
    \/ \E fd \in DOMAIN fds :
          \/ Close(fd) \/ Dup(fd)
          \/ \E lens \in Lens : Readv(fd, lens) \/ Writev(fd, lens)
          \/ \E off \in -1 .. 1, w \in {"SET", "CUR", "END"} : Lseek(fd, off, w)
          \/ \E len \in 0 .. MaxSize : Ftruncate(fd, len)
          \/ \E len \in 1 .. RecLen + 1 : Getdents64(fd, len)

Spec == Init /\ [][Next]_vars
----------------------------------------------------------------------------
(* Properties.                                                             *)

\* The working directory stays below the root, through chroot and through
\* the removal or renaming of directories (the Vfs field cwd).
CwdUnderRoot == Under(root, cwd)

\* No call creates, removes, moves or relinks a name outside the root of the
\* moment, not even through a directory descriptor opened before a chroot or
\* a rename; and chroot only narrows the root (normalize, resolve_via_dirfd).
Confined ==
    [][/\ Under(root, root')
       /\ \A p \in DOMAIN tree \cup DOMAIN tree' :
              ~Under(root, p) => /\ p \in DOMAIN tree /\ p \in DOMAIN tree'
                                 /\ tree'[p] = tree[p]]_vars

\* The host's cursor of a file not opened for append never falls behind pos
\* and is less than one chunk ahead of it: that far a write can miss the
\* position (read takes whole chunks, write does not seek).
CursorOvershoot ==
    \A o \in DOMAIN file :
        LET f == file[o]
        IN  ~f.is_dir /\ ~f.append => f.cursor - f.pos \in 0 .. Chunk - 1

\* readv returns the bytes one read of the summed length would, and leaves
\* the position where that read would (readv's loop over read).
ReadvIsRead ==
    \A o \in DOMAIN file : ~file[o].is_dir =>
        LET t == Transfer(file[o], size[file[o].ino])
        IN  \A a, b \in 1 .. MaxSize :
                LET v == FoldLeft(ReadStep, t, <<a, b>>)
                    r == ReadStep(t, a + b)
                IN  v.n = r.n /\ v.f.pos = r.f.pos

\* What getdents64 has returned since the last rewind is, byte for byte, the
\* beginning of one listing, the one taken at the first call, whatever was
\* created or removed since and whichever duplicate was used (dir_cache).
DirStream ==
    \A o \in DOMAIN file : file[o].is_dir =>
        /\ file[o].pos <= Len(seen[o].listing)
        /\ seen[o].bytes = SubSeq(seen[o].listing, 1, file[o].pos)
=============================================================================
