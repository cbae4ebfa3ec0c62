-------------------------------- MODULE Vfs --------------------------------
(***************************************************************************)
(* Path resolution: Vfs::resolve_path and normalize (src/vfs.rs) and the   *)
(* routing in front of them (src/sys/path.rs).  A host path is the         *)
(* sequence of its names below "/"; a guest path is absolute or relative,  *)
(* and its components are names or `..'.  `.' components change nothing    *)
(* and are left out.  Resolution is lexical: what a link in the host's     *)
(* tree points to is the host's affair.                                    *)
(***************************************************************************)
EXTENDS Integers, Sequences, FiniteSetsExt

Up == 0                 \* the component `..'; names are positive
AT_FDCWD == -100

\* op over the elements of a sequence from left to right, and a sequence
\* without its last element: SequencesExt's, without the rest of that module,
\* under which every proof step about files would have to be checked.
FoldLeft(op(_, _), base, seq) ==
    MapThenFoldSet(LAMBDA x, acc : op(acc, x), base, LAMBDA i : seq[i], Max, DOMAIN seq)
Front(s) == SubSeq(s, 1, Len(s) - 1)

\* Path::starts_with, component by component.
Under(r, p) == Len(r) <= Len(p) /\ \A i \in 1 .. Len(r) : p[i] = r[i]

Ok(p) == [ok |-> TRUE, path |-> p]
Err(e) == [ok |-> FALSE, errno |-> e]

\* One component of normalize; `..' above "/" is an error.
Push(acc, c) ==
    IF ~acc.ok THEN acc
    ELSE IF c # Up THEN Ok(Append(acc.path, c))
    ELSE IF acc.path = << >> THEN Err("EACCES")
    ELSE Ok(Front(acc.path))

\* normalize: collapse, then reject what ended up outside root, which
\* NormalizeUnchecked does not.
NormalizeUnchecked(root, joined) == FoldLeft(Push, Ok(<< >>), joined)
Normalize(root, joined) ==
    LET n == FoldLeft(Push, Ok(<< >>), joined)
    IN  IF n.ok /\ ~Under(root, n.path) THEN Err("EACCES") ELSE n

\* resolve_path for AT_FDCWD: an absolute path that starts with root is
\* taken as it is, another one is taken as relative to root.
ResolvePath(root, cwd, p) ==
    IF p.abs /\ Under(root, p.comps) THEN Normalize(root, p.comps)
    ELSE Normalize(root, (IF p.abs THEN root ELSE cwd) \o p.comps)

\* path::resolve.  dirs gives the recorded FilePos.path of the directory
\* descriptors; a path below one is resolved again as an absolute path.
Resolve(root, cwd, dirs, dirfd, p) ==
    IF p.abs \/ dirfd = AT_FDCWD THEN ResolvePath(root, cwd, p)
    ELSE IF dirfd \notin DOMAIN dirs THEN Err("EBADF")
    ELSE ResolvePath(root, cwd, [abs |-> TRUE, comps |-> dirs[dirfd] \o p.comps])
=============================================================================
