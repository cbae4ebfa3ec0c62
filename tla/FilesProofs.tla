----------------------------- MODULE FilesProofs -----------------------------
(***************************************************************************)
(* The guest stays below its root, for every tree, path and descriptor;    *)
(* and the open files stay in order: the host's cursor near pos, readv as  *)
(* one read, getdents64 as one listing.  The second part rests on what     *)
(* FoldLeft computes, shown by induction over the buffers.                 *)
(***************************************************************************)
EXTENDS Files, FiniteSetTheorems, WellFoundedInduction, TLAPS

\* What resolution needs to know of the state it starts from.
PathsOK ==
    /\ root \in Seq(Name) /\ cwd \in Seq(Name)
    /\ DOMAIN tree \subseteq Seq(Name)
    /\ Under(root, cwd)

\* normalize returns no path outside root, whatever the fold computed.
LEMMA NormalizeUnder ==
    ASSUME NEW r, NEW j, Normalize(r, j).ok
    PROVE  Under(r, Normalize(r, j).path)
BY DEF Normalize, Err

\* Both routes of path::resolve end in normalize.
LEMMA ResolveUnder ==
    ASSUME NEW r, NEW c, NEW ds, NEW d, NEW p, Resolve(r, c, ds, d, p).ok
    PROVE  Under(r, Resolve(r, c, ds, d, p).path)
<1> DEFINE q == [abs |-> TRUE, comps |-> ds[d] \o p.comps]
<1>1. ASSUME NEW x, ResolvePath(r, c, x).ok
      PROVE  Under(r, ResolvePath(r, c, x).path)
  BY <1>1, NormalizeUnder DEF ResolvePath
<1>2. CASE p.abs \/ d = AT_FDCWD
  BY <1>1, <1>2 DEF Resolve
<1>3. CASE ~(p.abs \/ d = AT_FDCWD) /\ d \notin DOMAIN ds
  BY <1>3 DEF Resolve, Err
<1>4. CASE ~(p.abs \/ d = AT_FDCWD) /\ d \in DOMAIN ds
  <2>1. Resolve(r, c, ds, d, p) = ResolvePath(r, c, q)
    BY <1>4 DEF Resolve
  <2> QED BY <1>1, <2>1
<1> QED BY <1>2, <1>3, <1>4

\* So every path a call goes on with is a host path below root.
LEMMA ResolvedUnder ==
    ASSUME NEW D, NEW p \in ResolvedFrom(D)
    PROVE  p \in Seq(Name) /\ Under(root, p)
BY ResolveUnder DEF ResolvedFrom

\* Below a directory that is below r is below r.
LEMMA UnderTransitive ==
    ASSUME NEW a \in Seq(Name), NEW b \in Seq(Name), NEW c \in Seq(Name),
           Under(a, b), Under(b, c)
    PROVE  Under(a, c)
BY DEF Under

\* A subtree moved below b is below everything b is below.
LEMMA MovedUnder ==
    ASSUME NEW p \in Seq(Name), NEW a \in Seq(Name), NEW b \in Seq(Name), Under(a, p)
    PROVE  Moved(p, a, b) \in Seq(Name) /\ Under(b, Moved(p, a, b))
<1> DEFINE s == SubSeq(p, Len(a) + 1, Len(p))
<1>1. s \in Seq(Name)
  BY DEF Under
<1>2. Moved(p, a, b) = b \o s
  BY DEF Moved
<1> HIDE DEF s
<1> QED BY <1>1, <1>2 DEF Under

\* A step leaves the names outside root alone.
Outside(t, u, r) ==
    \A p \in DOMAIN t \cup DOMAIN u :
        ~Under(r, p) => p \in DOMAIN t /\ p \in DOMAIN u /\ u[p] = t[p]

\* Creating a name below r leaves the names outside r alone,
LEMMA PutOutside ==
    ASSUME PathsOK, NEW p \in Seq(Name), Under(root, p), NEW v, tree' = Put(tree, p, v)
    PROVE  DOMAIN tree' \subseteq Seq(Name) /\ Outside(tree, tree', root)
BY DEF PathsOK, Put, Outside

\* so does removing one,
LEMMA DelOutside ==
    ASSUME PathsOK, NEW p \in Seq(Name), Under(root, p), tree' = Del(tree, p)
    PROVE  DOMAIN tree' \subseteq Seq(Name) /\ Outside(tree, tree', root)
BY DEF PathsOK, Del, Outside

\* and so does moving one with all that is below it.
LEMMA RenameOutside ==
    ASSUME PathsOK, NEW old \in Seq(Name), NEW new \in Seq(Name),
           Under(root, old), Under(root, new), HostRename(old, new)
    PROVE  DOMAIN tree' \subseteq Seq(Name) /\ Outside(tree, tree', root)
<1> DEFINE stays == { p \in DOMAIN tree \ {new} : ~Under(old, p) }
           moves == { p \in DOMAIN tree : Under(old, p) }
           landed == { Moved(p, old, new) : p \in moves }
<1>1. CASE tree' = tree
  BY <1>1 DEF PathsOK, Outside
<1>2. CASE tree' # tree
  <2>1. tree' = [q \in stays \cup landed |->
                    IF q \in stays THEN tree[q]
                    ELSE tree[CHOOSE p \in moves : Moved(p, old, new) = q]]
    BY <1>2 DEF HostRename
  <2>2. \A q \in landed : q \in Seq(Name) /\ Under(root, q)
    BY MovedUnder, UnderTransitive DEF PathsOK
  <2>3. \A q \in DOMAIN tree : ~Under(root, q) => q \in stays
    BY UnderTransitive DEF PathsOK
  <2>4. DOMAIN tree' = stays \cup landed /\ \A q \in stays : tree'[q] = tree[q]
    BY <2>1
  <2>5. stays \subseteq DOMAIN tree
    OBVIOUS
  <2> HIDE DEF stays, landed
  <2> QED BY <2>2, <2>3, <2>4, <2>5 DEF PathsOK, Outside
<1> QED BY <1>1, <1>2

\* What one step does to root, cwd and the names.
StepOK == Under(root, root') /\ Outside(tree, tree', root) /\ PathsOK'

\* A directory counts as below itself.
LEMMA UnderReflexive == ASSUME NEW r \in Seq(Name) PROVE Under(r, r)
BY DEF Under

\* A call that leaves the tree alone is confined,
LEMMA SameTree ==
    ASSUME PathsOK, UNCHANGED <<tree, root, cwd>>
    PROVE  StepOK
BY UnderReflexive DEF PathsOK, StepOK, Outside, Under

\* and so is one that changes it below the root and moves no working directory.
LEMMA TreeOnly ==
    ASSUME PathsOK, UNCHANGED <<root, cwd>>, DOMAIN tree' \subseteq Seq(Name),
           Outside(tree, tree', root)
    PROVE  StepOK
BY UnderReflexive DEF PathsOK, StepOK, Under

\* Every file system call keeps the working directory and its effects below the root.
LEMMA StepStays == ASSUME PathsOK, [Next]_vars PROVE StepOK
<1>1. ASSUME NEW p \in ResolvedAtCwd, Chdir(p) PROVE StepOK
  <2>1. p \in Seq(Name) /\ Under(root, p)
    BY ResolvedUnder DEF ResolvedAtCwd
  <2> QED BY <1>1, <2>1, UnderReflexive DEF Chdir, PathsOK, StepOK, Outside, Under
<1>2. ASSUME NEW p \in ResolvedAtCwd, Chroot(p) PROVE StepOK
  <2>1. p \in Seq(Name) /\ Under(root, p)
    BY ResolvedUnder DEF ResolvedAtCwd
  <2>2. Under(p, p)
    BY <2>1, UnderReflexive
  <2>3. root' = p /\ cwd' = p /\ tree' = tree
    BY <1>2 DEF Chroot
  <2>4. PathsOK'
    BY <2>1, <2>2, <2>3 DEF PathsOK, Under
  <2> QED BY <2>1, <2>3, <2>4 DEF StepOK, Outside
<1>3. ASSUME NEW p \in ResolvedAtCwd, NEW len, Truncate(p, len) PROVE StepOK
  <2>1. p \in Seq(Name) /\ Under(root, p)
    BY ResolvedUnder DEF ResolvedAtCwd
  <2>2. CASE tree' = tree
    BY <1>3, <2>2, SameTree DEF Truncate
  <2>3. CASE tree' = Put(tree, p, NewInode)
    BY <1>3, <2>1, <2>3, PutOutside, TreeOnly DEF Truncate
  <2> QED BY <1>3, <2>2, <2>3 DEF Truncate
<1>4. ASSUME NEW p \in Resolved, Mkdirat(p) PROVE StepOK
  <2>1. p \in Seq(Name) /\ Under(root, p)
    BY ResolvedUnder DEF Resolved
  <2> QED BY <1>4, <2>1, PutOutside, TreeOnly DEF Mkdirat
<1>5. ASSUME NEW p \in Resolved, NEW b, Unlinkat(p, b) PROVE StepOK
  <2>1. p \in Seq(Name) /\ Under(root, p)
    BY ResolvedUnder DEF Resolved
  <2> QED BY <1>5, <2>1, DelOutside, TreeOnly DEF Unlinkat
<1>6. ASSUME NEW p \in Resolved, NEW fl, Openat(p, fl) PROVE StepOK
  <2>1. p \in Seq(Name) /\ Under(root, p)
    BY ResolvedUnder DEF Resolved
  <2>2. CASE tree' = tree
    BY <1>6, <2>2, SameTree DEF Openat
  <2>3. CASE tree' = Put(tree, p, NewInode)
    BY <1>6, <2>1, <2>3, PutOutside, TreeOnly DEF Openat
  <2> QED BY <1>6, <2>2, <2>3 DEF Openat
<1>7. ASSUME NEW p \in Resolved, NEW q \in Resolved, Linkat(p, q) PROVE StepOK
  <2>1. q \in Seq(Name) /\ Under(root, q)
    BY ResolvedUnder DEF Resolved
  <2> QED BY <1>7, <2>1, PutOutside, TreeOnly DEF Linkat
<1>8. ASSUME NEW p \in Resolved, NEW q \in Resolved, NEW f, Renameat(p, q, f)
      PROVE  StepOK
  <2>1. p \in Seq(Name) /\ Under(root, p) /\ q \in Seq(Name) /\ Under(root, q)
    BY ResolvedUnder DEF Resolved
  <2>2. HostRename(p, q) /\ UNCHANGED <<root, cwd>>
    BY <1>8 DEF Renameat
  <2>3. DOMAIN tree' \subseteq Seq(Name) /\ Outside(tree, tree', root)
    BY <2>1, <2>2, RenameOutside
  <2> QED BY <2>2, <2>3, TreeOnly
<1>9. ASSUME NEW fd \in DOMAIN fds,
             \/ Close(fd) \/ Dup(fd)
             \/ \E lens \in Lens : Readv(fd, lens) \/ Writev(fd, lens)
             \/ \E off \in -1 .. 1, w \in {"SET", "CUR", "END"} : Lseek(fd, off, w)
             \/ \E len \in 0 .. MaxSize : Ftruncate(fd, len)
             \/ \E len \in 1 .. RecLen + 1 : Getdents64(fd, len)
      PROVE  StepOK
  <2>1. UNCHANGED <<tree, root, cwd>>
    BY Zenon, <1>9 DEF Close, Dup, Readv, Writev, Lseek, Ftruncate, Getdents64
  <2> QED BY <2>1, SameTree
<1>10. CASE UNCHANGED vars
  BY <1>10, SameTree DEF vars
<1> QED BY <1>1, <1>2, <1>3, <1>4, <1>5, <1>6, <1>7, <1>8, <1>9, <1>10 DEF Next

\* A new kernel's working directory is below its root.
LEMMA InitPaths == Init => PathsOK
BY FilesAssumption, UnderReflexive DEF Init, PathsOK

\* The working directory is below the root in every reachable state, for
\* every host tree and every set of guest paths (Vfs::cwd).
THEOREM CwdStaysUnderRoot == Spec => []CwdUnderRoot
<1>1. PathsOK /\ [Next]_vars => PathsOK'
  BY StepStays DEF StepOK
<1>2. PathsOK => CwdUnderRoot
  BY DEF PathsOK, CwdUnderRoot
<1> QED BY <1>1, <1>2, InitPaths, PTL DEF Spec

\* No step touches a name outside the root of the moment, or widens the root
\* (normalize's prefix check is what every path call goes through).
THEOREM StaysConfined == Spec => Confined
<1>1. PathsOK /\ [Next]_vars => PathsOK'
  BY StepStays DEF StepOK
<1>2. PathsOK /\ [Next]_vars =>
        [/\ Under(root, root')
         /\ \A p \in DOMAIN tree \cup DOMAIN tree' :
                ~Under(root, p) => /\ p \in DOMAIN tree /\ p \in DOMAIN tree'
                                   /\ tree'[p] = tree[p]]_vars
  BY StepStays DEF StepOK, Outside
<1> QED BY <1>1, <1>2, InitPaths, PTL DEF Spec, Confined

----------------------------------------------------------------------------
(* Reading and writing several buffers: what FoldLeft computes.            *)

\* Induction over the natural numbers, for a set of them.
LEMMA SetInduction ==
    ASSUME NEW S \in SUBSET Nat, 0 \in S, \A n \in S : n + 1 \in S
    PROVE  S = Nat
<1> SUFFICES ASSUME Nat \ S # {} PROVE FALSE
  BY Zenon
<1> DEFINE R == {p \in Nat \X Nat : p[1] < p[2]}
<1>1. IsWellFoundedOn(R, Nat)
  BY NatLessThanWellFounded DEF OpToRel
<1> HIDE DEF R
<1>2. PICK x \in Nat \ S : \A y \in Nat \ S : <<y, x>> \notin R
  BY Zenon, <1>1, WFMin
<1>3. \A y \in Nat \ S : ~(y < x)
  BY Zenon, <1>2 DEF R
<1> QED BY <1>3

\* The greatest of some of the first n + 1 indices is n + 1, when it is there.
LEMMA MaxLast ==
    ASSUME NEW n \in Nat, NEW s \in SUBSET (1 .. n + 1), n + 1 \in s
    PROVE  Max(s) = n + 1
<1>1. \A y \in s : n + 1 >= y
  OBVIOUS
<1>2. Max(s) \in s /\ \A y \in s : Max(s) >= y
  BY Zenon, <1>1 DEF Max
<1>3. Max(s) \in 1 .. n + 1 /\ Max(s) >= n + 1
  BY Zenon, <1>2
<1> QED BY <1>3

\* The equation of the fold of the function st over the first m of lens, as
\* FoldLeft states it: g gives the fold over every set of indices.
Folding(st, base, lens, g, m) ==
    g = [s \in SUBSET (1 .. m) |->
           IF s = {} THEN base ELSE st[lens[Max(s)]][g[s \ {Max(s)}]]]

\* The equation has a solution.
LEMMA FoldExists ==
    ASSUME NEW st, NEW base, NEW lens, NEW m \in Nat
    PROVE  \E g : Folding(st, base, lens, g, m)
<1> DEFINE S == { n \in Nat : \E g : Folding(st, base, lens, g, n) }
<1>1. 0 \in S
  <2> DEFINE h == [s \in SUBSET (1 .. 0) |-> base]
  <2>1. Folding(st, base, lens, h, 0)
    BY DEF Folding
  <2> HIDE DEF h
  <2> QED BY <2>1
<1>2. ASSUME NEW n \in S PROVE n + 1 \in S
  <2>1. PICK g : Folding(st, base, lens, g, n)
    BY <1>2
  <2> DEFINE h == [s \in SUBSET (1 .. n + 1) |->
                     IF n + 1 \in s THEN st[lens[n + 1]][g[s \ {n + 1}]] ELSE g[s]]
             Eq(s) == IF s = {} THEN base ELSE st[lens[Max(s)]][h[s \ {Max(s)}]]
  <2>2. ASSUME NEW s \in SUBSET (1 .. n + 1) PROVE h[s] = Eq(s)
    <3>1. CASE n + 1 \in s
      <4>1. Max(s) = n + 1
        BY <3>1, MaxLast
      <4>2. s \ {n + 1} \in SUBSET (1 .. n) /\ s \ {n + 1} \in SUBSET (1 .. n + 1)
        OBVIOUS
      <4>3. h[s \ {n + 1}] = g[s \ {n + 1}]
        BY <4>2
      <4>4. h[s] = st[lens[n + 1]][g[s \ {n + 1}]] /\ s # {}
        BY <3>1
      <4> HIDE DEF h
      <4> QED BY <4>1, <4>3, <4>4
    <3>2. CASE n + 1 \notin s
      <4>1. s \in SUBSET (1 .. n)
        BY <3>2
      <4>2. h[s] = g[s]
        BY <3>2
      <4>3. g[s] = IF s = {} THEN base ELSE st[lens[Max(s)]][g[s \ {Max(s)}]]
        BY Zenon, <2>1, <4>1 DEF Folding
      <4>4. s \ {Max(s)} \in SUBSET (1 .. n + 1) /\ n + 1 \notin s \ {Max(s)}
        BY Zenon, <3>2
      <4>5. h[s \ {Max(s)}] = g[s \ {Max(s)}]
        BY <4>4
      <4> HIDE DEF h
      <4> QED BY <4>2, <4>3, <4>5
    <3> QED BY Zenon, <3>1, <3>2
  <2>3. h = [s \in SUBSET (1 .. n + 1) |-> h[s]]
    OBVIOUS
  <2> HIDE DEF h
  <2>4. Folding(st, base, lens, h, n + 1)
    BY Zenon, <2>2, <2>3 DEF Folding
  <2>5. n + 1 \in Nat
    OBVIOUS
  <2> QED BY <2>4, <2>5
<1>3. S = Nat
  <2> HIDE DEF S
  <2> QED BY Zenon, <1>1, <1>2, SetInduction DEF S
<1> QED BY <1>3

\* A fold whose every step stays in G stays in G.
LEMMA FoldStays ==
    ASSUME NEW g, NEW G, NEW m \in Nat, g[{}] \in G,
           \A s \in SUBSET (1 .. m) :
               s # {} /\ g[s \ {Max(s)}] \in G => g[s] \in G
    PROVE  \A s \in SUBSET (1 .. m) : g[s] \in G
<1> DEFINE S == { n \in Nat : n <= m => \A s \in SUBSET (1 .. n) : g[s] \in G }
<1>1. 0 \in S
  <2>1. \A s \in SUBSET (1 .. 0) : s = {}
    OBVIOUS
  <2> QED BY Zenon, <2>1
<1>2. ASSUME NEW n \in S PROVE n + 1 \in S
  <2> SUFFICES ASSUME n + 1 <= m, NEW s \in SUBSET (1 .. n + 1) PROVE g[s] \in G
    OBVIOUS
  <2>1. \A r \in SUBSET (1 .. n) : g[r] \in G
    BY <1>2
  <2>2. CASE n + 1 \notin s
    <3>1. s \in SUBSET (1 .. n)
      BY <2>2
    <3> QED BY <2>1, <3>1
  <2>3. CASE n + 1 \in s
    <3>1. Max(s) = n + 1
      BY <2>3, MaxLast
    <3>2. s \ {n + 1} \in SUBSET (1 .. n) /\ s # {} /\ s \in SUBSET (1 .. m)
      BY <2>3
    <3>3. g[s \ {n + 1}] \in G
      BY <2>1, <3>2
    <3> QED BY <3>1, <3>2, <3>3
  <2> QED BY <2>2, <2>3
<1>3. S = Nat
  <2> HIDE DEF S
  <2> QED BY Zenon, <1>1, <1>2, SetInduction DEF S
<1>4. m \in S
  BY <1>3
<1> QED BY <1>4

\* The equation FoldLeft solves, for read and for write.
ReadFolding(base, lens, g) ==
    g = [s \in SUBSET DOMAIN lens |->
           IF s = {} THEN base ELSE ReadStep(g[s \ {Max(s)}], lens[Max(s)])]
WriteFolding(base, lens, g) ==
    g = [s \in SUBSET DOMAIN lens |->
           IF s = {} THEN base ELSE WriteStep(g[s \ {Max(s)}], lens[Max(s)])]

\* readv's loop is a solution of the one,
LEMMA ReadFold ==
    ASSUME NEW base, NEW lens
    PROVE  FoldLeft(ReadStep, base, lens) = (CHOOSE f : ReadFolding(base, lens, f))[DOMAIN lens]
BY DEF FoldLeft, MapThenFoldSet, ReadFolding

\* writev's of the other.
LEMMA WriteFold ==
    ASSUME NEW base, NEW lens
    PROVE  FoldLeft(WriteStep, base, lens) = (CHOOSE f : WriteFolding(base, lens, f))[DOMAIN lens]
BY DEF FoldLeft, MapThenFoldSet, WriteFolding

\* The distance between the host's cursor and pos that read can leave.
Near(f) == ~f.append => f.cursor - f.pos \in 0 .. Chunk - 1

\* The transfers a read or write on the file f passes through: only the two
\* positions of f change.
Moving(f) ==
    { t \in [f : [path : {f.path}, is_dir : {f.is_dir}, ino : {f.ino}, pos : Nat,
                  cursor : Nat, read : {f.read}, write : {f.write},
                  append : {f.append}, cache : {f.cache}],
             size : Nat, n : Nat, over : BOOLEAN] : Near(t.f) }

\* f with its positions at p and c, in two forms.
Reposition(f, p, c) == [f EXCEPT !.pos = p, !.cursor = c]
At(f, p, c) ==
    [path |-> f.path, is_dir |-> f.is_dir, ino |-> f.ino, pos |-> p, cursor |-> c,
     read |-> f.read, write |-> f.write, append |-> f.append, cache |-> f.cache]

\* Setting both positions of the file of a transfer.
LEMMA Repositioned ==
    ASSUME NEW f, NEW t \in Moving(f), NEW p, NEW c
    PROVE  Reposition(t.f, p, c) = At(f, p, c)
<1>1. PICK x, p0, c0 : x = t.f /\ p0 = t.f.pos /\ c0 = t.f.cursor
  OBVIOUS
<1>2. x = At(f, p0, c0)
  BY <1>1 DEF Moving, At
<1>3. [x EXCEPT !.pos = p] = At(f, p, c0)
  BY <1>2 DEF At
<1>4. [At(f, p, c0) EXCEPT !.cursor = c] = At(f, p, c)
  BY DEF At
<1> QED BY Zenon, <1>1, <1>3, <1>4 DEF Reposition

\* The chunks read takes cover the buffer and end less than a chunk after it.
LEMMA Rounding ==
    ASSUME NEW n \in Nat
    PROVE  LET chunks == Chunk * ((n + Chunk - 1) \div Chunk)
           IN  chunks \in Nat /\ n <= chunks /\ chunks <= n + Chunk - 1
<1>1. PICK c \in Nat \ {0} : c = Chunk
  BY FilesAssumption
<1>2. PICK m \in Nat : m = n + c - 1
  BY <1>1
<1>3. PICK q : q = m \div c
  OBVIOUS
<1>4. q \in Nat /\ c * q \in Nat /\ c * q <= m /\ m < c * q + c
  BY <1>3
<1>5. n <= c * q /\ c * q <= n + c - 1
  BY <1>2, <1>4
<1> QED BY <1>1, <1>2, <1>3, <1>4, <1>5

\* One read: where it leaves the two positions, and what it returns.
LEMMA ReadStepFacts ==
    ASSUME NEW f, NEW t \in Moving(f), NEW n \in Nat
    PROVE  /\ ReadStep(t, n) \in Moving(f)
           /\ ReadStep(t, n).size = t.size
           /\ t.over => ReadStep(t, n) = t
           /\ LET left == AtLeast0(t.size - t.f.pos)
                  got == IF t.f.read THEN Least(n, left) ELSE 0
              IN  ~t.over => /\ ReadStep(t, n).n = t.n + got
                             /\ ReadStep(t, n).f.pos = t.f.pos + got
                             /\ ReadStep(t, n).over = (got < n)
<1> DEFINE left == AtLeast0(t.size - t.f.pos)
           chunks == Chunk * ((n + Chunk - 1) \div Chunk)
           got == IF t.f.read THEN Least(n, left) ELSE 0
           over == IF t.f.read THEN Least(chunks, left) ELSE 0
<1>1. CASE t.over
  <2>1. ReadStep(t, n) = t
    BY <1>1 DEF ReadStep
  <2> QED BY <1>1, <2>1
<1>2. CASE ~t.over
  <2>1. t.f.pos \in Nat /\ t.f.cursor \in Nat /\ t.size \in Nat /\ t.n \in Nat
    BY DEF Moving
  <2>2. left \in Nat
    BY <2>1 DEF AtLeast0
  <2>3. chunks \in Nat /\ n <= chunks /\ chunks <= n + Chunk - 1
    BY Rounding
  <2> HIDE DEF left, chunks
  <2>4. got \in Nat /\ over \in Nat /\ over - got \in 0 .. Chunk - 1
    BY <2>2, <2>3, FilesAssumption DEF Least
  <2>5. ReadStep(t, n) =
          [t EXCEPT !.f = [t.f EXCEPT !.pos = t.f.pos + got, !.cursor = t.f.pos + over],
                    !.n = t.n + got, !.over = got < n]
    BY <1>2 DEF ReadStep, left, chunks
  <2> HIDE DEF got, over
  <2> DEFINE p == t.f.pos + got
             c == t.f.pos + over
             k == t.n + got
             b == got < n
  <2>6. p \in Nat /\ c \in Nat /\ k \in Nat /\ b \in BOOLEAN /\ c - p \in 0 .. Chunk - 1
    <3>1. PICK x \in Nat : x = Chunk
      BY FilesAssumption
    <3>2. over - got \in 0 .. x - 1
      BY <2>4, <3>1
    <3>3. c - p \in 0 .. x - 1
      BY <2>1, <2>4, <3>2
    <3> QED BY <2>1, <2>4, <3>1, <3>3
  <2>7. ReadStep(t, n) = [t EXCEPT !.f = Reposition(t.f, p, c), !.n = k, !.over = b]
    BY <2>5 DEF Reposition
  <2> HIDE DEF p, c, k, b
  <2>8. ReadStep(t, n) = [f |-> At(f, p, c), size |-> t.size, n |-> k, over |-> b]
    <3>1. Reposition(t.f, p, c) = At(f, p, c)
      BY Repositioned
    <3>2. t = [f |-> t.f, size |-> t.size, n |-> t.n, over |-> t.over]
      BY DEF Moving
    <3> QED BY Zenon, <2>7, <3>1, <3>2
  <2>9. ReadStep(t, n) \in Moving(f)
    BY <2>1, <2>6, <2>8 DEF Moving, Near, At
  <2> QED BY <1>2, <2>8, <2>9 DEF At, p, k, b, got, left
<1> QED BY <1>1, <1>2

\* Some of the first m indices have a greatest one.
LEMMA MaxIn ==
    ASSUME NEW m \in Nat
    PROVE  \A s \in SUBSET (1 .. m) : s # {} => Max(s) \in s
<1> DEFINE S == { n \in Nat : \A s \in SUBSET (1 .. n) : s # {} => Max(s) \in s }
<1>1. 0 \in S
  <2>1. \A s \in SUBSET (1 .. 0) : s = {}
    OBVIOUS
  <2> QED BY Zenon, <2>1
<1>2. ASSUME NEW n \in S PROVE n + 1 \in S
  <2> SUFFICES ASSUME NEW s \in SUBSET (1 .. n + 1), s # {} PROVE Max(s) \in s
    OBVIOUS
  <2>1. CASE n + 1 \in s
    BY <2>1, MaxLast
  <2>2. CASE n + 1 \notin s
    <3>1. s \in SUBSET (1 .. n)
      BY <2>2
    <3> QED BY <1>2, <3>1
  <2> QED BY <2>1, <2>2
<1>3. S = Nat
  <2> HIDE DEF S
  <2> QED BY Zenon, <1>1, <1>2, SetInduction DEF S
<1> QED BY <1>3

\* One write moves both positions together; an appending file's cursor goes
\* to the end.
LEMMA WriteStepFacts ==
    ASSUME NEW f, NEW t \in Moving(f), NEW n \in Nat
    PROVE  WriteStep(t, n) \in Moving(f)
<1> DEFINE at == IF t.f.append THEN t.size ELSE t.f.cursor
           p == t.f.pos + n
           c == at + n
           k == t.n + n
           z == Most(t.size, at + n)
<1>1. CASE t.over \/ ~t.f.write
  BY Zenon, <1>1 DEF WriteStep, Moving
<1>2. CASE ~(t.over \/ ~t.f.write)
  <2>1. t.f.pos \in Nat /\ t.f.cursor \in Nat /\ t.size \in Nat /\ t.n \in Nat
    BY DEF Moving
  <2>2. p \in Nat /\ c \in Nat /\ k \in Nat /\ z \in Nat
    BY <2>1 DEF Most
  <2>3. ~t.f.append => c - p \in 0 .. Chunk - 1
    <3>1. PICK x \in Nat : x = Chunk
      BY FilesAssumption
    <3>2. ~t.f.append => t.f.cursor - t.f.pos \in 0 .. x - 1
      BY <3>1 DEF Moving, Near
    <3> QED BY <2>1, <3>1, <3>2
  <2>4. WriteStep(t, n) = [t EXCEPT !.f = Reposition(t.f, p, c), !.size = z, !.n = k]
    BY <1>2 DEF WriteStep, Reposition
  <2> HIDE DEF p, c, k, z
  <2>5. t.over \in BOOLEAN /\ t.f.append = f.append
    BY DEF Moving
  <2>6. WriteStep(t, n) = [f |-> At(f, p, c), size |-> z, n |-> k, over |-> t.over]
    <3>1. Reposition(t.f, p, c) = At(f, p, c)
      BY Repositioned
    <3>2. t = [f |-> t.f, size |-> t.size, n |-> t.n, over |-> t.over]
      BY DEF Moving
    <3> QED BY Zenon, <2>4, <3>1, <3>2
  <2> QED BY <2>2, <2>3, <2>5, <2>6 DEF Moving, Near, At
<1> QED BY <1>1, <1>2

\* readv's loop stays within the transfers of its file,
LEMMA ReadvFacts ==
    ASSUME NEW f, NEW t \in Moving(f), NEW lens \in Seq(Nat)
    PROVE  /\ FoldLeft(ReadStep, t, lens) \in Moving(f)
           /\ \E g : ReadFolding(t, lens, g)
<1> DEFINE st == [n \in Nat |-> [x \in Moving(f) |-> ReadStep(x, n)]]
           m == Len(lens)
<1>1. m \in Nat /\ DOMAIN lens = 1 .. m /\ \A i \in 1 .. m : lens[i] \in Nat
  OBVIOUS
<1>2. PICK g : Folding(st, t, lens, g, m)
  BY Zenon, <1>1, FoldExists
<1>3. \A n \in Nat, x \in Moving(f) : st[n][x] = ReadStep(x, n) /\ ReadStep(x, n) \in Moving(f)
  BY ReadStepFacts
<1> HIDE DEF st, m
<1>4. \A s \in SUBSET (1 .. m) : s # {} => Max(s) \in 1 .. m /\ s \ {Max(s)} \in SUBSET (1 .. m)
  BY Zenon, <1>1, MaxIn
<1>5. \A s \in SUBSET (1 .. m) : g[s] \in Moving(f)
  <2>1. g[{}] \in Moving(f)
    BY <1>2 DEF Folding
  <2>2. ASSUME NEW s \in SUBSET (1 .. m), s # {}, g[s \ {Max(s)}] \in Moving(f)
        PROVE  g[s] \in Moving(f)
    <3>1. g[s] = st[lens[Max(s)]][g[s \ {Max(s)}]]
      BY Zenon, <1>2, <2>2 DEF Folding
    <3> QED BY <1>1, <1>3, <1>4, <2>2, <3>1
  <2> QED BY Zenon, <1>1, <2>1, <2>2, FoldStays
<1>6. ReadFolding(t, lens, g)
  <2>1. \A s \in SUBSET (1 .. m) : s # {} =>
            st[lens[Max(s)]][g[s \ {Max(s)}]] = ReadStep(g[s \ {Max(s)}], lens[Max(s)])
    BY <1>1, <1>3, <1>4, <1>5
  <2> QED BY Zenon, <1>1, <1>2, <2>1 DEF Folding, ReadFolding
<1>7. PICK h : h = CHOOSE x : ReadFolding(t, lens, x)
  OBVIOUS
<1>8. ReadFolding(t, lens, h)
  BY <1>6, <1>7
<1>9. \A s \in SUBSET (1 .. m) : h[s] \in Moving(f)
  <2>1. h[{}] \in Moving(f)
    BY <1>8 DEF ReadFolding
  <2>2. ASSUME NEW s \in SUBSET (1 .. m), s # {}, h[s \ {Max(s)}] \in Moving(f)
        PROVE  h[s] \in Moving(f)
    <3>1. h[s] = ReadStep(h[s \ {Max(s)}], lens[Max(s)])
      BY Zenon, <1>1, <1>8, <2>2 DEF ReadFolding
    <3> QED BY <1>1, <1>3, <1>4, <2>2, <3>1
  <2> QED BY Zenon, <1>1, <2>1, <2>2, FoldStays
<1>10. FoldLeft(ReadStep, t, lens) = h[1 .. m]
  BY Zenon, <1>1, <1>7, ReadFold
<1> QED BY Zenon, <1>6, <1>9, <1>10

\* and so does writev's.
LEMMA WritevFacts ==
    ASSUME NEW f, NEW t \in Moving(f), NEW lens \in Seq(Nat)
    PROVE  /\ FoldLeft(WriteStep, t, lens) \in Moving(f)
           /\ \E g : WriteFolding(t, lens, g)
<1> DEFINE st == [n \in Nat |-> [x \in Moving(f) |-> WriteStep(x, n)]]
           m == Len(lens)
<1>1. m \in Nat /\ DOMAIN lens = 1 .. m /\ \A i \in 1 .. m : lens[i] \in Nat
  OBVIOUS
<1>2. PICK g : Folding(st, t, lens, g, m)
  BY Zenon, <1>1, FoldExists
<1>3. \A n \in Nat, x \in Moving(f) : st[n][x] = WriteStep(x, n) /\ WriteStep(x, n) \in Moving(f)
  BY SMTT(30), WriteStepFacts
<1> HIDE DEF st, m
<1>4. \A s \in SUBSET (1 .. m) : s # {} => Max(s) \in 1 .. m /\ s \ {Max(s)} \in SUBSET (1 .. m)
  BY Zenon, <1>1, MaxIn
<1>5. \A s \in SUBSET (1 .. m) : g[s] \in Moving(f)
  <2>1. g[{}] \in Moving(f)
    BY <1>2 DEF Folding
  <2>2. ASSUME NEW s \in SUBSET (1 .. m), s # {}, g[s \ {Max(s)}] \in Moving(f)
        PROVE  g[s] \in Moving(f)
    <3>1. g[s] = st[lens[Max(s)]][g[s \ {Max(s)}]]
      BY Zenon, <1>2, <2>2 DEF Folding
    <3> QED BY <1>1, <1>3, <1>4, <2>2, <3>1
  <2> QED BY Zenon, <1>1, <2>1, <2>2, FoldStays
<1>6. WriteFolding(t, lens, g)
  <2>1. \A s \in SUBSET (1 .. m) : s # {} =>
            st[lens[Max(s)]][g[s \ {Max(s)}]] = WriteStep(g[s \ {Max(s)}], lens[Max(s)])
    BY <1>1, <1>3, <1>4, <1>5
  <2> QED BY Zenon, <1>1, <1>2, <2>1 DEF Folding, WriteFolding
<1>7. PICK h : h = CHOOSE x : WriteFolding(t, lens, x)
  OBVIOUS
<1>8. WriteFolding(t, lens, h)
  BY <1>6, <1>7
<1>9. \A s \in SUBSET (1 .. m) : h[s] \in Moving(f)
  <2>1. h[{}] \in Moving(f)
    BY <1>8 DEF WriteFolding
  <2>2. ASSUME NEW s \in SUBSET (1 .. m), s # {}, h[s \ {Max(s)}] \in Moving(f)
        PROVE  h[s] \in Moving(f)
    <3>1. h[s] = WriteStep(h[s \ {Max(s)}], lens[Max(s)])
      BY Zenon, <1>1, <1>8, <2>2 DEF WriteFolding
    <3> QED BY <1>1, <1>3, <1>4, <2>2, <3>1
  <2> QED BY Zenon, <1>1, <2>1, <2>2, FoldStays
<1>10. FoldLeft(WriteStep, t, lens) = h[1 .. m]
  BY Zenon, <1>1, <1>7, WriteFold
<1> QED BY Zenon, <1>6, <1>9, <1>10

----------------------------------------------------------------------------
(* The open files.                                                         *)

\* An open file: its fields, and for a regular file an inode the host keeps
\* and a cursor less than one chunk ahead of pos.
FileOK(f, inodes) ==
    /\ f \in [path : Seq(Name), is_dir : BOOLEAN, ino : {f.ino}, pos : Nat, cursor : Nat,
              read : BOOLEAN, write : BOOLEAN, append : BOOLEAN, cache : {f.cache}]
    /\ ~f.is_dir => f.ino \in inodes /\ Near(f)

\* A value that is a sequence, of whatever elements.
IsSequence(s) == \E S : s \in Seq(S)

\* The pass over a directory: before the first getdents64 nothing was
\* listed; afterwards the cache is the listing the pass began with, and what
\* was returned is the part of it before pos.
PassOK(f, s) ==
    /\ s \in [listing : {s.listing}, bytes : {s.bytes}]
    /\ f.cache \in [filled : BOOLEAN, bytes : {f.cache.bytes}]
    /\ IF f.cache.filled THEN f.cache.bytes = s.listing
       ELSE f.pos = 0 /\ s.listing = << >>
    /\ IsSequence(s.listing)
    /\ f.pos \in 0 .. Len(s.listing)
    /\ s.bytes = SubSeq(s.listing, 1, f.pos)

\* The host's tree: finitely many names, and a size for every file they name.
TreeOK(t, sz) ==
    /\ IsFiniteSet(DOMAIN t)
    /\ sz \in [DOMAIN sz -> Nat]
    /\ \A p \in DOMAIN t : t[p] # Dir => t[p] \in DOMAIN sz

\* The descriptors lead to open files, each with its pass.
TablesOK(d, fl, s) ==
    /\ \A x \in DOMAIN d : d[x] \in DOMAIN fl
    /\ fl = [o \in DOMAIN fl |-> fl[o]]
    /\ s = [o \in DOMAIN fl |-> s[o]]

FilesOK(fl, s, inodes) ==
    \A o \in DOMAIN fl : FileOK(fl[o], inodes) /\ (fl[o].is_dir => PassOK(fl[o], s[o]))

\* What the theorems about open files need.
OpenInv ==
    /\ TreeOK(tree, size)
    /\ TablesOK(fds, file, seen)
    /\ FilesOK(file, seen, DOMAIN size)

\* The transfer of a call begins among those its file allows.
LEMMA TransferMoving ==
    ASSUME NEW f, NEW inodes, FileOK(f, inodes), ~f.is_dir, NEW z \in Nat
    PROVE  Transfer(f, z) \in Moving(f)
<1>1. Near(f)
  BY DEF FileOK
<1> QED BY <1>1 DEF FileOK, Transfer, Moving

\* and its end is such a file again.
LEMMA MovedFileOK ==
    ASSUME NEW f, NEW inodes, FileOK(f, inodes), ~f.is_dir, NEW t \in Moving(f)
    PROVE  FileOK(t.f, inodes) /\ t.f.is_dir = f.is_dir /\ t.size \in Nat
<1>1. /\ t.f \in [path : {f.path}, is_dir : {f.is_dir}, ino : {f.ino}, pos : Nat,
                  cursor : Nat, read : {f.read}, write : {f.write},
                  append : {f.append}, cache : {f.cache}]
      /\ Near(t.f) /\ t.size \in Nat
  BY DEF Moving
<1>2. f.ino \in inodes /\ f.path \in Seq(Name)
      /\ f.is_dir \in BOOLEAN /\ f.read \in BOOLEAN /\ f.write \in BOOLEAN /\ f.append \in BOOLEAN
  BY DEF FileOK
<1>3. PICK x : x = t.f
  OBVIOUS
<1>4. FileOK(x, inodes) /\ x.is_dir = f.is_dir
  BY <1>1, <1>2, <1>3 DEF FileOK
<1> QED BY <1>1, <1>3, <1>4

\* Two slices in a row are one.
LEMMA SliceOn ==
    ASSUME NEW S, NEW s \in Seq(S), NEW a \in Nat, NEW b \in Nat, a <= b, b <= Len(s)
    PROVE  SubSeq(s, 1, a) \o SubSeq(s, a + 1, b) = SubSeq(s, 1, b)
<1> DEFINE u == SubSeq(s, 1, a)
           v == SubSeq(s, a + 1, b)
           w == SubSeq(s, 1, b)
<1>1. u \in Seq(S) /\ Len(u) = a /\ \A i \in 1 .. a : u[i] = s[i]
  OBVIOUS
<1>2. v \in Seq(S) /\ Len(v) = b - a /\ \A i \in 1 .. b - a : v[i] = s[a + i]
  OBVIOUS
<1>3. w \in Seq(S) /\ Len(w) = b /\ \A i \in 1 .. b : w[i] = s[i]
  OBVIOUS
<1> HIDE DEF u, v, w
<1>4. u \o v \in Seq(S) /\ Len(u \o v) = b
  <2>1. u \in Seq(S) /\ v \in Seq(S)
    BY <1>1, <1>2
  <2>2. u \o v \in Seq(S) /\ Len(u \o v) = Len(u) + Len(v)
    BY <2>1
  <2>3. Len(u) + Len(v) = b
    BY <1>1, <1>2
  <2> QED BY <2>2, <2>3
<1>5. ASSUME NEW i \in 1 .. b PROVE (u \o v)[i] = w[i]
  <2>1. i \in Nat /\ (i <= a \/ i > a)
    OBVIOUS
  <2>2. CASE i <= a
    BY SMTT(30), <1>1, <1>2, <1>3, <2>2
  <2>3. CASE i > a
    <3>1. (u \o v)[i] = v[i - a]
      BY <1>1, <1>2, <2>3
    <3>2. v[i - a] = s[i]
      BY <1>2, <2>3
    <3> QED BY <1>3, <3>1, <3>2
  <2> QED BY Zenon, <2>1, <2>2, <2>3
<1>6. u \o v = w
  BY <1>3, <1>4, <1>5
<1> QED BY <1>6 DEF u, v, w

\* A function on 1 .. n is a sequence.
LEMMA FunctionIsSequence ==
    ASSUME NEW n \in Nat, NEW s, s = [i \in 1 .. n |-> s[i]]
    PROVE  IsSequence(s)
<1> DEFINE S == { s[i] : i \in 1 .. n }
<1>1. s \in [1 .. n -> S]
  OBVIOUS
<1>2. s \in Seq(S)
  BY <1>1
<1> HIDE DEF S
<1> QED BY <1>2 DEF IsSequence

\* readdir_all returns a sequence of bytes.
LEMMA ReaddirSequence ==
    ASSUME TreeOK(tree, size), NEW p
    PROVE  IsSequence(ReaddirAll(p))
<1> DEFINE below == { r \in Below(p) : Len(r) = Len(p) + 1 }
           S == Children(p)
           f == [q \in below |-> q[Len(q)]]
           names == SortedNames(S)
<1>1. IsFiniteSet(below)
  <2>1. below \in SUBSET DOMAIN tree /\ IsFiniteSet(DOMAIN tree)
    BY DEF Below, TreeOK
  <2> QED BY <2>1, FS_Subset
<1>2. S = { q[Len(q)] : q \in below }
  BY DEF Children
<1> HIDE DEF below
<1>3. f \in Surjection(below, S)
  BY <1>2 DEF Surjection
<1> HIDE DEF f
<1>4. Cardinality(S) \in Nat
  BY <1>1, <1>3, FS_Surjection, FS_CardinalityType
<1>5. names = [i \in 1 .. Cardinality(S) |-> names[i]]
  BY SMTT(30) DEF SortedNames
<1> HIDE DEF names, S
<1>6. Len(names) = Cardinality(S)
  BY <1>4, <1>5
<1>7. RecLen * Len(names) \in Nat
  <2>1. PICK a \in Nat, b \in Nat : a = RecLen /\ b = Len(names)
    BY <1>4, <1>6, FilesAssumption
  <2>2. a * b \in Nat
    OBVIOUS
  <2> QED BY <2>1, <2>2
<1>8. PICK n \in Nat : n = RecLen * Len(names)
  BY <1>7
<1>9. PICK s : s = Encode(names)
  OBVIOUS
<1>10. s = [i \in 1 .. n |-> s[i]]
  BY <1>8, <1>9 DEF Encode
<1>11. IsSequence(s)
  BY <1>10, FunctionIsSequence
<1> QED BY <1>9, <1>11 DEF ReaddirAll, names, S

\* f with its cache at c and its position at p, in two forms.
Relist(f, p, c) == [f EXCEPT !.cache = c, !.pos = p]
ListedAt(f, p, c) ==
    [path |-> f.path, is_dir |-> f.is_dir, ino |-> f.ino, pos |-> p, cursor |-> f.cursor,
     read |-> f.read, write |-> f.write, append |-> f.append, cache |-> c]

\* The two forms agree.
LEMMA Relisted ==
    ASSUME NEW f, NEW inodes, FileOK(f, inodes), NEW p, NEW c
    PROVE  Relist(f, p, c) = ListedAt(f, p, c)
<1>1. PICK p0 : p0 = f.pos
  OBVIOUS
<1>2. [f EXCEPT !.cache = c] = ListedAt(f, p0, c)
  BY <1>1 DEF FileOK, ListedAt
<1>3. [ListedAt(f, p0, c) EXCEPT !.pos = p] = ListedAt(f, p, c)
  BY DEF ListedAt
<1> QED BY Zenon, <1>2, <1>3 DEF Relist

\* getdents64 continues the pass from pos.
LEMMA GetdentsPass ==
    ASSUME NEW f, NEW s, NEW inodes, NEW L, NEW c, NEW len \in Nat,
           FileOK(f, inodes), f.is_dir, PassOK(f, s), IsSequence(L),
           c = IF f.cache.filled THEN f.cache ELSE [filled |-> TRUE, bytes |-> L]
    PROVE  LET end == Least(f.pos + len, Len(c.bytes))
               x == [f EXCEPT !.cache = c, !.pos = Most(f.pos, end)]
               y == [listing |-> IF f.cache.filled THEN s.listing ELSE L,
                     bytes |-> s.bytes \o SubSeq(c.bytes, f.pos + 1, end)]
           IN  FileOK(x, inodes) /\ x.is_dir /\ PassOK(x, y)
<1> DEFINE end == Least(f.pos + len, Len(c.bytes))
           q == Most(f.pos, end)
           x == [f EXCEPT !.cache = c, !.pos = q]
           listing == IF f.cache.filled THEN s.listing ELSE L
           y == [listing |-> listing, bytes |-> s.bytes \o SubSeq(c.bytes, f.pos + 1, end)]
<1>1. f.pos \in Nat
  BY DEF FileOK
<1>2. c.bytes = listing /\ IsSequence(listing) /\ c.filled = TRUE /\ c = [filled |-> TRUE, bytes |-> listing]
  <2>1. CASE f.cache.filled
    BY Zenon, <2>1 DEF PassOK
  <2>2. CASE ~f.cache.filled
    BY <2>2
  <2> QED BY Zenon, <2>1, <2>2
<1>3. PICK S : listing \in Seq(S)
  BY <1>2 DEF IsSequence
<1>4. f.pos <= Len(listing) /\ s.bytes = SubSeq(listing, 1, f.pos)
  <2>1. CASE f.cache.filled
    BY <1>1, <1>3, <2>1 DEF PassOK
  <2>2. CASE ~f.cache.filled
    <3>1. f.pos = 0 /\ s.listing = << >> /\ s.bytes = SubSeq(s.listing, 1, f.pos)
      BY <2>2 DEF PassOK
    <3>2. s.bytes = << >>
      BY <3>1
    <3>3. SubSeq(listing, 1, 0) = << >> /\ 0 <= Len(listing)
      BY <1>3
    <3> QED BY <3>1, <3>2, <3>3
  <2> QED BY <2>1, <2>2
<1> HIDE DEF listing
<1>5. end \in Nat /\ f.pos <= end /\ end <= Len(listing) /\ q = end
  BY <1>1, <1>2, <1>3, <1>4 DEF Least, Most
<1> HIDE DEF end, q
<1>6. s.bytes \o SubSeq(listing, f.pos + 1, end) = SubSeq(listing, 1, end)
  <2>1. SubSeq(listing, 1, f.pos) \o SubSeq(listing, f.pos + 1, end) = SubSeq(listing, 1, end)
    BY <1>1, <1>3, <1>4, <1>5, SliceOn, Zenon
  <2> QED BY <1>4, <2>1, Zenon
<1>7. x = [path |-> f.path, is_dir |-> f.is_dir, ino |-> f.ino, pos |-> end,
           cursor |-> f.cursor, read |-> f.read, write |-> f.write,
           append |-> f.append, cache |-> c]
  <2>1. x = Relist(f, end, c)
    BY <1>5 DEF Relist
  <2> HIDE DEF x
  <2> QED BY Zenon, <2>1, Relisted DEF ListedAt
<1>8. y = [listing |-> listing, bytes |-> SubSeq(listing, 1, end)]
  BY Zenon, <1>2, <1>6
<1> HIDE DEF x, y
<1>9. FileOK(x, inodes) /\ x.is_dir
  BY <1>5, <1>7 DEF FileOK
<1>10. PassOK(x, y)
  <2>1. x.cache = c /\ x.pos = end /\ y.listing = listing /\ y.bytes = SubSeq(listing, 1, end)
    BY Zenon, <1>7, <1>8
  <2>2. y \in [listing : {y.listing}, bytes : {y.bytes}]
    BY <1>8
  <2>3. c \in [filled : BOOLEAN, bytes : {c.bytes}]
    BY Zenon, <1>2
  <2>4. end \in 0 .. Len(listing)
    BY <1>3, <1>5
  <2> QED BY <1>2, <2>1, <2>2, <2>3, <2>4 DEF PassOK
<1> QED BY <1>9, <1>10 DEF x, y, end, q, listing

----------------------------------------------------------------------------
(* The host's tree under the calls that change it.                         *)

\* A new name for a directory or for a file that is there,
LEMMA TreePut ==
    ASSUME NEW t, NEW sz, TreeOK(t, sz), NEW p, NEW v, v # Dir => v \in DOMAIN sz
    PROVE  TreeOK(Put(t, p, v), sz)
<1>1. DOMAIN Put(t, p, v) = DOMAIN t \cup {p}
      /\ \A q \in DOMAIN t \cup {p} : Put(t, p, v)[q] = IF q = p THEN v ELSE t[q]
  BY DEF Put
<1>2. IsFiniteSet(DOMAIN t \cup {p})
  BY FS_AddElement DEF TreeOK
<1> QED BY <1>1, <1>2 DEF TreeOK

\* and for a new file.
LEMMA TreeNew ==
    ASSUME NEW t, NEW sz, TreeOK(t, sz), NEW p, NEW i, NEW n \in Nat
    PROVE  TreeOK(Put(t, p, i), Put(sz, i, n)) /\ DOMAIN sz \subseteq DOMAIN Put(sz, i, n)
<1>1. /\ DOMAIN Put(sz, i, n) = DOMAIN sz \cup {i}
      /\ Put(sz, i, n) \in [DOMAIN sz \cup {i} -> Nat]
  BY DEF Put, TreeOK
<1>2. TreeOK(t, Put(sz, i, n))
  BY <1>1 DEF TreeOK
<1> QED BY <1>1, <1>2, TreePut

\* A file gets another size.
LEMMA TreeResize ==
    ASSUME NEW t, NEW sz, TreeOK(t, sz), NEW i, NEW n \in Nat
    PROVE  LET z == [sz EXCEPT ![i] = n] IN TreeOK(t, z) /\ DOMAIN z = DOMAIN sz
<1> DEFINE z == [sz EXCEPT ![i] = n]
<1>1. z \in [DOMAIN sz -> Nat] /\ DOMAIN z = DOMAIN sz
  BY Zenon DEF TreeOK
<1> HIDE DEF z
<1>2. TreeOK(t, z)
  BY <1>1 DEF TreeOK
<1> QED BY <1>1, <1>2 DEF z

\* The host drops only the inodes neither a name nor an open file refers to.
LEMMA TreeKept ==
    ASSUME NEW t, NEW sz, TreeOK(t, sz), NEW f
    PROVE  TreeOK(t, Kept(sz, t, f))
<1> DEFINE D == DOMAIN sz \cap InUse(t, f)
<1>1. Kept(sz, t, f) \in [D -> Nat] /\ DOMAIN Kept(sz, t, f) = D
  BY DEF Kept, TreeOK
<1>2. \A p \in DOMAIN t : t[p] \in InUse(t, f)
  BY DEF InUse
<1> HIDE DEF D
<1>3. \A p \in DOMAIN t : t[p] # Dir => t[p] \in D
  BY <1>2 DEF D, TreeOK
<1> QED BY <1>1, <1>3 DEF TreeOK

\* A tree with names and inodes of another.
LEMMA TreePart ==
    ASSUME NEW t, NEW sz, TreeOK(t, sz), NEW u, IsFiniteSet(DOMAIN u),
           \A q \in DOMAIN u : \E p \in DOMAIN t : u[q] = t[p]
    PROVE  TreeOK(u, sz)
BY DEF TreeOK

\* rename moves names and loses none but the one it replaces.
LEMMA TreeRename ==
    ASSUME TreeOK(tree, size), NEW old, NEW new, HostRename(old, new)
    PROVE  TreeOK(tree', size)
<1> DEFINE stays == { p \in DOMAIN tree \ {new} : ~Under(old, p) }
           moves == { p \in DOMAIN tree : Under(old, p) }
           landed == { Moved(p, old, new) : p \in moves }
           f == [p \in moves |-> Moved(p, old, new)]
<1>1. CASE tree' = tree
  BY <1>1
<1>2. CASE tree' # tree
  <2>1. tree' = [q \in stays \cup landed |->
                    IF q \in stays THEN tree[q]
                    ELSE tree[CHOOSE p \in moves : Moved(p, old, new) = q]]
    BY <1>2 DEF HostRename
  <2>2. stays \in SUBSET DOMAIN tree /\ moves \in SUBSET DOMAIN tree
    OBVIOUS
  <2>3. IsFiniteSet(stays) /\ IsFiniteSet(moves)
    BY <2>2, FS_Subset DEF TreeOK
  <2>4. f \in Surjection(moves, landed)
    BY DEF Surjection
  <2>5. DOMAIN tree' = stays \cup landed
    BY <2>1
  <2>6. \A q \in DOMAIN tree' : \E p \in DOMAIN tree : tree'[q] = tree[p]
    <3> SUFFICES ASSUME NEW q \in stays \cup landed
                 PROVE  \E p \in DOMAIN tree : tree'[q] = tree[p]
      BY <2>5
    <3>1. CASE q \in stays
      BY <2>1, <3>1
    <3>2. CASE q \notin stays
      <4>1. \E p \in moves : Moved(p, old, new) = q
        BY <3>2
      <4>2. (CHOOSE p \in moves : Moved(p, old, new) = q) \in moves
        BY <4>1
      <4>3. tree'[q] = tree[CHOOSE p \in moves : Moved(p, old, new) = q]
        BY <2>1, <3>2
      <4> QED BY Zenon, <2>2, <4>2, <4>3
    <3> QED BY <3>1, <3>2
  <2> HIDE DEF stays, moves, landed, f
  <2>7. IsFiniteSet(landed)
    BY <2>3, <2>4, FS_Surjection
  <2>8. IsFiniteSet(DOMAIN tree')
    BY Zenon, <2>3, <2>5, <2>7, FS_Union
  <2> QED BY <2>6, <2>8, TreePart
<1> QED BY <1>1, <1>2

\* Open files stay right while the inodes they use are kept,
LEMMA FilesKept ==
    ASSUME NEW fl, NEW s, NEW I, FilesOK(fl, s, I), NEW J,
           \A o \in DOMAIN fl : fl[o].ino \in I => fl[o].ino \in J
    PROVE  FilesOK(fl, s, J)
BY Zenon DEF FilesOK, FileOK

\* which is what Kept does.
LEMMA FilesHeld ==
    ASSUME NEW fl, NEW s, NEW t, NEW sz, FilesOK(fl, s, DOMAIN sz)
    PROVE  FilesOK(fl, s, DOMAIN Kept(sz, t, fl))
<1>1. DOMAIN Kept(sz, t, fl) = DOMAIN sz \cap InUse(t, fl)
  BY DEF Kept
<1>2. \A o \in DOMAIN fl : fl[o].ino \in InUse(t, fl)
  BY DEF InUse
<1> QED BY <1>1, <1>2, FilesKept

----------------------------------------------------------------------------
(* The open files under the calls that change them.                        *)

\* A file just opened has both positions at 0 and has listed nothing.
LEMMA NewFileOK ==
    ASSUME NEW p \in Seq(Name), NEW node, NEW fl \in OpenFlags, NEW I,
           node # Dir => node \in I
    PROVE  FileOK(NewFile(p, node, fl), I) /\ PassOK(NewFile(p, node, fl), NoPass)
<1> DEFINE x == NewFile(p, node, fl)
<1>1. PICK d \in BOOLEAN, r \in BOOLEAN, w \in BOOLEAN, a \in BOOLEAN :
        d = (node = Dir) /\ r = fl.read /\ w = Writable(fl) /\ a = ("APPEND" \in fl.opts)
  <2>1. fl.read \in BOOLEAN
    BY CallsAssumption
  <2>2. Writable(fl) \in BOOLEAN /\ (node = Dir) \in BOOLEAN /\ ("APPEND" \in fl.opts) \in BOOLEAN
    BY SMT DEF Writable
  <2> QED BY <2>1, <2>2, Zenon
<1>2. x = [path |-> p, is_dir |-> d, ino |-> node, pos |-> 0, cursor |-> 0,
           read |-> r, write |-> w, append |-> a, cache |-> NoCache]
  BY <1>1, Zenon DEF NewFile
<1>3. ~d => node \in I
  BY Zenon, <1>1
<1> HIDE DEF x
<1>4. FileOK(x, I)
  <2>1. PICK c \in Nat : c = Chunk /\ c > 0
    BY FilesAssumption
  <2>2. Near(x)
    BY <1>2, <2>1 DEF Near
  <2> QED BY Zenon, <1>2, <1>3, <2>2 DEF FileOK
<1>5. PassOK(x, NoPass)
  <2>1. x.cache = NoCache /\ x.pos = 0
    BY <1>2
  <2>2. << >> \in Seq({}) /\ SubSeq(<< >>, 1, 0) = << >> /\ Len(<< >>) = 0
    OBVIOUS
  <2>3. IsSequence(<< >>)
    BY <2>2 DEF IsSequence
  <2> QED BY <2>1, <2>2, <2>3 DEF PassOK, NoPass, NoCache
<1> QED BY <1>4, <1>5 DEF x

\* open adds a file,
LEMMA FilePut ==
    ASSUME NEW fl, NEW s, NEW I, FilesOK(fl, s, I), DOMAIN s = DOMAIN fl,
           NEW o, NEW x, NEW y, FileOK(x, I), PassOK(x, y)
    PROVE  FilesOK(Put(fl, o, x), Put(s, o, y), I)
<1>1. DOMAIN Put(fl, o, x) = DOMAIN fl \cup {o}
  BY DEF Put
<1>2. ASSUME NEW k \in DOMAIN fl \cup {o}
      PROVE  /\ Put(fl, o, x)[k] = IF k = o THEN x ELSE fl[k]
             /\ Put(s, o, y)[k] = IF k = o THEN y ELSE s[k]
  BY Zenon DEF Put
<1>3. ASSUME NEW k \in DOMAIN fl \cup {o}
      PROVE  /\ FileOK(Put(fl, o, x)[k], I)
             /\ Put(fl, o, x)[k].is_dir => PassOK(Put(fl, o, x)[k], Put(s, o, y)[k])
  <2>1. CASE k = o
    BY <1>2, <2>1
  <2>2. CASE k # o
    BY <1>2, <2>2 DEF FilesOK
  <2> QED BY Zenon, <2>1, <2>2
<1> QED BY Zenon, <1>1, <1>3 DEF FilesOK

\* a read, a write, a seek or a getdents64 changes one.
LEMMA FileEdit ==
    ASSUME NEW fl, NEW s, NEW I, FilesOK(fl, s, I), NEW o \in DOMAIN fl, NEW x,
           FileOK(x, I), NEW gl, NEW r, DOMAIN gl = DOMAIN fl,
           gl[o] = x, \A k \in DOMAIN fl : k # o => gl[k] = fl[k] /\ r[k] = s[k],
           x.is_dir => PassOK(x, r[o])
    PROVE  FilesOK(gl, r, I)
<1>1. ASSUME NEW k \in DOMAIN fl
      PROVE  FileOK(gl[k], I) /\ (gl[k].is_dir => PassOK(gl[k], r[k]))
  <2>1. CASE k = o
    BY <2>1
  <2>2. CASE k # o
    <3>1. gl[k] = fl[k] /\ r[k] = s[k]
      BY <2>2
    <3> QED BY <3>1 DEF FilesOK
  <2> QED BY Zenon, <2>1, <2>2
<1> QED BY <1>1 DEF FilesOK

\* The same for the tables.
LEMMA TablesEdit ==
    ASSUME NEW d, NEW fl, NEW s, TablesOK(d, fl, s), NEW gl, NEW r,
           gl = [o \in DOMAIN fl |-> gl[o]], r = [o \in DOMAIN fl |-> r[o]]
    PROVE  TablesOK(d, gl, r)
<1>1. DOMAIN gl = DOMAIN fl
  BY Zenon
<1> QED BY <1>1 DEF TablesOK

\* open, in the tables.
LEMMA TablesPut ==
    ASSUME NEW d, NEW fl, NEW s, TablesOK(d, fl, s), NEW fd, NEW o, NEW x, NEW y
    PROVE  TablesOK(Put(d, fd, o), Put(fl, o, x), Put(s, o, y))
<1>1. DOMAIN Put(fl, o, x) = DOMAIN fl \cup {o} /\ DOMAIN s = DOMAIN fl
  BY Zenon DEF Put, TablesOK
<1>2. \A k \in DOMAIN Put(d, fd, o) : Put(d, fd, o)[k] \in DOMAIN fl \cup {o}
  BY DEF Put, TablesOK
<1>3. Put(fl, o, x) = [k \in DOMAIN fl \cup {o} |-> Put(fl, o, x)[k]]
  BY DEF Put
<1>4. Put(s, o, y) = [k \in DOMAIN fl \cup {o} |-> Put(s, o, y)[k]]
  BY <1>1 DEF Put
<1> QED BY <1>1, <1>2, <1>3, <1>4 DEF TablesOK

\* The pieces of OpenInv.
LEMMA OpenParts ==
    ASSUME OpenInv
    PROVE  /\ TreeOK(tree, size) /\ TablesOK(fds, file, seen)
           /\ FilesOK(file, seen, DOMAIN size)
           /\ DOMAIN seen = DOMAIN file
BY Zenon DEF OpenInv, TablesOK

\* A call that leaves the open files alone and keeps their inodes.
LEMMA SameFiles ==
    ASSUME OpenInv, UNCHANGED <<fds, file, seen>>, TreeOK(tree', size'),
           FilesOK(file, seen, DOMAIN size')
    PROVE  OpenInv'
BY DEF OpenInv

\* The path calls that open nothing.
LEMMA PathStep ==
    ASSUME OpenInv, NEW p, NEW q,
           \/ Chdir(p) \/ Chroot(p) \/ Mkdirat(p) \/ Linkat(p, q)
           \/ \E len \in 0 .. MaxSize : Truncate(p, len)
           \/ \E removedir \in BOOLEAN : Unlinkat(p, removedir)
           \/ \E flag : Renameat(p, q, flag)
    PROVE  OpenInv'
<1>1. TreeOK(tree, size) /\ FilesOK(file, seen, DOMAIN size)
  BY Zenon, OpenParts
<1>2. CASE Chdir(p) \/ Chroot(p)
  <2>1. UNCHANGED <<tree, size, fds, file, seen>>
    BY <1>2 DEF Chdir, Chroot
  <2> QED BY <1>1, <2>1, SameFiles
<1>3. CASE Mkdirat(p)
  <2>1. tree' = Put(tree, p, Dir) /\ UNCHANGED <<size, fds, file, seen>>
    BY <1>3 DEF Mkdirat
  <2>2. TreeOK(tree', size')
    BY <1>1, <2>1, TreePut
  <2> QED BY <1>1, <2>1, <2>2, SameFiles
<1>4. CASE Linkat(p, q)
  <2>1. tree' = Put(tree, q, tree[p]) /\ UNCHANGED <<size, fds, file, seen>> /\ p \in DOMAIN tree
    BY <1>4 DEF Linkat, IsFile
  <2>2. tree[p] # Dir => tree[p] \in DOMAIN size
    BY SMTT(30), <1>1, <2>1 DEF TreeOK
  <2>3. TreeOK(tree', size')
    BY Zenon, <1>1, <2>1, <2>2, TreePut
  <2> QED BY <1>1, <2>1, <2>3, SameFiles
<1>5. ASSUME NEW len \in 0 .. MaxSize, Truncate(p, len) PROVE OpenInv'
  <2>1. UNCHANGED <<fds, file, seen>> /\ len \in Nat
    BY <1>5, FilesAssumption DEF Truncate
  <2>2. CASE size' = [size EXCEPT ![tree[p]] = len] /\ UNCHANGED tree
    <3>1. TreeOK(tree', size') /\ DOMAIN size' = DOMAIN size
      BY Zenon, <1>1, <2>1, <2>2, TreeResize
    <3> QED BY <1>1, <2>1, <3>1, SameFiles
  <2>3. CASE tree' = Put(tree, p, NewInode) /\ size' = Put(size, NewInode, len)
    <3>1. TreeOK(tree', size') /\ DOMAIN size \subseteq DOMAIN size'
      BY <1>1, <2>1, <2>3, TreeNew
    <3>2. FilesOK(file, seen, DOMAIN size')
      BY Zenon, <1>1, <3>1, FilesKept
    <3> QED BY <2>1, <3>1, <3>2, SameFiles
  <2> QED BY <1>5, <2>2, <2>3 DEF Truncate
<1>6. ASSUME TreeOK(tree', size), size' = Kept(size, tree', file), UNCHANGED <<fds, file, seen>>
      PROVE  OpenInv'
  <2>1. TreeOK(tree', size')
    BY <1>6, TreeKept
  <2>2. FilesOK(file, seen, DOMAIN size')
    BY Zenon, <1>1, <1>6, FilesHeld
  <2> QED BY <1>6, <2>1, <2>2, SameFiles
<1>7. ASSUME NEW b \in BOOLEAN, Unlinkat(p, b) PROVE OpenInv'
  <2>1. tree' = Del(tree, p)
    BY <1>7 DEF Unlinkat
  <2>2. DOMAIN tree' \in SUBSET DOMAIN tree /\ \A x \in DOMAIN tree' : tree'[x] = tree[x]
    BY <2>1 DEF Del
  <2>3. IsFiniteSet(DOMAIN tree')
    BY <1>1, <2>2, FS_Subset DEF TreeOK
  <2>4. TreeOK(tree', size)
    BY <1>1, <2>2, <2>3, TreePart
  <2> QED BY <1>6, <1>7, <2>4 DEF Unlinkat
<1>8. ASSUME NEW flag, Renameat(p, q, flag) PROVE OpenInv'
  <2>1. HostRename(p, q) /\ size' = Kept(size, tree', file) /\ UNCHANGED <<fds, file, seen>>
    BY <1>8 DEF Renameat
  <2>2. TreeOK(tree', size)
    BY <1>1, <2>1, TreeRename
  <2> QED BY <1>6, <2>1, <2>2
<1> QED BY SMTT(30), <1>2, <1>3, <1>4, <1>5, <1>7, <1>8

\* open.
LEMMA OpenStep ==
    ASSUME OpenInv, NEW p \in Seq(Name), NEW fl \in OpenFlags, Openat(p, fl)
    PROVE  OpenInv'
<1>1. TreeOK(tree, size) /\ TablesOK(fds, file, seen)
      /\ FilesOK(file, seen, DOMAIN size) /\ DOMAIN seen = DOMAIN file
  BY OpenParts
<1>2. TreeOK(tree', size') /\ DOMAIN size \subseteq DOMAIN size' /\ p \in DOMAIN tree'
  <2>1. CASE p \notin DOMAIN tree
    <3>1. tree' = Put(tree, p, NewInode) /\ size' = Put(size, NewInode, 0)
      BY <2>1 DEF Openat
    <3>2. p \in DOMAIN tree'
      BY <3>1 DEF Put
    <3> QED BY Zenon, <1>1, <3>1, <3>2, TreeNew
  <2>2. CASE p \in DOMAIN tree
    <3>1. tree' = tree /\ (size' = size \/ size' = [size EXCEPT ![tree[p]] = 0])
      BY <2>2 DEF Openat
    <3> QED BY SMTT(30), <1>1, <2>2, <3>1, TreeResize
  <2> QED BY <2>1, <2>2
<1>3. FilesOK(file, seen, DOMAIN size')
  BY <1>1, <1>2, FilesKept
<1>4. CASE UNCHANGED <<fds, file, seen>>
  BY <1>2, <1>3, <1>4, SameFiles
<1>5. CASE ~UNCHANGED <<fds, file, seen>>
  <2>1. PICK fd, o : /\ fds' = Put(fds, fd, o)
                     /\ file' = Put(file, o, NewFile(p, tree'[p], fl))
                     /\ seen' = Put(seen, o, NoPass)
    BY <1>5 DEF Openat
  <2>2. tree'[p] # Dir => tree'[p] \in DOMAIN size'
    BY SMTT(30), <1>2 DEF TreeOK
  <2>3. /\ FileOK(NewFile(p, tree'[p], fl), DOMAIN size')
        /\ PassOK(NewFile(p, tree'[p], fl), NoPass)
    BY Zenon, <2>2, NewFileOK
  <2>4. FilesOK(file', seen', DOMAIN size')
    BY Zenon, <1>1, <1>3, <2>1, <2>3, FilePut
  <2>5. TablesOK(fds', file', seen')
    BY <1>1, <2>1, TablesPut
  <2> QED BY <1>2, <2>4, <2>5 DEF OpenInv
<1> QED BY <1>4, <1>5

\* close and dup.
LEMMA CloseStep ==
    ASSUME OpenInv, NEW fd \in DOMAIN fds, Close(fd) \/ Dup(fd)
    PROVE  OpenInv'
<1>1. TreeOK(tree, size) /\ TablesOK(fds, file, seen)
      /\ FilesOK(file, seen, DOMAIN size) /\ DOMAIN seen = DOMAIN file
  BY OpenParts
<1>2. CASE Close(fd)
  <2> DEFINE live == { fds'[f] : f \in DOMAIN fds' }
  <2>1. /\ fds' = Del(fds, fd) /\ file' = [o \in live |-> file[o]]
        /\ seen' = [o \in live |-> seen[o]]
        /\ size' = Kept(size, tree, file') /\ tree' = tree
    BY <1>2 DEF Close
  <2>2. DOMAIN fds' \subseteq DOMAIN fds /\ \A f \in DOMAIN fds' : fds'[f] = fds[f]
    BY <2>1 DEF Del
  <2>3. live \subseteq DOMAIN file
    BY <1>1, <2>2 DEF TablesOK
  <2>4. \A f \in DOMAIN fds' : fds'[f] \in live
    OBVIOUS
  <2> HIDE DEF live
  <2>5. DOMAIN file' = live /\ \A o \in live : file'[o] = file[o] /\ seen'[o] = seen[o]
    BY <2>1
  <2>6. TablesOK(fds', file', seen')
    <3>1. file' = [o \in live |-> file'[o]] /\ seen' = [o \in live |-> seen'[o]]
      BY <2>1
    <3> QED BY <2>4, <2>5, <3>1 DEF TablesOK
  <2>7. FilesOK(file', seen', DOMAIN size)
    <3>1. ASSUME NEW o \in live
          PROVE  FileOK(file'[o], DOMAIN size) /\ (file'[o].is_dir => PassOK(file'[o], seen'[o]))
      <4>1. o \in DOMAIN file /\ file'[o] = file[o] /\ seen'[o] = seen[o]
        BY <2>3, <2>5
      <4> QED BY Zenon, <1>1, <4>1 DEF FilesOK
    <3> QED BY <2>5, <3>1 DEF FilesOK
  <2>8. FilesOK(file', seen', DOMAIN size')
    BY Zenon, <2>1, <2>7, FilesHeld
  <2>9. TreeOK(tree', size')
    BY Zenon, <1>1, <2>1, TreeKept
  <2> QED BY <2>6, <2>8, <2>9 DEF OpenInv
<1>3. CASE Dup(fd)
  <2>1. PICK k : fds' = Put(fds, k, fds[fd])
    BY <1>3 DEF Dup
  <2>2. UNCHANGED <<tree, size, file, seen>>
    BY <1>3 DEF Dup
  <2>3. \A f \in DOMAIN fds' : fds'[f] \in DOMAIN file
    BY <1>1, <2>1 DEF Put, TablesOK
  <2>4. TablesOK(fds', file', seen')
    BY <1>1, <2>2, <2>3 DEF TablesOK
  <2> QED BY Zenon, <1>1, <2>2, <2>4 DEF OpenInv
<1> QED BY <1>2, <1>3

\* A call on a regular file leaves it a regular file of the same inode.
LEMMA RegularStep ==
    ASSUME OpenInv, NEW o \in DOMAIN file, ~file[o].is_dir, NEW x, ~x.is_dir,
           FileOK(x, DOMAIN size), file' = [file EXCEPT ![o] = x],
           UNCHANGED <<fds, seen>>, TreeOK(tree', size'), DOMAIN size' = DOMAIN size
    PROVE  OpenInv'
<1>1. TablesOK(fds, file, seen) /\ FilesOK(file, seen, DOMAIN size)
  BY OpenParts
<1>2. DOMAIN file' = DOMAIN file /\ file'[o] = x
      /\ \A k \in DOMAIN file : k # o => file'[k] = file[k]
  OBVIOUS
<1>3. FilesOK(file', seen', DOMAIN size')
  BY Zenon, <1>1, <1>2, FileEdit
<1>4. TablesOK(fds', file', seen')
  <2>1. file' = [k \in DOMAIN file |-> file'[k]]
    BY Zenon, <1>2
  <2>2. seen' = [k \in DOMAIN file |-> seen'[k]]
    BY <1>1 DEF TablesOK
  <2> QED BY <1>1, <2>1, <2>2, TablesEdit
<1> QED BY <1>3, <1>4 DEF OpenInv

\* What a call on a regular file starts from.
LEMMA RegularFacts ==
    ASSUME OpenInv, NEW fd \in DOMAIN fds, ~Opened(fd).is_dir
    PROVE  /\ fds[fd] \in DOMAIN file /\ Opened(fd) = file[fds[fd]]
           /\ FileOK(Opened(fd), DOMAIN size)
           /\ size[Opened(fd).ino] \in Nat
           /\ Transfer(Opened(fd), size[Opened(fd).ino]) \in Moving(Opened(fd))
<1>1. TreeOK(tree, size) /\ TablesOK(fds, file, seen) /\ FilesOK(file, seen, DOMAIN size)
  BY Zenon, OpenParts
<1>2. fds[fd] \in DOMAIN file /\ Opened(fd) = file[fds[fd]]
  BY <1>1 DEF TablesOK, Opened
<1>3. FileOK(Opened(fd), DOMAIN size)
  BY <1>1, <1>2 DEF FilesOK
<1>4. Opened(fd).ino \in DOMAIN size
  BY <1>3 DEF FileOK
<1>5. size[Opened(fd).ino] \in Nat
  BY <1>1, <1>4 DEF TreeOK
<1> QED BY Zenon, <1>2, <1>3, <1>5, TransferMoving

\* readv, writev and ftruncate.
LEMMA TransferStep ==
    ASSUME OpenInv, NEW fd \in DOMAIN fds,
           \/ \E lens \in Lens : Readv(fd, lens) \/ Writev(fd, lens)
           \/ \E len \in 0 .. MaxSize : Ftruncate(fd, len)
    PROVE  OpenInv'
<1> DEFINE f == Opened(fd)
           t0 == Transfer(f, size[f.ino])
<1>0. TreeOK(tree, size) /\ FilesOK(file, seen, DOMAIN size)
  BY OpenParts
<1>1. ASSUME NEW lens \in Lens, Readv(fd, lens) PROVE OpenInv'
  <2>1. ~f.is_dir /\ UNCHANGED <<tree, size, fds, seen>>
    BY Zenon, <1>1 DEF Readv
  <2>2. fds[fd] \in DOMAIN file /\ f = file[fds[fd]] /\ FileOK(f, DOMAIN size) /\ t0 \in Moving(f)
    BY Zenon, <2>1, RegularFacts
  <2>3. lens \in Seq(Nat)
    BY SMTT(30), CallsAssumption
  <2> DEFINE t == FoldLeft(ReadStep, t0, lens)
  <2>4. file' = [file EXCEPT ![fds[fd]] = t.f]
    BY Zenon, <1>1 DEF Readv
  <2> HIDE DEF f, t0
  <2>5. t \in Moving(f)
    BY Zenon, <2>2, <2>3, ReadvFacts
  <2> HIDE DEF t
  <2>6. FileOK(t.f, DOMAIN size) /\ ~t.f.is_dir
    BY <2>1, <2>2, <2>5, MovedFileOK
  <2>7. TreeOK(tree', size') /\ DOMAIN size' = DOMAIN size
    BY <1>0, <2>1
  <2> QED BY ZenonT(30), <2>1, <2>2, <2>4, <2>6, <2>7, RegularStep
<1>2. ASSUME NEW lens \in Lens, Writev(fd, lens) PROVE OpenInv'
  <2>1. ~f.is_dir /\ UNCHANGED <<tree, fds, seen>>
    BY Zenon, <1>2 DEF Writev
  <2>2. fds[fd] \in DOMAIN file /\ f = file[fds[fd]] /\ FileOK(f, DOMAIN size) /\ t0 \in Moving(f)
    BY Zenon, <2>1, RegularFacts
  <2>3. lens \in Seq(Nat)
    BY CallsAssumption
  <2> DEFINE t == FoldLeft(WriteStep, t0, lens)
  <2>4. file' = [file EXCEPT ![fds[fd]] = t.f] /\ size' = [size EXCEPT ![f.ino] = t.size]
    BY Zenon, <1>2 DEF Writev
  <2> HIDE DEF f, t0
  <2>5. t \in Moving(f)
    BY Zenon, <2>2, <2>3, WritevFacts
  <2> HIDE DEF t
  <2>6. FileOK(t.f, DOMAIN size) /\ ~t.f.is_dir /\ t.size \in Nat
    BY Zenon, <2>1, <2>2, <2>5, MovedFileOK
  <2>7. TreeOK(tree', size') /\ DOMAIN size' = DOMAIN size
    BY Zenon, <1>0, <2>1, <2>4, <2>6, TreeResize
  <2> QED BY Zenon, <2>1, <2>2, <2>4, <2>6, <2>7, RegularStep
<1>3. ASSUME NEW len \in 0 .. MaxSize, Ftruncate(fd, len) PROVE OpenInv'
  <2>1. /\ size' = [size EXCEPT ![f.ino] = len] /\ UNCHANGED <<tree, fds, file, seen>>
    BY <1>3 DEF Ftruncate
  <2>2. len \in Nat
    BY FilesAssumption
  <2>3. TreeOK(tree', size') /\ DOMAIN size' = DOMAIN size
    BY Zenon, <1>0, <2>1, <2>2, TreeResize
  <2> QED BY <1>0, <2>1, <2>3, SameFiles
<1> QED BY <1>1, <1>2, <1>3

\* A directory's call: its file and its pass change together.
LEMMA DirStep ==
    ASSUME OpenInv, NEW o \in DOMAIN file, NEW x, NEW y, FileOK(x, DOMAIN size),
           PassOK(x, y), UNCHANGED <<tree, size, fds>>,
           file' = [file EXCEPT ![o] = x], seen' = [seen EXCEPT ![o] = y]
    PROVE  OpenInv'
<1>1. TablesOK(fds, file, seen) /\ FilesOK(file, seen, DOMAIN size) /\ TreeOK(tree, size)
      /\ DOMAIN seen = DOMAIN file
  BY OpenParts
<1>2. DOMAIN file' = DOMAIN file /\ file'[o] = x
      /\ \A k \in DOMAIN file : k # o => file'[k] = file[k]
  OBVIOUS
<1>3. DOMAIN seen' = DOMAIN file /\ seen'[o] = y
      /\ \A k \in DOMAIN file : k # o => seen'[k] = seen[k]
  BY <1>1
<1>4. FilesOK(file', seen', DOMAIN size)
  BY ZenonT(30), <1>1, <1>2, <1>3, FileEdit
<1>5. TablesOK(fds', file', seen')
  <2>1. file' = [k \in DOMAIN file |-> file'[k]]
    BY Zenon, <1>2
  <2>2. seen' = [k \in DOMAIN file |-> seen'[k]]
    BY Zenon, <1>3
  <2> QED BY <1>1, <2>1, <2>2, TablesEdit
<1> QED BY <1>1, <1>4, <1>5 DEF OpenInv

\* Setting both positions of an open file.
LEMMA SeekAt ==
    ASSUME NEW f, NEW I, FileOK(f, I), NEW p, NEW c
    PROVE  Reposition(f, p, c) = At(f, p, c)
<1>1. PICK c0 : c0 = f.cursor
  OBVIOUS
<1>2. [f EXCEPT !.pos = p] = At(f, p, c0)
  BY <1>1 DEF FileOK, At
<1>3. [At(f, p, c0) EXCEPT !.cursor = c] = At(f, p, c)
  BY DEF At
<1> QED BY Zenon, <1>2, <1>3 DEF Reposition

\* A rewound directory has returned nothing of its listing.
LEMMA RewoundPass ==
    ASSUME NEW f, NEW I, FileOK(f, I), NEW s, PassOK(f, s)
    PROVE  PassOK(At(f, 0, f.cursor), [s EXCEPT !.bytes = << >>])
<1> DEFINE x == At(f, 0, f.cursor)
           y == [s EXCEPT !.bytes = << >>]
<1>1. x.pos = 0 /\ x.cache = f.cache
  BY Zenon DEF At
<1>2. y = [listing |-> s.listing, bytes |-> << >>]
  BY DEF PassOK
<1> HIDE DEF x, y
<1>3. PICK S : s.listing \in Seq(S)
  BY DEF PassOK, IsSequence
<1>4. SubSeq(s.listing, 1, 0) = << >> /\ 0 \in 0 .. Len(s.listing)
  BY <1>3
<1>5. /\ f.cache \in [filled : BOOLEAN, bytes : {f.cache.bytes}]
      /\ IF f.cache.filled THEN f.cache.bytes = s.listing ELSE s.listing = << >>
      /\ IsSequence(s.listing)
  BY DEF PassOK
<1>6. y.listing = s.listing /\ y.bytes = << >> /\ y \in [listing : {y.listing}, bytes : {y.bytes}]
  BY <1>2
<1> QED BY <1>1, <1>4, <1>5, <1>6 DEF PassOK, x, y

\* lseek.
LEMMA LseekStep ==
    ASSUME OpenInv, NEW fd \in DOMAIN fds, NEW off, NEW w, Lseek(fd, off, w)
    PROVE  OpenInv'
<1> DEFINE o == fds[fd]
           f == file[o]
           to == IF f.is_dir THEN 0 ELSE SeekTo(f, off, w)
           c == IF f.is_dir THEN f.cursor ELSE to
<1>1. TablesOK(fds, file, seen) /\ FilesOK(file, seen, DOMAIN size) /\ TreeOK(tree, size)
      /\ DOMAIN seen = DOMAIN file
  BY OpenParts
<1>2. o \in DOMAIN file
  BY <1>1 DEF TablesOK
<1>3. FileOK(f, DOMAIN size) /\ (f.is_dir => PassOK(f, seen[o]))
  BY <1>1, <1>2 DEF FilesOK
<1>4. to \in Nat /\ c \in Nat
  <2>1. to \in 0 .. MaxSize
    BY DEF Lseek
  <2>2. to \in Nat
    BY <2>1, FilesAssumption
  <2> HIDE DEF to
  <2> QED BY Zenon, <1>3, <2>2 DEF FileOK
<1>5. file' = [file EXCEPT ![o] = Reposition(f, to, c)]
  BY DEF Lseek, Reposition
<1>6. Reposition(f, to, c) = At(f, to, c)
  BY Zenon, <1>3, SeekAt
<1>7. UNCHANGED <<tree, size, fds>>
  BY DEF Lseek
<1>8. FileOK(At(f, to, c), DOMAIN size)
  <2>1. ~f.is_dir => c = to
    OBVIOUS
  <2> HIDE DEF f, to, c
  <2>2. PICK x \in Nat : x = Chunk /\ x > 0
    BY FilesAssumption
  <2>3. ~f.is_dir => Near(At(f, to, c))
    <3>1. ~f.is_dir => c - to = 0
      BY <1>4, <2>1
    <3>2. At(f, to, c).cursor = c /\ At(f, to, c).pos = to
      BY DEF At
    <3> QED BY <2>2, <3>1, <3>2 DEF Near
  <2> QED BY Zenon, <1>3, <1>4, <2>3 DEF FileOK, At
<1>9. CASE f.is_dir
  <2>1. seen' = [seen EXCEPT ![o] = [seen[o] EXCEPT !.bytes = << >>]]
    BY SMTT(30), <1>1, <1>2, <1>9 DEF Lseek
  <2>2. to = 0 /\ c = f.cursor
    BY Zenon, <1>9
  <2> HIDE DEF f, to, c
  <2>3. PassOK(At(f, 0, f.cursor), [seen[o] EXCEPT !.bytes = << >>])
    BY <1>3, <1>9, RewoundPass
  <2>4. file' = [file EXCEPT ![o] = At(f, 0, f.cursor)] /\ FileOK(At(f, 0, f.cursor), DOMAIN size)
    BY <1>5, <1>6, <1>8, <2>2
  <2> QED BY Zenon, <1>2, <1>7, <2>1, <2>3, <2>4, DirStep
<1>10. CASE ~f.is_dir
  <2>1. UNCHANGED seen
    BY SMTT(30), <1>10 DEF Lseek
  <2>2. ~At(f, to, c).is_dir
    BY Zenon, <1>10 DEF At
  <2>3. file' = [file EXCEPT ![o] = At(f, to, c)]
    BY Zenon, <1>5, <1>6
  <2>4. TreeOK(tree', size') /\ DOMAIN size' = DOMAIN size
    BY Zenon, <1>1, <1>7
  <2> QED BY Zenon, <1>2, <1>7, <1>8, <1>10, <2>1, <2>2, <2>3, <2>4, RegularStep
<1> QED BY <1>9, <1>10

\* getdents64.
LEMMA GetdentsStep ==
    ASSUME OpenInv, NEW fd \in DOMAIN fds, NEW len \in 1 .. RecLen + 1, Getdents64(fd, len)
    PROVE  OpenInv'
<1> DEFINE o == fds[fd]
           f == file[o]
           c == Filled(f)
           L == ReaddirAll(f.path)
           end == Least(f.pos + len, Len(c.bytes))
           slice == SubSeq(c.bytes, f.pos + 1, end)
           q == Most(f.pos, end)
           y == [listing |-> IF f.cache.filled THEN seen[o].listing ELSE L,
                 bytes |-> seen[o].bytes \o slice]
<1>1. TablesOK(fds, file, seen) /\ FilesOK(file, seen, DOMAIN size) /\ TreeOK(tree, size)
  BY Zenon, OpenParts
<1>2. o \in DOMAIN file /\ f.is_dir /\ UNCHANGED <<tree, size, fds>>
  BY Zenon, <1>1 DEF TablesOK, Getdents64
<1>3. FileOK(f, DOMAIN size) /\ PassOK(f, seen[o])
  BY Zenon, <1>1, <1>2 DEF FilesOK
<1>4. seen' = [seen EXCEPT ![o] = y]
  BY Zenon DEF Getdents64
<1>5. file' = [file EXCEPT ![o].cache = c, ![o].pos = q]
  BY Zenon DEF Getdents64
<1>6. c = IF f.cache.filled THEN f.cache ELSE [filled |-> TRUE, bytes |-> L]
  BY Zenon DEF Filled
<1>7. len \in Nat
  BY FilesAssumption
<1>8. IsSequence(L)
  BY <1>1, ReaddirSequence
<1> HIDE DEF c, L
<1>9. FileOK(Relist(f, q, c), DOMAIN size) /\ PassOK(Relist(f, q, c), y)
  <2> HIDE DEF f, o
  <2> QED BY Zenon, <1>2, <1>3, <1>6, <1>7, <1>8, GetdentsPass DEF Relist
<1> HIDE DEF q, y
<1>10. file' = [file EXCEPT ![o] = Relist(f, q, c)]
  BY Zenon, <1>2, <1>5 DEF Relist
<1> HIDE DEF f, o
<1> QED BY Zenon, <1>2, <1>4, <1>9, <1>10, DirStep

----------------------------------------------------------------------------
\* Every call keeps the open files in order.
LEMMA FilesStep ==
    ASSUME PathsOK, OpenInv, [Next]_vars
    PROVE  OpenInv'
<1>1. ASSUME NEW p \in Resolved, NEW fl \in OpenFlags, Openat(p, fl) PROVE OpenInv'
  <2>1. p \in Seq(Name)
    BY ResolvedUnder DEF Resolved
  <2> QED BY <1>1, <2>1, OpenStep
<1>2. ASSUME NEW p, NEW q,
             \/ Chdir(p) \/ Chroot(p) \/ Mkdirat(p) \/ Linkat(p, q)
             \/ \E len \in 0 .. MaxSize : Truncate(p, len)
             \/ \E removedir \in BOOLEAN : Unlinkat(p, removedir)
             \/ \E flag : Renameat(p, q, flag)
      PROVE  OpenInv'
  BY Zenon, <1>2, PathStep
<1>3. ASSUME NEW fd \in DOMAIN fds, Close(fd) \/ Dup(fd) PROVE OpenInv'
  BY <1>3, CloseStep
<1>4. ASSUME NEW fd \in DOMAIN fds,
             \/ \E lens \in Lens : Readv(fd, lens) \/ Writev(fd, lens)
             \/ \E len \in 0 .. MaxSize : Ftruncate(fd, len)
      PROVE  OpenInv'
  BY <1>4, TransferStep
<1>5. ASSUME NEW fd \in DOMAIN fds, NEW off, NEW w, Lseek(fd, off, w) PROVE OpenInv'
  BY <1>5, LseekStep
<1>6. ASSUME NEW fd \in DOMAIN fds, NEW len \in 1 .. RecLen + 1, Getdents64(fd, len)
      PROVE  OpenInv'
  BY <1>6, GetdentsStep
<1>7. CASE UNCHANGED vars
  <2>1. UNCHANGED <<tree, size, fds, file, seen>>
    BY <1>7 DEF vars
  <2>2. TreeOK(tree, size) /\ FilesOK(file, seen, DOMAIN size)
    BY OpenParts
  <2> QED BY <2>1, <2>2, SameFiles
<1> QED BY Zenon, <1>1, <1>2, <1>3, <1>4, <1>5, <1>6, <1>7 DEF Next

\* A new kernel has no open file.
LEMMA InitFiles == ASSUME Init PROVE OpenInv
<1>1. DOMAIN tree = HostDirs /\ (\A p \in HostDirs : tree[p] = Dir) /\ DOMAIN size = {}
      /\ size \in [{} -> Nat]
  BY DEF Init, EmptyMap
<1>2. TreeOK(tree, size)
  BY <1>1, FilesAssumption DEF TreeOK
<1>3. DOMAIN fds = {} /\ DOMAIN file = {} /\ file = [o \in {} |-> file[o]]
      /\ seen = [o \in {} |-> seen[o]]
  BY DEF Init, EmptyMap
<1> QED BY <1>2, <1>3 DEF OpenInv, TablesOK, FilesOK

\* In every reachable state a write can miss the position by less than one
\* chunk, whatever reads, writes, seeks and duplicates came before
\* (read_chunked takes whole chunks, write does not seek).
THEOREM CursorNeverFar == Spec => []CursorOvershoot
<1>1. Init => PathsOK /\ OpenInv
  BY InitPaths, InitFiles
<1>2. PathsOK /\ OpenInv /\ [Next]_vars => PathsOK' /\ OpenInv'
  BY StepStays, FilesStep DEF StepOK
<1>3. OpenInv => CursorOvershoot
  <2> SUFFICES ASSUME OpenInv, NEW o \in DOMAIN file, ~file[o].is_dir, ~file[o].append
               PROVE  file[o].cursor - file[o].pos \in 0 .. Chunk - 1
    BY DEF CursorOvershoot
  <2> QED BY Zenon, OpenParts DEF FilesOK, FileOK, Near
<1> QED BY <1>1, <1>2, <1>3, PTL DEF Spec

\* Reading a and then b bytes returns what reading a + b would, and leaves
\* the position there.
Additive(t, a, b) ==
    LET v == ReadStep(ReadStep(t, a), b)
        r == ReadStep(t, a + b)
    IN  v.n = r.n /\ v.f.pos = r.f.pos

\* Two reads in a row are one: the arithmetic of readv.
LEMMA TwoReads ==
    ASSUME NEW f, NEW z \in Nat, Transfer(f, z) \in Moving(f), NEW a \in Nat, NEW b \in Nat
    PROVE  Additive(Transfer(f, z), a, b)
<1> DEFINE t == Transfer(f, z)
           u == ReadStep(t, a)
           v == ReadStep(u, b)
           r == ReadStep(t, a + b)
           left == AtLeast0(z - f.pos)
<1>1. t.size = z /\ t.f = f /\ t.n = 0 /\ t.over = FALSE /\ t \in Moving(f)
  BY DEF Transfer
<1>2. f.pos \in Nat /\ a + b \in Nat
  BY <1>1 DEF Moving
<1> HIDE DEF t
<1>3. /\ u \in Moving(f) /\ u.size = z
      /\ LET got == IF f.read THEN Least(a, left) ELSE 0
         IN  u.n = 0 + got /\ u.f.pos = f.pos + got /\ u.over = (got < a)
  <2>1. u \in Moving(f) /\ u.size = z
    BY ZenonT(30), <1>1, ReadStepFacts
  <2>2. LET got == IF t.f.read THEN Least(a, AtLeast0(t.size - t.f.pos)) ELSE 0
        IN  ~t.over => u.n = t.n + got /\ u.f.pos = t.f.pos + got /\ u.over = (got < a)
    BY Zenon, <1>1, ReadStepFacts
  <2> QED BY Zenon, <1>1, <2>1, <2>2
<1>4. LET got == IF f.read THEN Least(a + b, left) ELSE 0
      IN  r.n = 0 + got /\ r.f.pos = f.pos + got
  <2>1. PICK m \in Nat : m = a + b
    BY <1>2
  <2>2. LET got == IF t.f.read THEN Least(m, AtLeast0(t.size - t.f.pos)) ELSE 0
        IN  ~t.over => /\ ReadStep(t, m).n = t.n + got
                       /\ ReadStep(t, m).f.pos = t.f.pos + got
    BY Zenon, <1>1, ReadStepFacts
  <2> QED BY Zenon, <1>1, <2>1, <2>2
<1>5. u.f.read = f.read
  BY Zenon, <1>3 DEF Moving
<1> HIDE DEF u, r
<1>6. u.over => v = u
  BY Zenon, <1>3, ReadStepFacts
<1>7. LET got == IF f.read THEN Least(b, AtLeast0(z - u.f.pos)) ELSE 0
      IN  ~u.over => v.n = u.n + got /\ v.f.pos = u.f.pos + got
  BY Zenon, <1>3, <1>5, ReadStepFacts
<1> HIDE DEF v
<1>8. v.n = r.n /\ v.f.pos = r.f.pos
  <2>0. PICK l \in Nat : l = left /\ (l = z - f.pos \/ (l = 0 /\ z - f.pos < 0))
    BY SMTT(30), <1>2 DEF AtLeast0
  <2>1. CASE ~f.read
    <3>1. /\ u.n = 0 + 0 /\ u.f.pos = f.pos + 0
          /\ r.n = 0 + 0 /\ r.f.pos = f.pos + 0
      BY Zenon, <1>3, <1>4, <2>1
    <3>2. v = u \/ (v.n = u.n + 0 /\ v.f.pos = u.f.pos + 0)
      BY Zenon, <1>6, <1>7, <2>1
    <3> QED  BY ONLY <3>1, <3>2, <1>2
  <2>2. CASE f.read /\ u.over
    <3>1. Least(a, l) < a /\ u.n = 0 + Least(a, l) /\ u.f.pos = f.pos + Least(a, l)
      BY Zenon, <1>3, <2>0, <2>2
    <3>2. r.n = 0 + Least(a + b, l) /\ r.f.pos = f.pos + Least(a + b, l)
      BY <1>4, <2>0, <2>2
    <3>3. Least(a, l) = Least(a + b, l)
      BY <3>1 DEF Least
    <3> QED BY Zenon, <1>6, <2>2, <3>1, <3>2, <3>3
  <2>3. CASE f.read /\ ~u.over
    <3>1. ~(Least(a, l) < a) /\ u.n = 0 + Least(a, l) /\ u.f.pos = f.pos + Least(a, l)
      BY Zenon, <1>3, <2>0, <2>3
    <3>2. r.n = 0 + Least(a + b, l) /\ r.f.pos = f.pos + Least(a + b, l)
      BY <1>4, <2>0, <2>3
    <3>3. Least(a, l) = a /\ a <= l
      BY <3>1 DEF Least
    <3>4. AtLeast0(z - u.f.pos) = l - a
      BY <1>2, <2>0, <3>1, <3>3 DEF AtLeast0
    <3>5. a + Least(b, l - a) = Least(a + b, l) /\ Least(b, l - a) \in Nat
      BY <3>3 DEF Least
    <3>6. v.n = u.n + Least(b, l - a) /\ v.f.pos = u.f.pos + Least(b, l - a)
      BY <1>7, <2>3, <3>4
    <3> QED BY <1>2, <3>1, <3>2, <3>3, <3>5, <3>6
  <2> QED BY <2>1, <2>2, <2>3
<1> QED BY <1>8 DEF Additive, t, u, v, r

\* readv over two buffers takes two steps.
LEMMA ReadvTwo ==
    ASSUME NEW f, NEW t \in Moving(f), NEW a \in Nat, NEW b \in Nat
    PROVE  FoldLeft(ReadStep, t, <<a, b>>) = ReadStep(ReadStep(t, a), b)
<1> DEFINE lens == <<a, b>>
<1>1. lens \in Seq(Nat) /\ DOMAIN lens = 1 .. 2 /\ lens[1] = a /\ lens[2] = b
  OBVIOUS
<1> HIDE DEF lens
<1>2. PICK h : h = CHOOSE x : ReadFolding(t, lens, x)
  OBVIOUS
<1>3. ReadFolding(t, lens, h)
  BY <1>1, <1>2, ReadvFacts
<1>4. Max(1 .. 2) = 2
  BY MaxLast
<1>5. Max({1}) = 1
  <2>1. {1} \in SUBSET (1 .. 0 + 1)
    OBVIOUS
  <2> QED BY <2>1, MaxLast
<1>6. (1 .. 2) \ {2} = {1} /\ {1} \ {1} = {}
  OBVIOUS
<1>7. h[{}] = t
  BY <1>1, <1>3 DEF ReadFolding
<1>8. h[{1}] = ReadStep(h[{1} \ {Max({1})}], lens[Max({1})])
  <2>1. {1} \in SUBSET DOMAIN lens /\ {1} # {}
    BY <1>1
  <2> QED BY Zenon, <1>3, <2>1 DEF ReadFolding
<1>9. h[1 .. 2] = ReadStep(h[(1 .. 2) \ {Max(1 .. 2)}], lens[Max(1 .. 2)])
  <2>1. (1 .. 2) \in SUBSET DOMAIN lens /\ (1 .. 2) # {}
    BY <1>1
  <2> QED BY Zenon, <1>3, <2>1 DEF ReadFolding
<1>10. h[1 .. 2] = ReadStep(ReadStep(t, a), b)
  BY Zenon, <1>1, <1>4, <1>5, <1>6, <1>7, <1>8, <1>9
<1>11. FoldLeft(ReadStep, t, lens) = h[1 .. 2]
  BY <1>1, <1>2, ReadFold
<1> QED BY <1>10, <1>11 DEF lens

\* In every reachable state readv returns, and leaves the position, as one
\* read of the summed length would (readv's loop over read).
THEOREM ReadvReads == Spec => []ReadvIsRead
<1>1. Init => PathsOK /\ OpenInv
  BY InitPaths, InitFiles
<1>2. PathsOK /\ OpenInv /\ [Next]_vars => PathsOK' /\ OpenInv'
  BY StepStays, FilesStep DEF StepOK
<1>3. OpenInv => ReadvIsRead
  <2> SUFFICES ASSUME OpenInv, NEW o \in DOMAIN file, ~file[o].is_dir,
                      NEW a \in 1 .. MaxSize, NEW b \in 1 .. MaxSize
               PROVE  LET t == Transfer(file[o], size[file[o].ino])
                          v == FoldLeft(ReadStep, t, <<a, b>>)
                          r == ReadStep(t, a + b)
                      IN  v.n = r.n /\ v.f.pos = r.f.pos
    BY Zenon DEF ReadvIsRead
  <2>1. PICK f : f = file[o]
    OBVIOUS
  <2>2. FileOK(f, DOMAIN size) /\ TreeOK(tree, size)
    BY <2>1, OpenParts DEF FilesOK
  <2>3. size[f.ino] \in Nat
    BY <2>1, <2>2 DEF FileOK, TreeOK
  <2>4. Transfer(f, size[f.ino]) \in Moving(f)
    BY <2>1, <2>2, <2>3, TransferMoving
  <2>5. a \in Nat /\ b \in Nat
    BY FilesAssumption
  <2> DEFINE t == Transfer(f, size[f.ino])
  <2>6. FoldLeft(ReadStep, t, <<a, b>>) = ReadStep(ReadStep(t, a), b)
    BY Zenon, <2>4, <2>5, ReadvTwo
  <2>7. /\ ReadStep(ReadStep(t, a), b).n = ReadStep(t, a + b).n
        /\ ReadStep(ReadStep(t, a), b).f.pos = ReadStep(t, a + b).f.pos
    <3>1. Additive(t, a, b)
      BY <2>3, <2>4, <2>5, TwoReads
    <3> QED BY <3>1, Zenon DEF Additive
  <2> HIDE DEF t
  <2>8. /\ FoldLeft(ReadStep, t, <<a, b>>).n = ReadStep(t, a + b).n
        /\ FoldLeft(ReadStep, t, <<a, b>>).f.pos = ReadStep(t, a + b).f.pos
    BY SMTT(30), <2>6, <2>7
  <2> QED BY <2>1, <2>8, Zenon DEF t
<1> QED BY <1>1, <1>2, <1>3, PTL DEF Spec

\* In every reachable state the bytes getdents64 returned since the last
\* rewind are the beginning of the one listing the pass began with,
\* whatever happened to the directory since (dir_cache).
THEOREM DirStreamHolds == Spec => []DirStream
<1>1. Init => PathsOK /\ OpenInv
  BY InitPaths, InitFiles
<1>2. PathsOK /\ OpenInv /\ [Next]_vars => PathsOK' /\ OpenInv'
  BY StepStays, FilesStep DEF StepOK
<1>3. OpenInv => DirStream
  <2> SUFFICES ASSUME OpenInv, NEW o \in DOMAIN file, file[o].is_dir
               PROVE  /\ file[o].pos <= Len(seen[o].listing)
                      /\ seen[o].bytes = SubSeq(seen[o].listing, 1, file[o].pos)
    BY DEF DirStream
  <2>1. PassOK(file[o], seen[o])
    BY OpenParts DEF FilesOK
  <2> QED BY <2>1 DEF PassOK
<1> QED BY <1>1, <1>2, <1>3, PTL DEF Spec
=============================================================================
