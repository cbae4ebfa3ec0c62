--------------------------- MODULE ProcessProofs ---------------------------
(***************************************************************************)
(* What a process holds, for every value of the constants.                 *)
(*                                                                         *)
(* Descriptors: for every table size, every number of descriptions and     *)
(* every sequence of calls of a guest that never uses the top u32 as a     *)
(* descriptor (FdLimit < U32), insert() never hands out a bound            *)
(* descriptor, and no allocating call changes what a bound descriptor      *)
(* refers to.  Children: for any number of threads, children and handles,  *)
(* wait4 reaps a child as often as it was inserted.  Memory: for arenas,   *)
(* pages, memories and lengths of any size, mappings never overlap.        *)
(***************************************************************************)
EXTENDS FdTable, Wait4, LinearAllocator, TLAPS

(***************************************************************************)
(* The descriptor table.                                                   *)
(***************************************************************************)
\* The inductive invariant.  NextFdAboveBound needs the bound on next_fd: it
\* is what keeps the u32 addition in insert() and Bump from wrapping.
TableInv == TableTypeOK /\ next_fd <= FdLimit /\ NextFdAboveBound

\* Below the top of u32, adding one does not wrap.
LEMMA SuccFacts ==
    ASSUME FdLimit < U32, NEW fd \in Usable
    PROVE  /\ Succ(fd) = fd + 1
           /\ Succ(fd) \in Fd /\ Succ(fd) <= FdLimit
BY FdAssumption DEF Succ, Usable, Fd

\* Bump puts next_fd above the descriptor just bound, and never lowers it.
LEMMA BumpFacts ==
    ASSUME FdLimit < U32, NEW fd \in Usable, next_fd \in Fd, next_fd <= FdLimit
    PROVE  /\ Bump(fd) \in Fd /\ Bump(fd) <= FdLimit
           /\ fd < Bump(fd) /\ next_fd <= Bump(fd)
BY FdAssumption, SuccFacts DEF Bump, Usable, Fd

\* One binding step: the shape shared by every call that binds a descriptor.
LEMMA BindStep ==
    ASSUME FdLimit < U32, TableInv, NEW fd \in Usable, NEW o \in Object,
           table' = Put(table, fd, o),
           next_fd' \in Fd, next_fd' <= FdLimit, fd < next_fd', next_fd <= next_fd',
           cloexec' \subseteq Fd
    PROVE  TableInv'
<1>1. DOMAIN table' = DOMAIN table \cup {fd}
  BY DEF Put
<1>2. fd \in Fd
  BY FdAssumption DEF Usable, Fd
<1>3. table' \in [DOMAIN table' -> Object]
  BY <1>1 DEF TableInv, TableTypeOK, Put
<1>4. \A g \in DOMAIN table' : g < next_fd'
  BY <1>1, <1>2, FdAssumption DEF TableInv, TableTypeOK, NextFdAboveBound, Fd, Usable
<1> QED
  BY <1>1, <1>2, <1>3, <1>4 DEF TableInv, TableTypeOK, NextFdAboveBound

\* The initial table, stdio only, satisfies the invariant.
LEMMA TableInitInv == TableInit => TableInv
BY FdAssumption DEF TableInit, TableInv, TableTypeOK, NextFdAboveBound, Fd

\* Every call preserves the invariant.
LEMMA TableStepInv ==
    ASSUME FdLimit < U32, TableInv, [TableNext]_table_vars
    PROVE  TableInv'
<1> USE FdAssumption
<1>t. next_fd \in Fd /\ next_fd <= FdLimit /\ cloexec \subseteq Fd /\ Usable \subseteq Fd
  BY DEF TableInv, TableTypeOK, Usable, Fd
<1>n. next_fd < FdLimit => next_fd \in Usable
  BY <1>t DEF Fd, Usable
<1>c. \A fd \in Usable, on \in BOOLEAN : SetCloexec(fd, on) \subseteq Fd
  BY <1>t DEF SetCloexec
<1>1. ASSUME NEW o \in Object, Open(o) PROVE TableInv'
  <2>1. next_fd \in Usable /\ next_fd' = next_fd + 1 /\ next_fd' \in Fd /\ next_fd' <= FdLimit
    BY <1>1, <1>n, SuccFacts DEF Open, Insert
  <2> QED
    BY <1>1, <1>t, <2>1, BindStep DEF Open, Insert, Fd
<1>2. ASSUME NEW rd \in Object, NEW wr \in Object, Pipe2(rd, wr)
      PROVE  TableInv'
  <2> DEFINE second == Succ(next_fd)
  <2>1. next_fd \in Usable /\ second = next_fd + 1 /\ second \in Usable
    BY <1>2, <1>n, SuccFacts DEF Pipe2, Usable, Fd
  <2>2. next_fd' = second + 1 /\ next_fd' \in Fd /\ next_fd' <= FdLimit
    BY <1>2, <2>1, SuccFacts DEF Pipe2
  <2> HIDE DEF second
  <2>3. table' = Put(Put(table, next_fd, rd), second, wr) /\ cloexec' = cloexec
    BY <1>2 DEF Pipe2, second
  <2>4. DOMAIN table' = DOMAIN table \cup {next_fd, second}
    BY <2>3 DEF Put
  <2>5. table' \in [DOMAIN table' -> Object]
    BY <2>3, <2>4 DEF TableInv, TableTypeOK, Put
  <2>6. \A g \in DOMAIN table' : g \in Fd /\ g < next_fd'
    BY <1>t, <2>1, <2>2, <2>4 DEF TableInv, TableTypeOK, NextFdAboveBound, Fd, Usable
  <2> QED
    BY <1>t, <2>2, <2>3, <2>5, <2>6 DEF TableInv, TableTypeOK, NextFdAboveBound
<1>3. ASSUME NEW old \in Usable, NEW fd \in Usable, Dup(old, fd) PROVE TableInv'
  <2>1. table[old] \in Object
    BY <1>3 DEF Dup, Dupable, TableInv, TableTypeOK
  <2> QED
    BY Zenon, <1>3, <1>t, <1>c, <2>1, BumpFacts, BindStep DEF Dup, InsertAtLeast
<1>4. ASSUME NEW old \in Usable, NEW new \in Usable, NEW want \in BOOLEAN,
             DupTo(old, new, want)
      PROVE  TableInv'
  <2>1. table[old] \in Object
    BY <1>4 DEF DupTo, Dupable, TableInv, TableTypeOK
  <2>2. Put(Del(table, new), new, table[old]) = Put(table, new, table[old])
    BY DEF Put, Del
  <2> QED
    BY <1>4, <1>t, <1>c, <2>1, <2>2, BumpFacts, BindStep DEF DupTo
<1>5. ASSUME NEW old \in Usable, NEW min \in Usable, NEW fd \in Usable,
             NEW want \in BOOLEAN, FcntlDupFd(old, min, want, fd)
      PROVE  TableInv'
  <2>1. table[old] \in Object
    BY <1>5 DEF FcntlDupFd, Dupable, TableInv, TableTypeOK
  <2> QED
    BY <1>5, <1>t, <1>c, <2>1, BumpFacts, BindStep DEF FcntlDupFd, InsertAtLeast
<1>6. ASSUME NEW fd \in Usable, NEW on \in BOOLEAN, FcntlSetFd(fd, on) PROVE TableInv'
  BY <1>6, <1>c DEF FcntlSetFd, TableInv, TableTypeOK, NextFdAboveBound
<1>7. ASSUME NEW fd \in Usable, Close(fd) PROVE TableInv'
  <2>1. DOMAIN table' = DOMAIN table \ {fd} /\ table' \in [DOMAIN table' -> Object]
    BY <1>7 DEF Close, Del, TableInv, TableTypeOK
  <2> QED
    BY <1>7, <2>1 DEF Close, TableInv, TableTypeOK, NextFdAboveBound
<1>8. ASSUME NEW fd \in Usable, NEW o \in Object, AttachInherited(fd, o) PROVE TableInv'
  BY <1>8, <1>t, BumpFacts, BindStep DEF AttachInherited
<1>9. ASSUME NEW new \in RestoreImages, Restore(new) PROVE TableInv'
  <2>1. DOMAIN new \subseteq DOMAIN table /\ new \in [DOMAIN new -> Object]
    BY Zenon, <1>9 DEF RestoreImages
  <2> QED
    BY <1>9, <2>1 DEF Restore, TableInv, TableTypeOK, NextFdAboveBound
<1>10. CASE UNCHANGED table_vars
  BY <1>10 DEF table_vars, TableInv, TableTypeOK, NextFdAboveBound
<1> QED
  BY <1>1, <1>2, <1>3, <1>4, <1>5, <1>6, <1>7, <1>8, <1>9, <1>10 DEF TableNext, Allocate

\* FdTable::insert is safe: next_fd stays above every bound descriptor, for
\* any guest that stays below the top of u32.
THEOREM NextFdSafe ==
    ASSUME FdLimit < U32
    PROVE  TableSpec => [](TableTypeOK /\ NextFdAboveBound)
<1>1. TableInv /\ [TableNext]_table_vars => TableInv'
  BY TableStepInv
<1>2. TableInv => TableTypeOK /\ NextFdAboveBound
  BY DEF TableInv
<1> QED
  BY TableInitInv, <1>1, <1>2, PTL DEF TableSpec

\* No allocating call replaces a bound descriptor.
THEOREM NoSilentRebindHolds ==
    ASSUME FdLimit < U32
    PROVE  TableSpec => NoSilentRebind
<1> DEFINE Kept(fd) == fd \in DOMAIN table' /\ table'[fd] = table[fd]
<1>1. TableInv /\ [TableNext]_table_vars => TableInv'
  BY TableStepInv
<1>2. ASSUME TableInv, Allocate PROVE \A fd \in DOMAIN table : Kept(fd)
  <2> SUFFICES ASSUME NEW fd \in DOMAIN table PROVE Kept(fd)
    OBVIOUS
  <2>0. fd < next_fd /\ fd \in Fd /\ next_fd \in Fd /\ next_fd <= FdLimit
    BY <1>2 DEF TableInv, TableTypeOK, NextFdAboveBound
  <2>0a. fd /= next_fd /\ fd \in Nat /\ next_fd \in Nat
    BY <2>0, FdAssumption DEF Fd
  <2>1. ASSUME NEW o \in Object, Open(o) PROVE Kept(fd)
    BY <2>1, <2>0a DEF Open, Insert, Put
  <2>2. ASSUME NEW rd \in Object, NEW wr \in Object, Pipe2(rd, wr)
        PROVE  Kept(fd)
    <3>1. next_fd \in Usable
      BY <2>2, <2>0a, FdAssumption DEF Pipe2, Usable
    <3>2. Succ(next_fd) = next_fd + 1
      BY <3>1, SuccFacts
    <3>3. fd /= Succ(next_fd)
      BY <3>2, <2>0, <2>0a
    <3>4. table' = Put(Put(table, next_fd, rd), Succ(next_fd), wr)
      BY <2>2 DEF Pipe2
    <3>5. fd \in DOMAIN Put(table, next_fd, rd) /\ Put(table, next_fd, rd)[fd] = table[fd]
      BY <2>0a DEF Put
    <3>6. fd \in DOMAIN table' /\ table'[fd] = table[fd]
      BY <3>3, <3>4, <3>5 DEF Put
    <3> QED
      BY <3>6
  <2>3. ASSUME NEW old \in Usable, NEW new \in Usable, Dup(old, new) PROVE Kept(fd)
    BY <2>3 DEF Dup, InsertAtLeast, LowestFrom, Put
  <2>4. ASSUME NEW old \in Usable, NEW min \in Usable, NEW new \in Usable,
               NEW want \in BOOLEAN, FcntlDupFd(old, min, want, new)
        PROVE  Kept(fd)
    BY <2>4 DEF FcntlDupFd, InsertAtLeast, LowestFrom, Put
  <2>5. ASSUME NEW g \in Usable, NEW o \in Object, AttachInherited(g, o) PROVE Kept(fd)
    BY <2>5 DEF AttachInherited, Put
  <2> QED
    BY <1>2, <2>1, <2>2, <2>3, <2>4, <2>5 DEF Allocate
<1>3. TableInv /\ [TableNext]_table_vars => [Allocate => \A fd \in DOMAIN table : Kept(fd)]_table_vars
  BY <1>2
<1> QED
  BY TableInitInv, <1>1, <1>3, PTL DEF TableSpec, NoSilentRebind

(***************************************************************************)
(* The child table.                                                        *)
(***************************************************************************)
ReapInv == TypeOK /\ ReapsMatchEntries

\* A notify_waiters call keeps call well typed.
LEMMA NotifyFacts ==
    ASSUME TypeOK, NEW n \in Notify, NEW base,
           base \in [Thread -> {Idle} \cup WaitCall \cup ParkCall \cup ExitCall],
           notify_waiters(n, base)
    PROVE  call' \in [Thread -> {Idle} \cup WaitCall \cup ParkCall \cup ExitCall]
<1>1. ASSUME NEW t \in ParkedOn(n)
      PROVE  Retry(call[t]) \in WaitCall
  BY <1>1 DEF ParkedOn, TypeOK, Retry, WaitCall, ParkCall, ExitCall, Idle
<1> QED
  BY <1>1 DEF notify_waiters, ParkedOn

\* InsertChild keeps the map and the count well typed and in balance.
LEMMA InsertFacts ==
    ASSUME ReapInv, NEW p \in Pid, NEW exited \in BOOLEAN, InsertChild(p, exited),
           UNCHANGED reaped
    PROVE  /\ DOMAIN children' \subseteq Pid
           /\ children' \in [DOMAIN children' ->
                               [exited : BOOLEAN, notify : Notify \ {child_event}]]
           /\ inserted' \in [Pid -> Nat]
           /\ reaped' \in [Pid -> Nat]
           /\ ReapsMatchEntries'
<1>1. PICK n \in Notify \ {child_event} :
          children' = Put(children, p, [exited |-> exited, notify |-> n])
  BY DEF InsertChild, Fresh, Referenced
<1>2. DOMAIN children' = DOMAIN children \cup {p}
  BY <1>1 DEF Put
<1>3. children' \in [DOMAIN children' ->
                       [exited : BOOLEAN, notify : Notify \ {child_event}]]
  BY <1>1 DEF Put, ReapInv, TypeOK
<1>4. inserted' \in [Pid -> Nat] /\ inserted' = [inserted EXCEPT ![p] = @ + 1]
  BY DEF InsertChild, ReapInv, TypeOK
<1>5. ReapsMatchEntries'
  BY <1>2, <1>4 DEF ReapsMatchEntries, ReapInv, TypeOK
<1> QED
  BY <1>2, <1>3, <1>4, <1>5 DEF ReapInv, TypeOK

\* Marking an entry leaves the map's domain and types alone.
LEMMA MarkFacts ==
    ASSUME TypeOK, NEW p \in DOMAIN children,
           children' = [children EXCEPT ![p].exited = TRUE]
    PROVE  /\ DOMAIN children' = DOMAIN children
           /\ children' \in [DOMAIN children' ->
                               [exited : BOOLEAN, notify : Notify \ {child_event}]]
BY Zenon DEF TypeOK

\* No child, no waiter: the invariant holds.
LEMMA ReapInitInv == Init => ReapInv
BY Wait4Assumption DEF Init, ReapInv, TypeOK, ReapsMatchEntries, EmptyMap, Life, Plain, At

\* fork and the child's thread.
LEMMA ChildInv ==
    ASSUME ReapInv, NEW p \in Pid,
           Fork(p) \/ SpawnChild(p) \/ Start(p) \/ ChildStep(p)
    PROVE  ReapInv'
<1> USE DEF ReapInv
<1>0. \A s \in Plain : [life EXCEPT ![p] = At(s)] \in [Pid -> Life]
  BY DEF TypeOK, Life, At
<1>1. CASE Fork(p)
  <2>1. InsertChild(p, FALSE) /\ life' \in [Pid -> Life] /\ UNCHANGED <<call, reaped>>
    BY Zenon, <1>0, <1>1 DEF Fork, Plain
  <2> QED
    BY Zenon, <2>1, InsertFacts DEF TypeOK
<1>2. CASE SpawnChild(p) \/ Start(p)
  <2>1. life' \in [Pid -> Life] /\ UNCHANGED <<children, call, inserted, reaped>>
    BY <1>0, <1>2 DEF SpawnChild, Start, Plain
  <2> QED
    BY <2>1 DEF TypeOK, ReapsMatchEntries
<1>3. CASE Crash(p)
  <2>1. life' \in [Pid -> Life] /\ UNCHANGED <<call, reaped>>
    BY <1>0, <1>3 DEF Crash, Plain
  <2>2. CASE p \in DOMAIN children
    <3>1. children' = [children EXCEPT ![p].exited = TRUE] /\ UNCHANGED inserted
      BY Zenon, <1>3, <2>2 DEF Crash
    <3> QED
      BY Zenon, <2>1, <2>2, <3>1, MarkFacts DEF TypeOK, ReapsMatchEntries
  <2>3. CASE p \notin DOMAIN children
    BY Zenon, <1>3, <2>1, <2>3, InsertFacts DEF Crash, TypeOK
  <2> QED
    BY <2>2, <2>3
<1>4. CASE CrashSignal(p)
  <2>1. life' \in [Pid -> Life] /\ UNCHANGED <<children, inserted, reaped>>
    BY <1>0, <1>4 DEF CrashSignal, Plain
  <2>2. call' \in [Thread -> {Idle} \cup WaitCall \cup ParkCall \cup ExitCall]
    BY <1>4, NotifyFacts, Wait4Assumption DEF CrashSignal, TypeOK
  <2> QED
    BY <2>1, <2>2 DEF TypeOK, ReapsMatchEntries
<1>5. CASE Register(p)
  <2>1. InsertChild(p, FALSE) /\ life' \in [Pid -> Life] /\ UNCHANGED <<call, reaped>>
    BY Zenon, <1>0, <1>5 DEF Register, Plain
  <2> QED
    BY Zenon, <2>1, InsertFacts DEF TypeOK
<1>6. CASE Mark(p)
  <2>1. UNCHANGED <<call, inserted, reaped>>
    BY <1>6 DEF Mark
  <2>2. CASE p \in DOMAIN children
    <3>1. /\ children' = [children EXCEPT ![p].exited = TRUE]
          /\ life' = [life EXCEPT ![p] = [pc |-> "marked", on |-> children[p].notify]]
      BY <1>6, <2>2 DEF Mark
    <3>2. [pc |-> "marked", on |-> children[p].notify] \in Life
      BY <2>2 DEF TypeOK, Life
    <3>3. life' \in [Pid -> Life]
      BY <3>1, <3>2 DEF TypeOK
    <3> QED
      BY Zenon, <2>1, <2>2, <3>1, <3>3, MarkFacts DEF TypeOK, ReapsMatchEntries
  <2>3. CASE p \notin DOMAIN children
    <3>1. life' \in [Pid -> Life] /\ UNCHANGED children
      BY <1>0, <1>6, <2>3 DEF Mark, Plain
    <3> QED
      BY <2>1, <3>1 DEF TypeOK, ReapsMatchEntries
  <2> QED
    BY <2>2, <2>3
<1>7. CASE Signal(p)
  <2>1. life' \in [Pid -> Life] /\ UNCHANGED <<children, inserted, reaped>>
    BY <1>0, <1>7 DEF Signal, Plain
  <2>2. PICK n \in Notify : notify_waiters(n, call)
    <3>1. ASSUME life[p].pc = "marked" PROVE life[p].on \in Notify
      BY <3>1 DEF TypeOK, Life, Plain
    <3> QED
      BY <1>7, <3>1, Wait4Assumption DEF Signal
  <2>3. call' \in [Thread -> {Idle} \cup WaitCall \cup ParkCall \cup ExitCall]
    BY <2>2, NotifyFacts DEF TypeOK
  <2> QED
    BY <2>1, <2>3 DEF TypeOK, ReapsMatchEntries
<1> QED
  BY <1>1, <1>2, <1>3, <1>4, <1>5, <1>6, <1>7 DEF ChildStep

\* exit and wait4.
LEMMA ThreadInv ==
    ASSUME ReapInv, NEW t \in Thread,
           \/ Exit(t) \/ Drain(t) \/ WaitStep(t)
           \/ \E pid \in Target, nohang \in BOOLEAN : CallWait4(t, pid, nohang)
    PROVE  ReapInv'
<1> USE DEF ReapInv
<1> DEFINE Calls == {Idle} \cup WaitCall \cup ParkCall \cup ExitCall
<1>0. \A c \in Calls : [call EXCEPT ![t] = c] \in [Thread -> Calls]
  BY DEF TypeOK
<1>1. CASE Exit(t)
  <2>1. [pc |-> "draining", drained |-> { children[p].notify : p \in DOMAIN children }]
          \in Calls
    BY DEF TypeOK, ExitCall
  <2>2. call' \in [Thread -> Calls] /\ UNCHANGED <<life, inserted, reaped>>
    BY Zenon, <1>0, <1>1, <2>1 DEF Exit
  <2>3. children' = [p \in DOMAIN children |-> [children[p] EXCEPT !.exited = TRUE]]
    BY <1>1 DEF Exit
  <2>4. /\ DOMAIN children' = DOMAIN children
        /\ children' \in [DOMAIN children' ->
                            [exited : BOOLEAN, notify : Notify \ {child_event}]]
    BY Zenon, <2>3 DEF TypeOK
  <2> QED
    BY <2>2, <2>4 DEF TypeOK, ReapsMatchEntries
<1>2. CASE Drain(t)
  <2>1. UNCHANGED <<children, life, inserted, reaped>> /\ call[t].pc = "draining"
    BY <1>2 DEF Drain
  <2>2. call[t] \in ExitCall
    BY <2>1 DEF TypeOK, Idle, WaitCall, ParkCall
  <2>3. ASSUME NEW n \in call[t].drained,
               notify_waiters(n, [call EXCEPT ![t].drained = @ \ {n}])
        PROVE  call' \in [Thread -> Calls]
    <3>1. n \in Notify /\ [call[t] EXCEPT !.drained = @ \ {n}] \in Calls
      BY <2>2, <2>3 DEF ExitCall
    <3>2. [call EXCEPT ![t].drained = @ \ {n}] \in [Thread -> Calls]
      BY <3>1 DEF TypeOK
    <3> QED
      BY Zenon, <2>3, <3>1, <3>2, NotifyFacts
  <2>4. ASSUME notify_waiters(child_event, [call EXCEPT ![t] = Idle])
        PROVE  call' \in [Thread -> Calls]
    BY <1>0, <2>4, NotifyFacts, Wait4Assumption
  <2>5. call' \in [Thread -> Calls]
    BY Zenon, <1>2, <2>3, <2>4 DEF Drain
  <2> QED
    BY <2>1, <2>5 DEF TypeOK, ReapsMatchEntries
<1>3. CASE Reap(t)
  <2>1. call' \in [Thread -> Calls] /\ UNCHANGED <<life, inserted>>
    BY <1>0, <1>3 DEF Reap
  <2>2. PICK p \in DOMAIN children :
          /\ children' = Del(children, p)
          /\ reaped' = [reaped EXCEPT ![p] = @ + 1]
    BY Zenon, <1>3 DEF Reap, Reapable
  <2>3. /\ DOMAIN children' = DOMAIN children \ {p}
        /\ children' \in [DOMAIN children' ->
                            [exited : BOOLEAN, notify : Notify \ {child_event}]]
    BY <2>2 DEF Del, TypeOK
  <2>4. reaped' \in [Pid -> Nat] /\ p \in Pid
    BY <2>2 DEF TypeOK
  <2>5. ReapsMatchEntries'
    BY <2>1, <2>2, <2>3, <2>4 DEF ReapsMatchEntries, TypeOK
  <2> QED
    BY <2>1, <2>3, <2>4, <2>5 DEF TypeOK
<1>4. ASSUME NEW c \in Calls, call' = [call EXCEPT ![t] = c],
             UNCHANGED <<children, life, inserted, reaped>>
      PROVE  ReapInv'
  BY <1>0, <1>4 DEF TypeOK, ReapsMatchEntries
<1>5. ASSUME call[t].pc \in {"probe", "check", "pick", "retry"}
      PROVE  call[t] \in WaitCall
  BY <1>5 DEF TypeOK, Idle, ParkCall, ExitCall
<1>6. CASE NoReap(t)
  <2>1. call[t] \in WaitCall
    BY <1>5, <1>6 DEF NoReap
  <2>2. PICK c \in {Idle, [call[t] EXCEPT !.pc = "pick"], [call[t] EXCEPT !.pc = "check"]} :
          call' = [call EXCEPT ![t] = c]
    BY Zenon, <1>6, <2>1 DEF NoReap, WaitCall
  <2>3. c \in Calls
    BY <2>1, <2>2 DEF WaitCall
  <2> QED
    BY Zenon, <1>4, <1>6, <2>2, <2>3 DEF NoReap
<1>7. CASE CheckPid(t)
  <2>1. call[t] \in WaitCall
    BY <1>5, <1>7 DEF CheckPid
  <2>2. PICK c \in {Idle, [call[t] EXCEPT !.pc = "pick"]} :
          call' = [call EXCEPT ![t] = c]
    BY Zenon, <1>7 DEF CheckPid
  <2>3. c \in Calls
    BY <2>1, <2>2 DEF WaitCall
  <2> QED
    BY Zenon, <1>4, <1>7, <2>2, <2>3 DEF CheckPid
<1>8. CASE PickNotify(t)
  <2>1. call[t] \in WaitCall
    BY <1>5, <1>8 DEF PickNotify
  <2>2. PICK n \in Notify :
          call' = [call EXCEPT ![t] = [pc |-> "arm", pid |-> call[t].pid, on |-> n]]
    BY Zenon, <1>8, Wait4Assumption DEF PickNotify, TypeOK
  <2>3. [pc |-> "arm", pid |-> call[t].pid, on |-> n] \in Calls
    BY <2>1 DEF WaitCall, ParkCall
  <2> QED
    BY Zenon, <1>4, <1>8, <2>2, <2>3 DEF PickNotify
<1>9. CASE Park(t)
  <2>1. call[t] \in ParkCall
    BY <1>9 DEF Park, TypeOK, Idle, WaitCall, ExitCall
  <2>2. [call[t] EXCEPT !.pc = "parked"] \in Calls
    BY <2>1 DEF ParkCall
  <2>3. call' = [call EXCEPT ![t] = [call[t] EXCEPT !.pc = "parked"]]
    BY <1>9 DEF Park, TypeOK
  <2> QED
    BY Zenon, <1>4, <1>9, <2>2, <2>3 DEF Park
<1>10. ASSUME NEW pid \in Target, NEW nohang \in BOOLEAN, CallWait4(t, pid, nohang)
       PROVE  ReapInv'
  <2>1. [pc |-> "probe", pid |-> pid, nohang |-> nohang] \in Calls
    BY DEF WaitCall
  <2> QED
    BY Zenon, <1>4, <1>10, <2>1 DEF CallWait4
<1> QED
  BY <1>1, <1>2, <1>3, <1>6, <1>7, <1>8, <1>9, <1>10 DEF WaitStep

\* Every step of a child or of a thread preserves the invariant.
LEMMA ReapStepInv == ReapInv /\ [Next]_vars => ReapInv'
<1> SUFFICES ASSUME ReapInv, [Next]_vars PROVE ReapInv'
  OBVIOUS
<1>1. CASE UNCHANGED vars
  BY <1>1 DEF vars, ReapInv, TypeOK, ReapsMatchEntries
<1>2. CASE Next
  BY <1>2, ChildInv, ThreadInv DEF Next
<1> QED
  BY <1>1, <1>2

\* However many threads call wait4, exit and fork at once, and however child
\* threads interleave with them, no registration of a child is handed to two
\* wait4 calls (try_reap removes what it returns).
THEOREM ReapSafe == Spec => [](TypeOK /\ ReapsMatchEntries)
<1>1. ReapInv => TypeOK /\ ReapsMatchEntries
  BY DEF ReapInv
<1> QED
  BY <1>1, ReapInitInv, ReapStepInv, PTL DEF Spec

(***************************************************************************)
(* The linear memory.                                                      *)
(***************************************************************************)
\* Arenas lie apart, below the high-water mark and inside memory; what is free
\* lies below the bump pointer.
Layout(ars, hw, size) ==
    /\ \A i \in DOMAIN ars : /\ ars[i].base + ARENA_SIZE <= hw
                             /\ ars[i].base + ARENA_SIZE <= size
                             /\ \A x \in ars[i].free : x < ars[i].used
    /\ \A i, j \in DOMAIN ars : i < j => ars[i].base + ARENA_SIZE <= ars[j].base

\* Every byte of S lies below the bump pointer of some arena.
Placed(ars, S) ==
    \A b \in S : \E i \in DOMAIN ars :
        ars[i].base <= b /\ b < ars[i].base + ars[i].used

\* No byte of S is free in any arena.
Apart(ars, S) ==
    \A b \in S : \A i \in DOMAIN ars : \A x \in ars[i].free : b /= ars[i].base + x

MemInv ==
    /\ AllocTypeOK
    /\ Layout(arenas, high_water, mem)
    /\ held \subseteq touched
    /\ Placed(arenas, touched)
    /\ Apart(arenas, held)
----------------------------------------------------------------------------
\* AlignUp rounds up.
LEMMA AlignUpFacts == \A x \in Nat : AlignUp(x) \in Nat /\ AlignUp(x) >= x
<1> SUFFICES ASSUME NEW x \in Nat PROVE AlignUp(x) \in Nat /\ AlignUp(x) >= x
  OBVIOUS
<1>1. x % Align \in 0 .. Align - 1
  BY ArenaAssumption
<1>2. Align - (x % Align) \in Nat
  BY <1>1, ArenaAssumption
<1>3. (Align - (x % Align)) % Align \in Nat
  BY <1>2, ArenaAssumption
<1> QED
  BY <1>3 DEF AlignUp

\* alloc takes bytes that were free or above the bump pointer.
LEMMA AllocFacts ==
    ASSUME NEW ar \in Arenas, \A x \in ar.free : x < ar.used,
           NEW len \in 1 .. ARENA_SIZE, NEW r \in Alloc(ar, len)
    PROVE  /\ r.off \in Nat
           /\ r.arena \in Arenas
           /\ r.arena.base = ar.base
           /\ r.arena.used >= ar.used
           /\ r.arena.free \subseteq ar.free
           /\ r.off + len <= r.arena.used
           /\ \A x \in Bytes(r.off, len) :
                 /\ x \notin r.arena.free
                 /\ x \in ar.free \/ x >= ar.used
<1>1. CASE Fitting(ar.free, len) /= {}
  <2>1. PICK h \in Fitting(ar.free, len) : r = Carve(ar, len, AlignUp(h.off))
    BY <1>1 DEF Alloc, BestFit
  <2>2. /\ h.off \in Nat /\ h.len \in Nat
        /\ \A x \in h.off .. h.off + h.len - 1 : x \in ar.free
        /\ Slack(h) + len <= h.len
    BY <2>1, ArenaAssumption DEF Fitting, Holes, Offset, Bytes
  <2> DEFINE off == AlignUp(h.off)
  <2>3. off \in Nat /\ off >= h.off /\ off + len <= h.off + h.len
    BY <2>2, AlignUpFacts, ArenaAssumption DEF Slack
  <2>4. r.off = off /\ r.arena = [ar EXCEPT !.free = ar.free \ Bytes(off, len)]
    BY <2>1 DEF Carve
  <2> HIDE DEF off
  <2>5. \A x \in Bytes(off, len) : x \in ar.free
    BY <2>2, <2>3 DEF Bytes
  <2>6. off + len <= ar.used
    <3>1. off + len - 1 \in Bytes(off, len)
      BY <2>3 DEF Bytes
    <3> QED
      BY <2>3, <2>5, <3>1, ArenaAssumption DEF Arenas
  <2>7. /\ r.arena \in Arenas
        /\ r.arena.base = ar.base /\ r.arena.used = ar.used
        /\ r.arena.free = ar.free \ Bytes(off, len)
    BY <2>4 DEF Arenas
  <2> QED
    BY <2>3, <2>4, <2>5, <2>6, <2>7 DEF Arenas
<1>2. CASE Fitting(ar.free, len) = {}
  <2> DEFINE off == AlignUp(ar.used)
  <2>1. off \in Nat /\ off >= ar.used /\ ar.used \in Nat
    BY AlignUpFacts, ArenaAssumption DEF Arenas
  <2>2. /\ r.off = off
        /\ r.arena = [ar EXCEPT !.used = off + len]
        /\ off + len <= ARENA_SIZE
    BY <1>2 DEF Alloc, BumpAlloc
  <2> HIDE DEF off
  <2>3. /\ r.arena \in Arenas
        /\ r.arena.base = ar.base /\ r.arena.used = off + len
        /\ r.arena.free = ar.free
    BY <2>1, <2>2, ArenaAssumption DEF Arenas
  <2>4. \A x \in Bytes(off, len) : x \in Nat /\ x >= ar.used
    BY <2>1 DEF Bytes
  <2>5. \A x \in Bytes(off, len) : x \notin ar.free
    BY <2>1, <2>4, ArenaAssumption DEF Arenas, Offset
  <2> QED
    BY <2>1, <2>2, <2>3, <2>4, <2>5
<1> QED
  BY <1>1, <1>2

\* The fields of an arena in the vector.
LEMMA ArenaTypes ==
    ASSUME NEW ars \in Seq(Arenas), NEW j \in DOMAIN ars
    PROVE  /\ j \in Nat /\ ars[j] \in Arenas
           /\ ars[j].base \in Nat /\ ars[j].used \in Nat /\ ars[j].used <= ARENA_SIZE
           /\ ARENA_SIZE \in Nat
           /\ \A x \in ars[j].free : x \in Nat /\ x < ARENA_SIZE
<1>1. j \in 1 .. Len(ars) /\ ars[j] \in Arenas
  OBVIOUS
<1>2. ars[j].used \in 0 .. ARENA_SIZE /\ ars[j].base \in Nat /\ ars[j].free \subseteq Offset
  BY <1>1 DEF Arenas
<1> QED
  BY <1>1, <1>2, ArenaAssumption DEF Offset

\* Two arenas have no byte in common.
LEMMA OneHome ==
    ASSUME NEW ars \in Seq(Arenas), NEW hw \in Nat, NEW size \in Nat, Layout(ars, hw, size),
           NEW i \in DOMAIN ars, NEW j \in DOMAIN ars, NEW b \in Nat,
           ars[i].base <= b, b < ars[i].base + ARENA_SIZE,
           ars[j].base <= b, b < ars[j].base + ARENA_SIZE
    PROVE  i = j
<1>1. /\ i \in Nat /\ j \in Nat
      /\ ars[i].base \in Nat /\ ars[j].base \in Nat /\ ARENA_SIZE \in Nat
  BY ArenaTypes
<1>2. CASE i < j
  BY <1>1, <1>2 DEF Layout
<1>3. CASE j < i
  BY <1>1, <1>3 DEF Layout
<1> QED
  BY <1>1, <1>2, <1>3

\* An arena may move its bump pointer up and lose free bytes.
LEMMA ReplaceFacts ==
    ASSUME NEW ars \in Seq(Arenas), NEW hw \in Nat, NEW size \in Nat, Layout(ars, hw, size),
           NEW T \in SUBSET Nat, Placed(ars, T), NEW H \in SUBSET Nat, Apart(ars, H),
           NEW i \in DOMAIN ars, NEW new \in Arenas, new.base = ars[i].base,
           new.used >= ars[i].used, new.free \subseteq ars[i].free,
           NEW after, after = [ars EXCEPT ![i] = new]
    PROVE  /\ after \in Seq(Arenas) /\ DOMAIN after = DOMAIN ars
           /\ after[i] = new
           /\ Layout(after, hw, size) /\ Placed(after, T) /\ Apart(after, H)
<1>1. after \in Seq(Arenas) /\ DOMAIN after = DOMAIN ars
  OBVIOUS
<1>2. after[i] = new /\ \A j \in DOMAIN ars : j /= i => after[j] = ars[j]
  OBVIOUS
<1>3. \A j \in DOMAIN ars : /\ ars[j] \in Arenas
                            /\ after[j].base = ars[j].base /\ after[j].base \in Nat
                            /\ after[j].used >= ars[j].used
                            /\ after[j].used \in Nat /\ ars[j].used \in Nat
                            /\ after[j].free \subseteq ars[j].free
                            /\ \A x \in ars[j].free : x \in Nat
  <2> TAKE j \in DOMAIN ars
  <2>1. ars[j] \in Arenas
    BY ArenaTypes
  <2>2. /\ ars[j].base \in Nat /\ ars[j].used \in Nat
        /\ \A x \in ars[j].free : x \in Nat
    BY ArenaTypes
  <2>3. new.used \in Nat
    BY ArenaAssumption DEF Arenas
  <2> QED
    BY <1>2, <2>1, <2>2, <2>3
<1>4. Layout(after, hw, size)
  BY SMTT(30), <1>1, <1>3 DEF Layout
<1>5. Placed(after, T)
  BY <1>1, <1>3 DEF Placed
<1>6. Apart(after, H)
  BY <1>1, <1>3 DEF Apart
<1> QED
  BY <1>1, <1>2, <1>4, <1>5, <1>6

\* Addresses and offsets.
LEMMA AddressFacts ==
    \A base, used, off, len, b \in Nat :
        off + len <= used /\ base + off <= b /\ b < base + off + len
          => base <= b /\ b < base + used /\ b - base \in off .. off + len - 1
  OBVIOUS

\* A range inside an arena has an offset in it.
LEMMA OffsetFacts ==
    \A base, addr, len, size \in Nat :
        addr >= base /\ addr + len <= base + size
          => \E off \in Nat : off = addr - base /\ addr = base + off /\ off + len <= size
<1> SUFFICES ASSUME NEW base \in Nat, NEW addr \in Nat, NEW len \in Nat, NEW size \in Nat,
                    addr >= base, addr + len <= base + size
             PROVE  \E off \in Nat : off = addr - base /\ addr = base + off /\ off + len <= size
  OBVIOUS
<1>1. addr - base \in Nat /\ addr = base + (addr - base) /\ (addr - base) + len <= size
  OBVIOUS
<1> QED
  BY <1>1

\* Below the bump pointer is below the arena's end.
LEMMA BelowFacts ==
    \A base, top, size, b \in Nat : b < base + top /\ top <= size => b < base + size
  OBVIOUS

\* A range inside one arena's used part, clear of its free bytes, is placed
\* and is free nowhere.
LEMMA RangeFacts ==
    ASSUME NEW ars \in Seq(Arenas), NEW hw \in Nat, NEW size \in Nat, Layout(ars, hw, size),
           NEW i \in DOMAIN ars, NEW off \in Nat, NEW len \in Nat,
           off + len <= ars[i].used,
           \A x \in Bytes(off, len) : x \notin ars[i].free
    PROVE  /\ Bytes(ars[i].base + off, len) \subseteq Nat
           /\ Placed(ars, Bytes(ars[i].base + off, len))
           /\ Apart(ars, Bytes(ars[i].base + off, len))
<1>1. PICK base \in Nat, used \in Nat :
        base = ars[i].base /\ used = ars[i].used /\ used <= ARENA_SIZE /\ off + len <= used
  BY ArenaTypes
<1>2. ARENA_SIZE \in Nat
  BY ArenaAssumption
<1> DEFINE S == Bytes(base + off, len)
<1>3. ASSUME NEW b \in S
      PROVE  b \in Nat /\ base <= b /\ b < base + used /\ b - base \in Bytes(off, len)
  <2>1. b \in base + off .. base + off + len - 1
    BY DEF Bytes
  <2>2. b \in Nat /\ base + off <= b /\ b < base + off + len
    BY <2>1
  <2>3. base <= b /\ b < base + used /\ b - base \in off .. off + len - 1
    BY Zenon, <1>1, <2>2, AddressFacts
  <2> QED
    BY <2>2, <2>3 DEF Bytes
<1> HIDE DEF S
<1>4. Placed(ars, S)
  BY <1>1, <1>3 DEF Placed
<1>5. ASSUME NEW b \in S, NEW j \in DOMAIN ars, NEW x \in ars[j].free, b = ars[j].base + x
      PROVE  FALSE
  <2>1. PICK other \in Nat : other = ars[j].base /\ x \in Nat /\ x < ARENA_SIZE
    BY ArenaTypes
  <2>2. b \in Nat /\ base <= b /\ b < base + used /\ b = other + x
    BY Zenon, <1>3, <1>5, <2>1
  <2>3. other <= b /\ b < other + ARENA_SIZE
    BY ONLY <1>2, <2>1, <2>2
  <2>6. b < base + ARENA_SIZE
    <3>1. used <= ARENA_SIZE
      BY <1>1
    <3> QED
      BY <1>2, <2>2, <3>1
  <2>4. i = j
    BY <1>1, <2>1, <2>2, <2>3, <2>6, OneHome
  <2>5. x = b - base
    BY <1>1, <2>1, <2>2, <2>4
  <2> QED
    BY <1>3, <2>4, <2>5
<1> QED
  BY SMTT(30), <1>1, <1>3, <1>4, <1>5 DEF Apart, S

\* What a decision leaves behind: T stays placed and H apart, and the bytes
\* it hands out are placed, apart, and not in H.
Sound(ars, hw, size, S, T, H) ==
    /\ ars \in Seq(Arenas)
    /\ Layout(ars, hw, size)
    /\ Placed(ars, T) /\ Apart(ars, H)
    /\ S \subseteq Nat /\ S \cap H = {}
    /\ Placed(ars, S) /\ Apart(ars, S)

\* Allocating in one arena of the vector.
LEMMA TakeFacts ==
    ASSUME NEW ars \in Seq(Arenas), NEW hw \in Nat, NEW size \in Nat, Layout(ars, hw, size),
           NEW T \in SUBSET Nat, Placed(ars, T), NEW H \in SUBSET T, Apart(ars, H),
           NEW len \in 1 .. ARENA_SIZE, NEW i \in DOMAIN ars,
           NEW r \in Alloc(ars[i], len),
           NEW after, after = [ars EXCEPT ![i] = r.arena]
    PROVE  Sound(after, hw, size, Bytes(ars[i].base + r.off, len), T, H)
<1>1. ars[i] \in Arenas /\ \A x \in ars[i].free : x < ars[i].used
  BY ArenaTypes DEF Layout
<1>2. /\ r.off \in Nat /\ r.arena \in Arenas
      /\ r.arena.base = ars[i].base /\ r.arena.used >= ars[i].used
      /\ r.arena.free \subseteq ars[i].free /\ r.off + len <= r.arena.used
      /\ \A x \in Bytes(r.off, len) :
            x \notin r.arena.free /\ (x \in ars[i].free \/ x >= ars[i].used)
  BY <1>1, AllocFacts
<1>3. /\ after \in Seq(Arenas) /\ DOMAIN after = DOMAIN ars /\ after[i] = r.arena
      /\ Layout(after, hw, size) /\ Placed(after, T) /\ Apart(after, H)
  <2>1. H \in SUBSET Nat
    OBVIOUS
  <2>2. PICK new \in Arenas : new = r.arena
    BY <1>2
  <2>3. /\ new.base = ars[i].base /\ new.used >= ars[i].used
        /\ new.free \subseteq ars[i].free /\ after = [ars EXCEPT ![i] = new]
    BY <1>2, <2>2
  <2>4. /\ after \in Seq(Arenas) /\ DOMAIN after = DOMAIN ars /\ after[i] = new
        /\ Layout(after, hw, size) /\ Placed(after, T) /\ Apart(after, H)
    BY ONLY Zenon, ArenaAssumption, ars \in Seq(Arenas), hw \in Nat, size \in Nat,
            Layout(ars, hw, size),
            T \in SUBSET Nat, Placed(ars, T), Apart(ars, H), i \in DOMAIN ars,
            <2>1, <2>3, ReplaceFacts
  <2> QED
    BY <2>2, <2>4
<1> DEFINE S == Bytes(ars[i].base + r.off, len)
<1>4. S \subseteq Nat /\ Placed(after, S) /\ Apart(after, S)
  <2>1. len \in Nat /\ i \in DOMAIN after /\ after[i].base = ars[i].base
    BY <1>2, <1>3, ArenaAssumption
  <2>2. r.off + len <= after[i].used /\ \A x \in Bytes(r.off, len) : x \notin after[i].free
    BY <1>2, <1>3
  <2> QED
    BY Zenon, <1>2, <1>3, <2>1, <2>2, RangeFacts
<1> HIDE DEF S
<1>5. ASSUME NEW b \in S, b \in H
      PROVE  FALSE
  <2>1. PICK base \in Nat, off \in Nat, used \in Nat :
          base = ars[i].base /\ off = r.off /\ used = ars[i].used
    BY <1>2, ArenaTypes
  <2>2. b \in base + off .. base + off + len - 1 /\ b \in Nat
    BY <1>4, <2>1 DEF Bytes, S
  <2>3. b - base \in off .. off + len - 1 /\ base <= b
    BY <2>2
  <2>4. b - base \notin ars[i].free
    <3>1. b = base + (b - base)
      BY <2>2
    <3> QED
      BY <1>5, <2>1, <3>1 DEF Apart
  <2>5. b - base >= used
    BY <1>2, <2>1, <2>3, <2>4 DEF Bytes
  <2>6. PICK j \in DOMAIN ars : ars[j].base <= b /\ b < ars[j].base + ars[j].used
    BY <1>5 DEF Placed
  <2>7. PICK other \in Nat, top \in Nat :
          other = ars[j].base /\ top = ars[j].used /\ top <= ARENA_SIZE /\ ARENA_SIZE \in Nat
    BY ArenaTypes
  <2>8. b < other + ARENA_SIZE /\ other <= b
    <3>1. b < other + top /\ other <= b
      BY <2>6, <2>7
    <3> QED
      BY Zenon, <2>2, <2>7, <3>1, BelowFacts
  <2>9. b < base + ARENA_SIZE
    <3>1. off + len <= ARENA_SIZE
      <4>1. PICK end \in Nat : end = r.arena.used /\ end <= ARENA_SIZE
        <5>1. r.arena.used \in 0 .. ARENA_SIZE
          BY Zenon, <1>2 DEF Arenas
        <5> QED
          BY <2>7, <5>1
      <4> QED
        BY <1>2, <2>1, <2>7, <4>1
    <3> QED
      BY SMTT(30), <2>2, <2>7, <3>1
  <2>10. i = j
    BY <2>1, <2>2, <2>3, <2>7, <2>8, <2>9, OneHome
  <2>11. b < base + used
    BY <2>1, <2>6, <2>10
  <2> QED
    BY SMTT(30), <2>1, <2>2, <2>5, <2>11
<1> QED
  BY <1>3, <1>4, <1>5 DEF Sound, S

\* A fresh arena at the high-water mark.
LEMMA AppendFacts ==
    ASSUME NEW ars \in Seq(Arenas), NEW hw \in Nat, NEW size \in Nat, Layout(ars, hw, size),
           NEW T \in SUBSET Nat, Placed(ars, T), NEW H \in SUBSET Nat, Apart(ars, H),
           hw + ARENA_SIZE <= size,
           NEW mid, mid = Append(ars, NewArena(hw))
    PROVE  /\ mid \in Seq(Arenas) /\ Layout(mid, hw + ARENA_SIZE, size)
           /\ Placed(mid, T) /\ Apart(mid, H)
<1>1. NewArena(hw) \in Arenas
  BY ArenaAssumption DEF NewArena, Arenas
<1>2. /\ mid \in Seq(Arenas) /\ Len(ars) \in Nat
      /\ DOMAIN ars = 1 .. Len(ars) /\ DOMAIN mid = 1 .. Len(ars) + 1
      /\ \A j \in DOMAIN ars : mid[j] = ars[j]
      /\ mid[Len(ars) + 1] = NewArena(hw)
  BY <1>1
<1>3. NewArena(hw).base = hw /\ NewArena(hw).free = {}
  BY DEF NewArena
<1>4. ARENA_SIZE \in Nat /\ \A j \in DOMAIN ars : ars[j].base \in Nat
  BY ArenaTypes, ArenaAssumption
<1>5. \A j \in DOMAIN mid : j \in DOMAIN ars \/ j = Len(ars) + 1
  BY <1>2
<1>6. Layout(mid, hw + ARENA_SIZE, size)
  <2>1. ASSUME NEW j \in DOMAIN mid
        PROVE  /\ mid[j].base + ARENA_SIZE <= hw + ARENA_SIZE
               /\ mid[j].base + ARENA_SIZE <= size
               /\ \A x \in mid[j].free : x < mid[j].used
    BY <1>2, <1>3, <1>4, <1>5 DEF Layout
  <2>2. ASSUME NEW j \in DOMAIN mid, NEW k \in DOMAIN mid, j < k
        PROVE  mid[j].base + ARENA_SIZE <= mid[k].base
    <3>1. j \in DOMAIN ars
      BY <1>2, <2>2
    <3>2. CASE k \in DOMAIN ars
      BY <1>2, <2>2, <3>1, <3>2 DEF Layout
    <3>3. CASE k = Len(ars) + 1
      BY <1>2, <1>3, <3>1, <3>3 DEF Layout
    <3> QED
      BY <1>5, <3>2, <3>3
  <2> QED
    BY <2>1, <2>2 DEF Layout
<1>7. Placed(mid, T)
  <2>1. ASSUME NEW b \in T
        PROVE  \E j \in DOMAIN mid : mid[j].base <= b /\ b < mid[j].base + mid[j].used
    <3>1. PICK j \in DOMAIN ars : ars[j].base <= b /\ b < ars[j].base + ars[j].used
      BY Zenon DEF Placed
    <3>2. j \in DOMAIN mid /\ mid[j] = ars[j]
      BY <1>2
    <3> QED
      BY <3>1, <3>2
  <2> QED
    BY Zenon, <2>1 DEF Placed
<1>8. Apart(mid, H)
  BY <1>2, <1>3, <1>5 DEF Apart
<1> QED
  BY <1>2, <1>6, <1>7, <1>8

\* Every decision of LinearAllocator::mmap is sound.
LEMMA DecideFacts ==
    ASSUME NEW ars \in Seq(Arenas), NEW hw \in 0 .. U32 - 1, NEW size \in 0 .. MaxMem,
           Layout(ars, hw, size),
           NEW T \in SUBSET Nat, Placed(ars, T), NEW H \in SUBSET T, Apart(ars, H),
           NEW len \in 1 .. ARENA_SIZE, NEW d \in Decide(ars, hw, size, len)
    PROVE  /\ d.hw \in 0 .. U32 - 1 /\ d.need \in Nat
           /\ Sound(d.arenas, d.hw, size, Got(d, len), T, H)
<1>1. /\ hw \in Nat /\ size \in Nat /\ hw < U32 /\ size < U32
      /\ U32 \in Nat /\ ARENA_SIZE \in Nat /\ H \in SUBSET Nat
  BY ArenaAssumption, AllocatorAssumption
<1>2. CASE d \in InExisting(ars, hw, len)
  <2>1. PICK i \in FirstAble(ars, len) : \E r \in Alloc(ars[i], len) :
          d = [arenas |-> [ars EXCEPT ![i] = r.arena], hw |-> hw,
               at |-> {ars[i].base + r.off}, need |-> 0]
    BY <1>2 DEF InExisting
  <2>2. PICK r \in Alloc(ars[i], len) :
          d = [arenas |-> [ars EXCEPT ![i] = r.arena], hw |-> hw,
               at |-> {ars[i].base + r.off}, need |-> 0]
    BY Zenon, <2>1
  <2>6. i \in DOMAIN ars
    BY DEF FirstAble, Able
  <2>3. PICK after : after = [ars EXCEPT ![i] = r.arena]
    BY Zenon
  <2>4. Sound(after, hw, size, Bytes(ars[i].base + r.off, len), T, H)
    BY Zenon, <1>1, <2>6, <2>3, TakeFacts
  <2>5. Got(d, len) = Bytes(ars[i].base + r.off, len)
    BY <2>2 DEF Got
  <2> QED
    BY <1>1, <2>2, <2>3, <2>4, <2>5
<1>3. CASE d \in NeedGrow(ars, hw, size) /\ hw + ARENA_SIZE > size
  <2>1. d = [arenas |-> ars, hw |-> hw, at |-> {}, need |-> hw + ARENA_SIZE - size]
    BY Zenon, <1>3 DEF NeedGrow
  <2>2. hw + ARENA_SIZE - size \in Nat
    BY <1>1, <1>3
  <2>3. Got(d, len) = {}
    BY <2>1 DEF Got
  <2> QED
    BY ZenonT(30), <1>1, <2>1, <2>2, <2>3 DEF Sound, Placed, Apart
<1>4. CASE d \in InNew(ars, hw, len) /\ hw + ARENA_SIZE <= size
  <2>1. PICK r \in Alloc(NewArena(hw), len) :
          d = [arenas |-> Append(ars, r.arena), hw |-> (hw + ARENA_SIZE) % U32,
               at |-> {hw + r.off}, need |-> 0]
    BY Zenon, <1>4 DEF InNew
  <2>2. (hw + ARENA_SIZE) % U32 = hw + ARENA_SIZE /\ hw + ARENA_SIZE \in 0 .. U32 - 1
    BY <1>1, <1>4
  <2>3. PICK mid : mid = Append(ars, NewArena(hw))
    BY Zenon
  <2>4. /\ mid \in Seq(Arenas) /\ Layout(mid, hw + ARENA_SIZE, size)
        /\ Placed(mid, T) /\ Apart(mid, H)
    BY Zenon, <1>1, <1>4, <2>3, AppendFacts
  <2>5. NewArena(hw) \in Arenas /\ NewArena(hw).base = hw /\ NewArena(hw).free = {}
    BY <1>1, ArenaAssumption DEF NewArena, Arenas
  <2>6. PICK n \in Nat : n = Len(ars) + 1 /\ n \in DOMAIN mid /\ mid[n] = NewArena(hw)
    BY <2>3, <2>5
  <2>7. r.arena \in Arenas
    BY Zenon, <2>1, <2>5, AllocFacts
  <2>8. PICK after : after = [mid EXCEPT ![n] = r.arena]
    BY Zenon
  <2>9. Append(ars, r.arena) = after
    <3>1. /\ after \in Seq(Arenas) /\ Len(after) = Len(mid)
          /\ \A k \in 1 .. Len(mid) : after[k] = IF k = n THEN r.arena ELSE mid[k]
      BY <2>4, <2>6, <2>7, <2>8
    <3>2. /\ Len(mid) = Len(ars) + 1 /\ Len(ars) \in Nat
          /\ \A k \in 1 .. Len(ars) : mid[k] = ars[k]
      BY <2>3, <2>5
    <3>3. /\ Append(ars, r.arena) \in Seq(Arenas)
          /\ Len(Append(ars, r.arena)) = Len(ars) + 1
          /\ \A k \in 1 .. Len(ars) : Append(ars, r.arena)[k] = ars[k]
          /\ Append(ars, r.arena)[Len(ars) + 1] = r.arena
      BY <2>7
    <3>4. \A k \in 1 .. Len(after) : Append(ars, r.arena)[k] = after[k]
      BY <2>6, <3>1, <3>2, <3>3
    <3> QED
      BY <3>1, <3>2, <3>3, <3>4
  <2>10. Sound(after, hw + ARENA_SIZE, size, Bytes(hw + r.off, len), T, H)
    <3>1. PICK top \in Nat : top = hw + ARENA_SIZE
      BY <1>1
    <3>2. mid[n].base = hw /\ r \in Alloc(mid[n], len) /\ n \in DOMAIN mid
      BY Zenon, <2>1, <2>5, <2>6
    <3>3. Sound(after, top, size, Bytes(mid[n].base + r.off, len), T, H)
      BY Zenon, <1>1, <2>4, <2>8, <3>1, <3>2, TakeFacts
    <3> QED
      BY Zenon, <3>1, <3>2, <3>3
  <2>11. Got(d, len) = Bytes(hw + r.off, len)
    BY <2>1 DEF Got
  <2> QED
    BY <2>1, <2>2, <2>9, <2>10, <2>11
<1> QED
  BY <1>1, <1>2, <1>3, <1>4 DEF Decide
----------------------------------------------------------------------------
\* Growing memory disturbs no arena.
LEMMA LayoutGrows ==
    ASSUME NEW ars \in Seq(Arenas), NEW hw \in Nat, NEW size \in Nat, NEW bigger \in Nat,
           size <= bigger, Layout(ars, hw, size)
    PROVE  Layout(ars, hw, bigger)
<1>1. ASSUME NEW i \in DOMAIN ars PROVE ars[i].base + ARENA_SIZE <= bigger
  <2>1. PICK top \in Nat : top = ars[i].base + ARENA_SIZE
    BY ArenaTypes
  <2> QED
    BY <2>1 DEF Layout
<1> QED
  BY <1>1 DEF Layout

\* Memory grows by whole pages.
LEMMA RoundedFacts == \A need \in Nat : Rounded(need) \in Nat
<1> SUFFICES ASSUME NEW need \in Nat PROVE Rounded(need) \in Nat
  OBVIOUS
<1>1. PICK pages : pages = (need + PAGE_SIZE - 1) \div PAGE_SIZE
  OBVIOUS
<1>2. pages \in Nat
  BY <1>1, AllocatorAssumption
<1>3. PICK p \in Nat : p = PAGE_SIZE
  BY AllocatorAssumption
<1>4. pages * p \in Nat
  BY <1>2
<1> QED
  BY <1>1, <1>3, <1>4 DEF Rounded

\* The lengths the guest asks for.
LEMMA LengthFacts ==
    ASSUME NEW len \in Length
    PROVE  len \in 1 .. ARENA_SIZE /\ len \in Nat /\ len > 0
  BY ArenaAssumption, AllocatorAssumption

\* LinearAllocator::new: no arena yet.
LEMMA MemInitInv == AllocInit => MemInv
  BY ArenaAssumption, AllocatorAssumption
     DEF AllocInit, MemInv, AllocTypeOK, Layout, Placed, Apart

\* mmap: both of its decisions are sound.
LEMMA MmapInv ==
    ASSUME MemInv, NEW len \in Length, Mmap(len)
    PROVE  MemInv' /\ given' \cap held = {}
<1>1. /\ arenas \in Seq(Arenas) /\ high_water \in 0 .. U32 - 1 /\ mem \in 0 .. MaxMem
      /\ Layout(arenas, high_water, mem)
      /\ touched \in SUBSET Nat /\ Placed(arenas, touched)
      /\ held \in SUBSET touched /\ Apart(arenas, held)
  BY DEF MemInv, AllocTypeOK
<1>2. len \in 1 .. ARENA_SIZE
  BY LengthFacts
<1>3. PICK d \in Decide(arenas, high_water, mem, len) :
        /\ mem + Rounded(d.need) <= MaxMem
        /\ mem' = mem + Rounded(d.need)
        /\ \E e \in Decide(d.arenas, d.hw, mem', len) :
             arenas' = e.arenas /\ high_water' = e.hw /\ Give(Got(e, len))
  BY Zenon DEF Mmap
<1>4. /\ d.hw \in 0 .. U32 - 1 /\ d.need \in Nat
      /\ Sound(d.arenas, d.hw, mem, Got(d, len), touched, held)
  BY <1>1, <1>2, DecideFacts
<1>5. mem \in Nat /\ mem' \in Nat /\ mem' \in 0 .. MaxMem /\ mem <= mem'
  <2>1. PICK m \in Nat, g \in Nat : m = mem /\ g = Rounded(d.need)
    <3>1. mem \in Nat
      BY <1>1, AllocatorAssumption
    <3>2. Rounded(d.need) \in Nat
      BY <1>4, RoundedFacts
    <3> QED
      BY <3>1, <3>2
  <2> QED
    BY <1>3, <2>1, AllocatorAssumption
<1>6. /\ d.arenas \in Seq(Arenas) /\ Layout(d.arenas, d.hw, mem')
      /\ Placed(d.arenas, touched) /\ Apart(d.arenas, held)
  <2>1. d.hw \in Nat
    BY <1>4, AllocatorAssumption
  <2> QED
    BY <1>4, <1>5, <2>1, LayoutGrows DEF Sound
<1>7. PICK e \in Decide(d.arenas, d.hw, mem', len) :
        arenas' = e.arenas /\ high_water' = e.hw /\ Give(Got(e, len))
  BY Zenon, <1>3
<1>8. /\ e.hw \in 0 .. U32 - 1
      /\ Sound(e.arenas, e.hw, mem', Got(e, len), touched, held)
  <2>1. PICK ars, hw, size : ars = d.arenas /\ hw = d.hw /\ size = mem'
    BY SMTT(30)
  <2>2. /\ ars \in Seq(Arenas) /\ hw \in 0 .. U32 - 1 /\ size \in 0 .. MaxMem
        /\ Layout(ars, hw, size) /\ Placed(ars, touched) /\ Apart(ars, held)
        /\ e \in Decide(ars, hw, size, len)
    BY Zenon, <1>4, <1>5, <1>6, <2>1
  <2>3. e.hw \in 0 .. U32 - 1 /\ Sound(e.arenas, e.hw, size, Got(e, len), touched, held)
    BY Zenon, <1>1, <1>2, <2>2, DecideFacts
  <2> QED
    BY Zenon, <2>1, <2>3
<1>9. PICK S : S = Got(e, len)
  OBVIOUS
<1>10. /\ held' = held \cup S /\ touched' = touched \cup S /\ given' = S
  BY Zenon, <1>7, <1>9 DEF Give
<1>11. /\ arenas' \in Seq(Arenas) /\ high_water' \in 0 .. U32 - 1
       /\ Layout(arenas', high_water', mem')
       /\ Placed(arenas', touched) /\ Apart(arenas', held)
       /\ S \subseteq Nat /\ S \cap held = {}
       /\ Placed(arenas', S) /\ Apart(arenas', S)
  BY Zenon, <1>7, <1>8, <1>9 DEF Sound
<1>12. Placed(arenas', touched') /\ Apart(arenas', held')
  BY Zenon, <1>10, <1>11 DEF Placed, Apart
<1>13. AllocTypeOK' /\ held' \subseteq touched'
  BY <1>1, <1>5, <1>10, <1>11 DEF AllocTypeOK
<1> QED
  BY <1>10, <1>11, <1>12, <1>13 DEF MemInv

\* munmap: the bytes that come back were the guest's, so they lie below the
\* bump pointer, and the guest no longer holds them.
LEMMA MunmapInv ==
    ASSUME MemInv, NEW addr \in held, NEW len \in Length, Munmap(addr, len)
    PROVE  MemInv' /\ given' \cap held = {}
<1>1. /\ arenas \in Seq(Arenas) /\ high_water \in Nat /\ mem \in Nat /\ addr \in Nat
      /\ Layout(arenas, high_water, mem)
      /\ touched \in SUBSET Nat /\ Placed(arenas, touched)
      /\ held \in SUBSET touched /\ Apart(arenas, held)
  BY AllocatorAssumption DEF MemInv, AllocTypeOK
<1>2. len \in Nat /\ len > 0
  BY LengthFacts
<1>3. PICK i \in DOMAIN arenas :
        /\ InArena(arenas[i], addr, len)
        /\ arenas' = [arenas EXCEPT ![i] = Free(arenas[i], addr - arenas[i].base, len)]
  BY Zenon DEF Munmap, Holder
<1>4. /\ Bytes(addr, len) \subseteq held /\ held' = held \ Bytes(addr, len)
      /\ given' = {} /\ UNCHANGED <<high_water, mem, touched>>
  BY DEF Munmap
<1>5. PICK base \in Nat, used \in Nat :
        /\ base = arenas[i].base /\ used = arenas[i].used
        /\ arenas[i] \in Arenas /\ used <= ARENA_SIZE /\ ARENA_SIZE \in Nat
  BY <1>1, ArenaTypes
<1>6. addr >= base /\ addr + len <= base + ARENA_SIZE
  BY <1>3, <1>5 DEF InArena
<1>7. PICK off \in Nat : off = addr - base /\ addr = base + off /\ off + len <= ARENA_SIZE
  <2>1. ARENA_SIZE \in Nat
    BY <1>5
  <2> QED
    BY <1>1, <1>2, <1>6, <2>1, OffsetFacts
<1>8. ASSUME NEW x \in Bytes(off, len)
      PROVE  /\ x \in Nat /\ x < ARENA_SIZE /\ x < used
             /\ base + x \in Bytes(addr, len)
  <2>1. x \in Nat /\ off <= x /\ x < off + len
    BY <1>2 DEF Bytes
  <2>2. x < ARENA_SIZE /\ base + x \in Nat /\ base + x < base + ARENA_SIZE
    BY <1>2, <1>5, <1>7, <2>1
  <2>3. base + x \in Bytes(addr, len)
    BY <1>1, <1>2, <1>7, <2>1 DEF Bytes
  <2>4. PICK j \in DOMAIN arenas :
          arenas[j].base <= base + x /\ base + x < arenas[j].base + arenas[j].used
    BY Zenon, <1>1, <1>4, <2>3 DEF Placed
  <2>5. PICK other \in Nat, top \in Nat :
          other = arenas[j].base /\ top = arenas[j].used /\ top <= ARENA_SIZE
    BY Zenon, <1>1, ArenaTypes
  <2>6. base + x < other + ARENA_SIZE
    BY <1>5, <2>2, <2>4, <2>5, BelowFacts
  <2>7. base <= base + x
    BY <2>1
  <2>8. i = j
    BY <1>1, <1>5, <2>2, <2>4, <2>5, <2>6, <2>7, OneHome
  <2>9. base + x < base + used
    BY <1>5, <2>4, <2>8
  <2> QED
    BY <2>1, <2>2, <2>3, <2>9
<1>9. PICK new : new = [arenas[i] EXCEPT !.free = arenas[i].free \cup Bytes(off, len)]
  BY Zenon
<1>10. /\ new \in Arenas /\ new.base = base /\ new.used = used
       /\ new.free = arenas[i].free \cup Bytes(off, len)
  <2>1. Bytes(off, len) \subseteq Offset
    BY <1>5, <1>8 DEF Offset
  <2> QED
    BY <1>5, <1>9, <2>1 DEF Arenas
<1>11. /\ arenas' \in Seq(Arenas) /\ DOMAIN arenas' = DOMAIN arenas
       /\ arenas'[i] = new /\ \A j \in DOMAIN arenas : j /= i => arenas'[j] = arenas[j]
  <2>1. arenas' = [arenas EXCEPT ![i] = new]
    BY Zenon, <1>3, <1>5, <1>7, <1>9 DEF Free
  <2> QED
    BY <1>1, <1>10, <2>1
<1>12. \A j \in DOMAIN arenas : /\ arenas'[j].base = arenas[j].base
                                /\ arenas'[j].used = arenas[j].used
  BY <1>5, <1>10, <1>11
<1>13. Layout(arenas', high_water', mem')
  <2>1. \A x \in new.free : x < new.used
    BY Zenon, <1>1, <1>5, <1>8, <1>10 DEF Layout
  <2>2. \A j \in DOMAIN arenas : \A x \in arenas'[j].free : x < arenas'[j].used
    BY Zenon, <1>1, <1>11, <2>1 DEF Layout
  <2> QED
    BY Zenon, <1>1, <1>4, <1>11, <1>12, <2>2 DEF Layout
<1>14. Placed(arenas', touched')
  BY Zenon, <1>1, <1>4, <1>11, <1>12 DEF Placed
<1>15. Apart(arenas', held')
  <2>1. ASSUME NEW b \in held', NEW j \in DOMAIN arenas', NEW x \in arenas'[j].free
        PROVE  b /= arenas'[j].base + x
    <3>1. b \in held /\ b \notin Bytes(addr, len)
      BY <1>4
    <3>2. CASE j /= i
      BY <1>1, <1>11, <3>1, <3>2 DEF Apart
    <3>3. CASE j = i /\ x \in arenas[i].free
      BY <1>1, <1>5, <1>10, <1>11, <3>1, <3>3 DEF Apart
    <3>4. CASE j = i /\ x \in Bytes(off, len)
      BY Zenon, <1>8, <1>10, <1>11, <3>1, <3>4
    <3> QED
      BY <1>10, <1>11, <3>2, <3>3, <3>4
  <2> QED
    BY <2>1 DEF Apart
<1>16. AllocTypeOK' /\ held' \subseteq touched'
  BY Zenon, <1>4, <1>11 DEF MemInv, AllocTypeOK
<1> QED
  BY <1>4, <1>13, <1>14, <1>15, <1>16 DEF MemInv

\* mremap to a smaller size only takes bytes from the guest.
LEMMA ShrinkInv ==
    ASSUME MemInv, NEW addr, NEW len, NEW new_len, MremapShrink(addr, len, new_len)
    PROVE  MemInv' /\ given' \cap held = {}
<1>1. held' \subseteq held /\ given' = {} /\ UNCHANGED <<arenas, high_water, mem, touched>>
  BY DEF MremapShrink
<1>2. Apart(arenas', held')
  BY Zenon, <1>1 DEF MemInv, Apart
<1> QED
  BY Zenon, <1>1, <1>2 DEF MemInv, AllocTypeOK, Layout, Placed

\* mremap to a larger size takes bytes above the bump pointer, where nothing
\* has ever been placed.
LEMMA GrowInv ==
    ASSUME MemInv, NEW addr \in held, NEW len \in Length, NEW new_len \in Length,
           MremapGrow(addr, len, new_len)
    PROVE  MemInv' /\ given' \cap touched = {}
<1>1. /\ arenas \in Seq(Arenas) /\ high_water \in Nat /\ mem \in Nat /\ addr \in Nat
      /\ Layout(arenas, high_water, mem)
      /\ touched \in SUBSET Nat /\ Placed(arenas, touched)
      /\ held \in SUBSET touched /\ held \in SUBSET Nat /\ Apart(arenas, held)
  BY AllocatorAssumption DEF MemInv, AllocTypeOK
<1>2. PICK more \in Nat : more = new_len - len /\ more > 0
  <2>1. len \in Nat /\ new_len \in Nat /\ new_len > len
    BY LengthFacts DEF MremapGrow
  <2> QED
    BY <2>1
<1>3. PICK i \in DOMAIN arenas :
        /\ CanGrow(arenas[i], addr, len, new_len)
        /\ arenas' = [arenas EXCEPT ![i].used = @ + (new_len - len)]
  BY Zenon DEF MremapGrow
<1>4. PICK base \in Nat, used \in Nat :
        /\ base = arenas[i].base /\ used = arenas[i].used
        /\ arenas[i] \in Arenas /\ ARENA_SIZE \in Nat
  BY Zenon, <1>1, ArenaTypes
<1>5. addr + len = base + used /\ used + more <= ARENA_SIZE
  <2>1. addr >= base /\ addr - base + len = used /\ used + more <= ARENA_SIZE
    BY <1>2, <1>3, <1>4 DEF CanGrow
  <2>2. addr \in Nat /\ len \in Nat /\ base \in Nat /\ used \in Nat
    BY Zenon, <1>1, LengthFacts
  <2> QED
    BY ONLY <2>1, <2>2
<1>6. PICK new : new = [arenas[i] EXCEPT !.used = used + more]
  BY Zenon
<1>7. /\ new \in Arenas /\ new.base = base /\ new.used = used + more
      /\ new.free = arenas[i].free /\ arenas' = [arenas EXCEPT ![i] = new]
  <2>1. used + more \in 0 .. ARENA_SIZE
    BY <1>4, <1>5
  <2> QED
    BY <1>2, <1>3, <1>4, <1>6, <2>1 DEF Arenas
<1>8. PICK after : after = arenas'
  OBVIOUS
<1>9. /\ after \in Seq(Arenas) /\ DOMAIN after = DOMAIN arenas /\ after[i] = new
      /\ Layout(after, high_water, mem) /\ Placed(after, touched) /\ Apart(after, held)
  <2>1. /\ new.base = arenas[i].base /\ new.used >= arenas[i].used
        /\ new.free \subseteq arenas[i].free /\ after = [arenas EXCEPT ![i] = new]
    BY <1>4, <1>7, <1>8
  <2>2. new \in Arenas
    BY Zenon, <1>7
  <2> QED
    BY ONLY Zenon, <1>1, <2>1, <2>2, i \in DOMAIN arenas, ReplaceFacts
<1> DEFINE S == Bytes(base + used, more)
<1>10. S \subseteq Nat /\ Placed(after, S) /\ Apart(after, S)
  <2>1. \A x \in Bytes(used, more) : x \notin after[i].free
    <3>1. \A x \in arenas[i].free : x < used
      BY Zenon, <1>1, <1>4 DEF Layout
    <3>2. \A x \in Bytes(used, more) : x >= used /\ x \in Nat
      BY DEF Bytes
    <3> QED
      BY <1>7, <1>9, <3>1, <3>2
  <2>2. after[i].base = base /\ used + more <= after[i].used /\ i \in DOMAIN after
    BY <1>7, <1>9
  <2> QED
    BY Zenon, <1>1, <1>9, <2>1, <2>2, RangeFacts
<1>11. held' = held \cup S /\ touched' = touched \cup S /\ given' = S
       /\ UNCHANGED <<high_water, mem>>
  BY <1>2, <1>5 DEF MremapGrow, Give
<1>12. S \cap touched = {}
  <2>1. ASSUME NEW b \in S, b \in touched
        PROVE  FALSE
    <3>1. b \in Nat /\ base + used <= b /\ b < base + used + more
      BY DEF Bytes
    <3>2. PICK j \in DOMAIN arenas :
            arenas[j].base <= b /\ b < arenas[j].base + arenas[j].used
      BY <1>1, <2>1 DEF Placed
    <3>3. PICK other \in Nat, top \in Nat :
            other = arenas[j].base /\ top = arenas[j].used /\ top <= ARENA_SIZE
      BY <1>1, ArenaTypes
    <3>4. b < other + ARENA_SIZE
      BY <1>4, <3>1, <3>2, <3>3, BelowFacts
    <3>5. base <= b /\ b < base + ARENA_SIZE
      BY <1>4, <1>5, <3>1
    <3>6. i = j
      BY Zenon, <1>1, <1>4, <3>1, <3>2, <3>3, <3>4, <3>5, OneHome
    <3>7. b < base + used
      BY <1>4, <3>2, <3>6
    <3> QED
      BY <3>1, <3>7
  <2> QED
    BY <2>1
<1> HIDE DEF S
<1>13. Placed(arenas', touched') /\ Apart(arenas', held')
  BY Zenon, <1>8, <1>9, <1>10, <1>11 DEF Placed, Apart
<1>14. AllocTypeOK' /\ held' \subseteq touched'
  BY <1>8, <1>9, <1>10, <1>11 DEF MemInv, AllocTypeOK
<1> QED
  BY <1>8, <1>9, <1>11, <1>12, <1>13, <1>14 DEF MemInv

\* A step keeps the invariant and hands out no byte the guest holds; an
\* extension hands out none it ever held.
LEMMA MemStepInv ==
    MemInv /\ [AllocNext]_alloc_vars
      => /\ MemInv'
         /\ [given' \cap held = {}]_alloc_vars
         /\ [\A addr \in held : \A len, new_len \in Length :
               MremapGrow(addr, len, new_len) => given' \cap touched = {}]_alloc_vars
<1> SUFFICES ASSUME MemInv, [AllocNext]_alloc_vars
             PROVE  /\ MemInv'
                    /\ [given' \cap held = {}]_alloc_vars
                    /\ [\A addr \in held : \A len, new_len \in Length :
                          MremapGrow(addr, len, new_len) => given' \cap touched = {}]_alloc_vars
  OBVIOUS
<1>1. \A addr \in held : \A len, new_len \in Length :
        MremapGrow(addr, len, new_len) => given' \cap touched = {}
  BY GrowInv
<1>2. CASE alloc_vars' = alloc_vars
  BY Zenon, <1>1, <1>2 DEF alloc_vars, MemInv, AllocTypeOK, Layout, Placed, Apart
<1>3. CASE AllocNext
  <2>1. ASSUME NEW len \in Length, Mmap(len)
        PROVE  MemInv' /\ given' \cap held = {}
    BY SMTT(30), <2>1, MmapInv
  <2>2. ASSUME NEW len \in Length, GrowFails(len)
        PROVE  MemInv' /\ given' \cap held = {}
    <3>1. given' = {} /\ UNCHANGED <<arenas, high_water, mem, held, touched>>
      BY Zenon, <2>2 DEF GrowFails
    <3>2. AllocTypeOK'
      BY Zenon, <3>1 DEF MemInv, AllocTypeOK
    <3>3. MemInv'
      <4>1. /\ arenas' = arenas /\ high_water' = high_water /\ mem' = mem
            /\ held' = held /\ touched' = touched
        BY Zenon, <3>1
      <4> QED  BY Zenon, <3>2, <4>1 DEF MemInv
    <3> QED  BY Zenon, <3>1, <3>3
  <2>3. ASSUME NEW addr \in held, NEW len \in Length, Munmap(addr, len)
        PROVE  MemInv' /\ given' \cap held = {}
    BY <2>3, MunmapInv
  <2>4. ASSUME NEW addr \in held, NEW len \in Length, NEW new_len \in Length,
               MremapShrink(addr, len, new_len)
        PROVE  MemInv' /\ given' \cap held = {}
    BY <2>4, ShrinkInv
  <2>5. ASSUME NEW addr \in held, NEW len \in Length, NEW new_len \in Length,
               MremapGrow(addr, len, new_len)
        PROVE  MemInv' /\ given' \cap held = {}
    <3>1. MemInv' /\ given' \cap touched = {}
      BY <2>5, GrowInv
    <3> QED
      BY <3>1 DEF MemInv
  <2> QED
    BY <1>1, <1>3, <2>1, <2>2, <2>3, <2>4, <2>5 DEF AllocNext
<1> QED
  BY <1>2, <1>3

\* Every mapping lies inside an arena, and every arena inside memory.
LEMMA InvInMemory == MemInv => InMemory
<1> SUFFICES ASSUME MemInv, NEW b \in held PROVE b < mem
  BY DEF InMemory
<1>1. /\ arenas \in Seq(Arenas) /\ mem \in Nat /\ b \in Nat /\ b \in touched
      /\ Layout(arenas, high_water, mem) /\ Placed(arenas, touched)
  BY AllocatorAssumption DEF MemInv, AllocTypeOK
<1>2. PICK i \in DOMAIN arenas : b < arenas[i].base + arenas[i].used
  BY Zenon, <1>1 DEF Placed
<1>3. PICK base \in Nat, used \in Nat :
        /\ base = arenas[i].base /\ used = arenas[i].used
        /\ used <= ARENA_SIZE /\ ARENA_SIZE \in Nat
  BY Zenon, <1>1, ArenaTypes
<1>4. base + ARENA_SIZE <= mem
  BY Zenon, <1>1, <1>3 DEF Layout
<1>5. b < base + ARENA_SIZE
  BY <1>1, <1>2, <1>3, BelowFacts
<1> QED
  BY <1>1, <1>3, <1>4, <1>5

\* The allocator's state keeps its type (the bump pointers stay inside their
\* arenas and the high-water mark inside u32), and no mapping reaches past the
\* end of linear memory.
THEOREM MappingsInMemory == AllocSpec => [](AllocTypeOK /\ InMemory)
<1>1. MemInv => AllocTypeOK /\ InMemory
  BY InvInMemory DEF MemInv
<1> QED
  BY <1>1, MemInitInv, MemStepInv, PTL DEF AllocSpec

\* mmap and mremap never hand out a byte that the guest holds.
THEOREM MappingsApart == AllocSpec => NoOverlap
  BY MemInitInv, MemStepInv, PTL DEF AllocSpec, NoOverlap

\* What mremap adds to a mapping has never been in the guest's hands, so it
\* is still zero.
THEOREM ExtensionsFresh == AllocSpec => ExtensionFresh
  BY MemInitInv, MemStepInv, PTL DEF AllocSpec, ExtensionFresh
============================================================================
