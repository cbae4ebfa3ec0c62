----------------------------- MODULE Readiness -----------------------------
(***************************************************************************)
(* Pipes, event counters and the three ways to wait for them: poll, ppoll  *)
(* and select (src/sys/poll.rs), epoll (src/sys/epoll.rs), with the read   *)
(* and write of file.rs they have to agree with.                           *)
(*                                                                         *)
(* One Store owns the descriptor table, so nothing else runs while a call  *)
(* is parked: `call' is that call.  The Notify handles carry no state.     *)
(* Every notifier uses notify_waiters, which stores no permit, and the     *)
(* only task that could be waiting is the one that notifies; a parked call *)
(* therefore returns at its timer or not at all.                           *)
(***************************************************************************)
EXTENDS Naturals, Sequences, FiniteSetsExt, Maps

CONSTANTS
    Pipe,       \* pipes pipe2 may create
    MaxFd,      \* bound: descriptors are below MaxFd
    MaxBytes,   \* bound: bytes the guest writes to pipes in a behaviour
    MaxDups,    \* bound: descriptors that duplicate another one
    Programs,   \* bound: the sets of resources one guest uses
    Events,     \* bound: the event masks asked for, subsets of {IN, OUT}
    MaxCounter, \* u64::MAX
    MaxAdded,   \* bound: what is added to the event counter in a behaviour
    MaxEntries, \* bound: registrations of the epoll instance
    MaxAsked    \* bound: descriptors in one poll or select

ASSUME ReadinessAssumption ==
    /\ MaxFd \in Nat /\ MaxFd >= 3 /\ MaxBytes \in Nat /\ MaxDups \in Nat
    /\ Events \subseteq SUBSET {"IN", "OUT"}
    /\ MaxCounter \in Nat \ {0} /\ MaxAdded \in Nat
    /\ MaxEntries \in Nat /\ MaxAsked \in Nat

Stdio == "stdio"    \* with_buffered_stdio gives stdin and stdout one pipe
None == [op |-> "none"]

VARIABLES
    program,    \* the resources this guest uses, fixed
    fds,        \* descriptor -> Resource: its variant and the pipe behind it
    next_fd,    \* FdTable::next_fd
    pipe,       \* the pipes: buf and closed, shared by both ends
    counter,    \* EventFdInner::counter
    entries,    \* EpollInner::entries: descriptor -> requested events
    socket,     \* what poll and epoll look at in the SocketInner
    call,       \* the parked call, or None
    ret,        \* what a waiting call has just reported
    sent, got,  \* history: bytes written to each pipe, numbered, and read
    added, taken \* history: what eventfd writes added and reads took

vars == <<program, fds, next_fd, pipe, counter, entries, socket, call, ret,
          sent, got, added, taken>>
ghosts == <<sent, got, added, taken>>

Revents == SUBSET {"IN", "OUT", "ERR", "HUP", "NVAL"}
Resource(k, p) == [kind |-> k, pipe |-> p]

Is(fd, k) == fd \in DOMAIN fds /\ fds[fd].kind = k
IsReader(fd) == Is(fd, "Stdin") \/ Is(fd, "PipeRead")
IsWriter(fd) == Is(fd, "Stdout") \/ Is(fd, "PipeWrite")
Behind(fd) == pipe[fds[fd].pipe]

\* A new kernel: stdin and stdout over one pipe, which the driver may have
\* filled and shut (AsyncWrite for PipeWrite) before the guest starts.  A
\* guest that does not use them has closed them.
Init ==
    /\ program \in Programs
    /\ next_fd = 3
    /\ IF "Stdin" \in program
       THEN /\ fds = [fd \in 0 .. 1 |-> Resource(IF fd = 0 THEN "Stdin" ELSE "Stdout", Stdio)]
            /\ \E pre \in {<< >>, <<1>>}, shut \in BOOLEAN :
                   pipe = [p \in {Stdio} |-> [buf |-> pre, closed |-> shut]]
       ELSE fds = EmptyMap /\ pipe = EmptyMap
    /\ counter = 0
    /\ entries = EmptyMap
    /\ socket = "fresh"
    /\ call = None /\ ret = None
    /\ sent = [p \in DOMAIN pipe |-> Len(pipe[p].buf)]
    /\ got = [p \in DOMAIN pipe |-> << >>]
    /\ added = 0 /\ taken = 0
----------------------------------------------------------------------------
(* Readiness, as the waiting calls see it.                                 *)

\* ready_pipe_read: a read end asked for POLLOUT answers POLLERR.  AlwaysIn
\* does not look at the buffer.
AlwaysIn(ev, ready) == ev \cap {"IN"}
ReadyPipeRead(ev, ready) ==
    (IF ready THEN ev \cap {"IN"} ELSE {})
        \cup (IF "OUT" \in ev THEN {"ERR"} ELSE {})

\* ready_socket: a connected stream is ready for everything; a listener, or
\* a bound socket asked for POLLOUT, answers POLLNVAL.
ReadySocket(ev) ==
    LET listening == socket = "listening"
        bound == socket \in {"bound", "listening"}
    IN  IF socket = "stream" THEN ev
        ELSE IF \/ "IN" \in ev /\ listening
                \/ "OUT" \in ev /\ bound
             THEN {"NVAL"} ELSE {}

\* poll_one.  Stdin counts as readable while it is open, the read end of a
\* pipe when it has data or is shut.
PollOne(fd, ev) ==
    IF fd \notin DOMAIN fds THEN {"NVAL"}
    ELSE CASE fds[fd].kind = "Stdin" ->
                 ReadyPipeRead(ev, ~Behind(fd).closed \/ Behind(fd).buf # << >>)
           [] fds[fd].kind = "PipeRead" ->
                 ReadyPipeRead(ev, Behind(fd).closed \/ Behind(fd).buf # << >>)
           [] fds[fd].kind \in {"Stdout", "PipeWrite"} -> ev \cap {"OUT"}
           [] fds[fd].kind = "File" -> {"IN", "OUT"}
           [] fds[fd].kind = "Socket" -> ReadySocket(ev)
           [] fds[fd].kind \in {"Epoll", "EventFd"} -> {"NVAL"}

\* compute_revents, epoll's own version of the same question.
ComputeRevents(fd, ev) ==
    IF fd \notin DOMAIN fds THEN {"ERR", "HUP"}
    ELSE CASE IsReader(fd) ->
                 IF Behind(fd).closed \/ Behind(fd).buf # << >>
                 THEN ev \cap {"IN"} ELSE {}
           [] fds[fd].kind \in {"Stdout", "PipeWrite"} -> ev \cap {"OUT"}
           [] fds[fd].kind = "File" -> ev
           [] fds[fd].kind = "Socket" ->
                 IF socket = "stream" THEN ev
                 ELSE (IF socket = "listening" THEN ev \cap {"IN"} ELSE {})
                      \cup (IF "OUT" \in ev \/ ("IN" \in ev /\ socket # "listening")
                            THEN {"ERR"} ELSE {})
           [] fds[fd].kind = "EventFd" -> ev \cap {"IN"}
           [] fds[fd].kind = "Epoll" -> {"ERR"}

\* One report of a waiting call: the revents of every descriptor asked about.
PollAll(want) == [fd \in DOMAIN want |-> PollOne(fd, want[fd])]
EpollAll(want) == [fd \in DOMAIN want |-> ComputeRevents(fd, want[fd])]
Ready(r) == { fd \in DOMAIN r : r[fd] # {} }
----------------------------------------------------------------------------
(* Descriptors.                                                            *)

\* The guest is running: no call is parked, and it has the last one's answer.
Idle == call = None /\ ret = None
Spare(n) == next_fd + n <= MaxFd

\* pipe2: both ends through FdTable::insert.  O_NONBLOCK changes nothing:
\* a read of an empty pipe answers EAGAIN whether or not it is set.
Pipe2(p) ==
    /\ Idle /\ Spare(2) /\ "PipeRead" \in program /\ p \in Pipe \ DOMAIN pipe
    /\ pipe' = Put(pipe, p, [buf |-> << >>, closed |-> FALSE])
    /\ fds' = Put(Put(fds, next_fd, Resource("PipeRead", p)),
                  next_fd + 1, Resource("PipeWrite", p))
    /\ next_fd' = next_fd + 2
    /\ sent' = Put(sent, p, 0) /\ got' = Put(got, p, << >>)
    /\ UNCHANGED <<program, counter, entries, socket, call, ret, added, taken>>

Absent(k) == \A fd \in DOMAIN fds : fds[fd].kind # k
Bind(k) ==
    /\ Idle /\ Spare(1) /\ k \in program /\ Absent(k)
    /\ fds' = Put(fds, next_fd, Resource(k, "none"))
    /\ next_fd' = next_fd + 1

\* openat, and a socket in whatever state bind, listen and connect left it.
OpenFile ==
    /\ Bind("File")
    /\ UNCHANGED <<program, pipe, counter, entries, socket, call, ret, ghosts>>
OpenSocket ==
    /\ Bind("Socket")
    /\ socket' \in {"fresh", "bound", "listening", "stream"}
    /\ UNCHANGED <<program, pipe, counter, entries, call, ret, ghosts>>

\* eventfd2: EFD_SEMAPHORE and EFD_CLOEXEC are accepted and dropped, and
\* EFD_NONBLOCK only chooses between 0 and EAGAIN for an empty counter.
Eventfd2(init) ==
    /\ Bind("EventFd")
    /\ counter' = init
    /\ added' = init /\ taken' = 0
    /\ UNCHANGED <<program, pipe, entries, socket, call, ret, sent, got>>

EpollCreate1 ==
    /\ Bind("Epoll")
    /\ entries' = EmptyMap
    /\ UNCHANGED <<program, pipe, counter, socket, call, ret, ghosts>>

\* close: the write end of a pipe leaves `closed' alone, and registrations
\* of the descriptor stay.  What no descriptor refers to any more is dropped.
Close(fd) ==
    /\ Idle /\ fd \in DOMAIN fds
    /\ fds' = Del(fds, fd)
    /\ LET kinds == { fds'[f].kind : f \in DOMAIN fds' }
           pipes == { fds'[f].pipe : f \in DOMAIN fds' } \cap DOMAIN pipe
           OnPipes(m) == [p \in pipes |-> m[p]]
       IN  /\ pipe' = OnPipes(pipe)
           /\ sent' = OnPipes(sent) /\ got' = OnPipes(got)
           /\ entries' = IF "Epoll" \in kinds THEN entries ELSE EmptyMap
           /\ socket' = IF "Socket" \in kinds THEN socket ELSE "fresh"
           /\ counter' = IF "EventFd" \in kinds THEN counter ELSE 0
           /\ added' = IF "EventFd" \in kinds THEN added ELSE 0
           /\ taken' = IF "EventFd" \in kinds THEN taken ELSE 0
    /\ UNCHANGED <<program, next_fd, call, ret>>

\* dup2 to a number that has been closed (it would close it first): the
\* copy shares every Arc of the original.
Dup2(old, new) ==
    /\ Idle /\ old \in DOMAIN fds
    /\ new \in 0 .. next_fd - 1 \ (DOMAIN fds \cup {2})
    /\ fds[old].kind \notin {"Epoll", "EventFd"}
    /\ Cardinality(DOMAIN fds)
         < Cardinality({ fds[fd] : fd \in DOMAIN fds }) + MaxDups
    /\ fds' = Put(fds, new, fds[old])
    /\ UNCHANGED <<program, next_fd, pipe, counter, entries, socket, call, ret, ghosts>>
----------------------------------------------------------------------------
(* read and write.                                                         *)

\* What read answers for a pipe.
ReadResult(fd) ==
    IF Behind(fd).buf # << >> THEN "data"
    ELSE IF Behind(fd).closed THEN "eof" ELSE "EAGAIN"

\* At most n bytes leave the front of the buffer.  RestLost drains it.
RestLost(q, n) == << >>
Rest(q, n) == SubSeq(q, n + 1, Len(q))
ReadPipe(fd, n) ==
    /\ Idle /\ IsReader(fd) /\ ReadResult(fd) = "data"
    /\ LET p == fds[fd].pipe
           k == IF n < Len(pipe[p].buf) THEN n ELSE Len(pipe[p].buf)
       IN  /\ pipe' = [pipe EXCEPT ![p].buf = Rest(pipe[p].buf, k)]
           /\ got' = [got EXCEPT ![p] = got[p] \o SubSeq(pipe[p].buf, 1, k)]
    /\ UNCHANGED <<program, fds, next_fd, counter, entries, socket, call, ret,
                   sent, added, taken>>

Written == MapThenSumSet(LAMBDA p : sent[p], DOMAIN sent)
WritePipe(fd) ==
    /\ Idle /\ IsWriter(fd) /\ Written < MaxBytes
    /\ LET p == fds[fd].pipe
       IN  /\ pipe' = [pipe EXCEPT ![p].buf = Append(pipe[p].buf, sent[p] + 1)]
           /\ sent' = [sent EXCEPT ![p] = sent[p] + 1]
    /\ UNCHANGED <<program, fds, next_fd, counter, entries, socket, call, ret,
                   got, added, taken>>

\* eventfd_read drains the counter; an empty one answers EAGAIN, or 0 when
\* the descriptor is blocking, and stays as it is.  EventPeek does not drain.
EventPeek(fd) ==
    /\ Idle /\ Is(fd, "EventFd") /\ counter > 0 /\ taken < MaxAdded
    /\ taken' = taken + counter
    /\ UNCHANGED <<program, fds, next_fd, pipe, counter, entries, socket, call, ret,
                   sent, got, added>>
EventRead(fd) ==
    /\ Idle /\ Is(fd, "EventFd") /\ counter > 0
    /\ counter' = 0
    /\ taken' = taken + counter
    /\ UNCHANGED <<program, fds, next_fd, pipe, entries, socket, call, ret,
                   sent, got, added>>

\* checked_add, or u64::MAX.
Saturated(c, n) == IF c + n > MaxCounter THEN MaxCounter ELSE c + n
EventWrite(fd, n) ==
    /\ Idle /\ Is(fd, "EventFd") /\ added + n <= MaxAdded
    /\ counter' = Saturated(counter, n)
    /\ added' = added + n
    /\ UNCHANGED <<program, fds, next_fd, pipe, entries, socket, call, ret,
                   sent, got, taken>>
----------------------------------------------------------------------------
(* The waiting calls.  t is the timeout: none left, some, or no timer.     *)

Timeouts == {"zero", "some", "never"}
quiet == <<program, fds, next_fd, pipe, counter, entries, socket, ghosts>>

\* poll and select share the loop: the first look at the descriptors, then
\* the timer's last look.  SkipFirst parks without looking.
SkipFirst(r, t) == t = "zero"
Answers(r, t) == Ready(r) # {} \/ t = "zero"

\* poll and ppoll write the revents back; select turns them into the two
\* sets it was given.
SelectSets(want, r) ==
    [in  |-> { fd \in Ready(r) : "IN" \in r[fd] \cap want[fd] },
     out |-> { fd \in Ready(r) : "OUT" \in r[fd] \cap want[fd] }]
Report(want, r) ==
    [op |-> "poll", n |-> Cardinality(Ready(r)), revents |-> r,
     sets |-> SelectSets(want, r)]

Poll(want, t) ==
    /\ Idle /\ want # EmptyMap
    /\ IF Answers(PollAll(want), t)
       THEN ret' = Report(want, PollAll(want)) /\ UNCHANGED call
       ELSE /\ call' = [op |-> "poll", want |-> want, timed |-> t = "some"]
            /\ ret' = None
    /\ UNCHANGED quiet

\* PollAgain goes back to sleep when nothing is ready.
PollAgain ==
    /\ call.op = "poll" /\ call.timed /\ Ready(PollAll(call.want)) # {}
    /\ ret' = Report(call.want, PollAll(call.want))
    /\ call' = None
    /\ UNCHANGED quiet
PollTimeout ==
    /\ call.op = "poll" /\ call.timed
    /\ ret' = Report(call.want, PollAll(call.want))
    /\ call' = None
    /\ UNCHANGED quiet

\* epoll_ctl.  DEL and MOD need a registration, ADD must not find one; the
\* watched descriptor itself is not looked at.
EpollCtl(ep, op, fd, ev) ==
    /\ Idle /\ Is(ep, "Epoll")
    /\ \/ op = "ADD" /\ fd \notin DOMAIN entries
          /\ Cardinality(DOMAIN entries) < MaxEntries
       \/ op = "MOD" /\ fd \in DOMAIN entries
       \/ op = "DEL" /\ fd \in DOMAIN entries
    /\ entries' = IF op = "DEL" THEN Del(entries, fd) ELSE Put(entries, fd, ev)
    /\ UNCHANGED <<program, fds, next_fd, pipe, counter, socket, call, ret, ghosts>>

\* pack_events: as many ready entries as fit, in the map's iteration order.
PackedReports(r, max) ==
    { [op |-> "epoll", n |-> Cardinality(chosen),
       revents |-> [fd \in chosen |-> r[fd]]] :
          chosen \in { c \in SUBSET Ready(r) :
              Cardinality(c) = IF Cardinality(Ready(r)) < max
                               THEN Cardinality(Ready(r)) ELSE max } }

\* epoll_wait works on a copy of the registrations.  Without any, it sleeps
\* the timeout out, and a wait without a timer answers 0 at once.
EpollWait(ep, max, t) ==
    /\ Idle /\ Is(ep, "Epoll")
    /\ \/ /\ entries = EmptyMap
          /\ call' = IF t = "some" THEN [op |-> "sleep", timed |-> TRUE] ELSE None
          /\ ret' = IF t = "some" THEN None
                    ELSE [op |-> "epoll", n |-> 0, revents |-> EmptyMap]
       \/ /\ entries # EmptyMap /\ Ready(EpollAll(entries)) # {}
          /\ ret' \in PackedReports(EpollAll(entries), max)
          /\ UNCHANGED call
       \/ /\ entries # EmptyMap /\ Ready(EpollAll(entries)) = {}
          /\ call' = [op |-> "epoll", want |-> entries, max |-> max,
                      timed |-> t # "never"]
          /\ ret' = None
    /\ UNCHANGED quiet

\* The timer (a wait with timeout 0 parks too, and its timer is due at once).
EpollTimeout ==
    /\ call.op = "epoll" /\ call.timed
    /\ ret' \in PackedReports(EpollAll(call.want), call.max)
    /\ call' = None
    /\ UNCHANGED quiet
SleepTimeout ==
    /\ call.op = "sleep"
    /\ ret' = [op |-> "epoll", n |-> 0, revents |-> EmptyMap]
    /\ call' = None
    /\ UNCHANGED quiet

\* The guest takes the answer.
Resume ==
    /\ ret # None /\ ret' = None
    /\ UNCHANGED <<quiet, call>>
----------------------------------------------------------------------------
\* What a guest may ask about.
Asked == { s \in SUBSET (0 .. next_fd - 1 \ {2}) : Cardinality(s) \in 1 .. MaxAsked }

Next ==
    \/ \E p \in Pipe : Pipe2(p)
    \/ OpenFile \/ OpenSocket \/ EpollCreate1
    \/ \E i \in 0 .. 1 : Eventfd2(i)
    \/ \E fd \in DOMAIN fds : Close(fd) \/ EventRead(fd) \/ WritePipe(fd)
    \/ \E fd \in DOMAIN fds, n \in 1 .. 2 : ReadPipe(fd, n) \/ EventWrite(fd, n)
    \/ \E old, new \in 0 .. MaxFd - 1 : Dup2(old, new)
    \/ \E s \in Asked, t \in Timeouts : \E want \in [s -> Events] :
           Poll(want, t)
    \/ \E ep \in DOMAIN fds, fd \in 0 .. next_fd - 1 \ {2}, op \in {"ADD", "MOD", "DEL"}, ev \in Events :
           EpollCtl(ep, op, fd, ev)
    \/ \E ep \in DOMAIN fds, max \in 1 .. 2, t \in Timeouts : EpollWait(ep, max, t)
    \/ PollTimeout \/ EpollTimeout \/ SleepTimeout \/ Resume

\* tokio fires the timer of a sleep that nobody drops.
Fairness == WF_vars(PollTimeout) /\ WF_vars(EpollTimeout) /\ WF_vars(SleepTimeout)
Spec == Init /\ [][Next]_vars /\ Fairness
----------------------------------------------------------------------------
(* Properties.                                                             *)

\* Every pipe is first in, first out and loses nothing, whichever duplicated
\* descriptors the bytes pass through (file.rs read and write, internal_dup).
StreamFifo == \A p \in DOMAIN pipe : [i \in 1 .. sent[p] |-> i] = got[p] \o pipe[p].buf

\* An event counter never reports more than was added to it, and loses
\* nothing before it saturates (eventfd_read, eventfd_write).
EventConserved ==
    /\ taken + counter <= added
    /\ added <= MaxCounter => taken + counter = added

\* A call never stays parked over a pipe that a read would find ready: poll
\* and select on the read end of a pipe, epoll on stdin as well.
WantsIn(fd) ==
    /\ fd \in DOMAIN call.want /\ "IN" \in call.want[fd]
    /\ Is(fd, "PipeRead") \/ (call.op = "epoll" /\ Is(fd, "Stdin"))
NeverSleepsReady ==
    call.op \in {"poll", "epoll"} =>
        \A fd \in DOMAIN fds : WantsIn(fd) => ReadResult(fd) = "EAGAIN"

\* What a waiting call reports can be acted on: a read end it calls readable
\* does not answer EAGAIN, and 0 means that no such pipe was ready.
Readable(r) ==
    { fd \in DOMAIN r.revents : "IN" \in r.revents[fd] }
        \cup (IF r.op = "poll" THEN r.sets.in ELSE {})
ReportsActionable ==
    ret.op # "none" =>
        \A fd \in Readable(ret) : Is(fd, "PipeRead") => ReadResult(fd) # "EAGAIN"

\* A call parked with a timer returns (tokio::time::sleep in poll and
\* epoll_wait), whatever it watches.
TimedWaitReturns == (call # None /\ call.timed) ~> (call = None)
=============================================================================
