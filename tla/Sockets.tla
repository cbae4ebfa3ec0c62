------------------------------ MODULE Sockets ------------------------------
(***************************************************************************)
(* The socket calls of src/sys/socket.rs over SocketInner (src/fd.rs) and  *)
(* UdpSocketState (src/sys/udp.rs), the host network they drive, and what  *)
(* a freeze and a restore (src/snapshot.rs, src/cli) do to open sockets.   *)
(*                                                                         *)
(* accept4 and the stream calls take the host object out of SocketInner,   *)
(* await outside every lock and put it back: `call' is the parked call and *)
(* what it holds.  The Store runs one call at a time, so what can happen   *)
(* meanwhile is the peers, other host programs, and the freeze timeout,    *)
(* which drops the call with everything it holds.                          *)
(***************************************************************************)
EXTENDS Naturals, Sequences, Maps

CONSTANTS
    Sock,       \* descriptors, each with a socket of its own
    Programs,   \* bound: the family a guest uses, and which calls of it
    MaxConns,   \* bound: connections at a time
    MaxBytes    \* bound: bytes sent to one end of a connection

ASSUME SocketsAssumption == MaxConns \in Nat /\ MaxBytes \in Nat

None == "none"
AnyPort == "any"            \* 0.0.0.0:0, the host chooses the port
V6 == "v6"              \* an IPv6 address
Fixed == {"a", "b"}     \* IPv4 addresses with a port the guest names
Picked == {"p", "q"}    \* ports the host may choose
Server == "srv"         \* a server outside the guest
Path == "path"          \* the one AF_UNIX path
Addr == Fixed \cup Picked \cup {AnyPort, V6, Path}

VARIABLES
    program,    \* [family, uses], fixed
    sock,       \* descriptor -> SocketInner
    conn,       \* host: connection -> its two ends
    backlog,    \* host: descriptor of a live listener -> ends to be accepted
    inode,      \* host: what is at Path: None, "file", "stale" or a descriptor
    busy,       \* host: ports other programs hold
    call,       \* the parked call
    lost,       \* history: listeners dropped by a failing accept4
    phase,      \* "running", "frozen", "restored" or "refused"
    image,      \* the SocketSnapshots
    before      \* history: what each socket served when it was frozen

host == <<conn, backlog, inode, busy>>
frozen == <<phase, image, before>>
vars == <<program, sock, host, call, lost, frozen>>

Idle == [op |-> "none"]
Family == program.family    \* "tcp", "inherited", "unix" or "udp"
Unix == Family = "unix"
Uses(what) == what \in program.uses
NoEnd == <<0, 0>>
NoUdp == [made |-> FALSE, reuse |-> FALSE, local |-> None]

\* SocketInner::new and new_unix.
New(nonblock) ==
    [nonblock |-> nonblock, bound |-> None, listening |-> FALSE,
     listener |-> None, acceptor |-> FALSE, path |-> FALSE, stream |-> NoEnd,
     peer |-> None, shut |-> {}, peek |-> << >>, error |-> FALSE,
     opts |-> {}, udp |-> NoUdp, inherited |-> FALSE]

\* One end of a connection: whose it is and its address, the bytes sent to
\* it and not yet read, how many were ever sent, those the guest has taken,
\* and what became of their order: "past" when it read past bytes it had
\* peeked at, "stale" when it began with bytes of an earlier connection.
End(who, addr) ==
    [who |-> who, addr |-> addr, open |-> TRUE, box |-> << >>, sent |-> 0,
     got |-> << >>, order |-> "kept"]
Other(i) == 3 - i
Ends(one, two) == [i \in {1, 2} |-> IF i = 1 THEN one ELSE two]

\* attach_inherited_listeners: a listener serve was handed, at its own
\* address (SocketInner::from_inherited_listener).
Inherited ==
    [New(FALSE) EXCEPT !.listener = "a", !.bound = "a", !.listening = TRUE,
                       !.acceptor = TRUE, !.opts = {"REUSEADDR"}, !.inherited = TRUE]

\* A new kernel has no sockets but the ones it inherits.
Init ==
    /\ program \in Programs
    /\ inode \in IF Unix THEN {None, "file", "stale"} ELSE {None}
    /\ busy \in IF Uses("names") THEN SUBSET {"b"} ELSE {{}}
    /\ IF Family = "inherited"
       THEN \E s \in Sock :
              /\ sock = [x \in {s} |-> Inherited]
              /\ backlog = [x \in {s} |-> << >>]
       ELSE sock = EmptyMap /\ backlog = EmptyMap
    /\ conn = EmptyMap /\ call = Idle /\ lost = {}
    /\ phase = "running" /\ image = EmptyMap /\ before = EmptyMap
----------------------------------------------------------------------------
(* The host.                                                               *)

\* The address a socket's listener is at, in SocketInner or held by accept4.
ServedBy(s) ==
    IF sock[s].listener # None THEN sock[s].listener
    ELSE IF call.op = "accept" /\ call.s = s THEN call.held ELSE None

PortsInUse == busy \cup { ServedBy(s) : s \in DOMAIN sock }
\* The ports a bind to a may get, `used' being taken; none means EADDRINUSE.
Grants(a, used) == (IF a = AnyPort THEN Picked ELSE {a}) \ used

\* Connections with the ends E closed; one with no open end is gone.
CloseEnds(cs, E) ==
    LET shut == [c \in DOMAIN cs |->
                    [i \in {1, 2} |-> [cs[c][i] EXCEPT !.open = @ /\ <<c, i>> \notin E]]]
    IN  [c \in { c \in DOMAIN cs : shut[c][1].open \/ shut[c][2].open } |-> shut[c]]
Queued(s) == IF s \in DOMAIN backlog
             THEN { backlog[s][k] : k \in DOMAIN backlog[s] } ELSE {}

Fresh == 1 .. MaxConns \ DOMAIN conn
NewConn == CHOOSE c \in Fresh : TRUE

RemoteConnect(s) ==
    /\ phase = "running" /\ Fresh # {}
    /\ s \in DOMAIN backlog /\ (Unix => inode = s)
    /\ conn' = Put(conn, NewConn, Ends(End("remote", "remote"), End("guest", ServedBy(s))))
    /\ backlog' = [backlog EXCEPT ![s] = Append(backlog[s], <<NewConn, 2>>)]
    /\ UNCHANGED <<program, sock, inode, busy, call, lost, frozen>>

\* The next byte is sent to the end i of c.
Delivered(c, i) ==
    [conn EXCEPT ![c][i] =
        [conn[c][i] EXCEPT !.box = Append(@, conn[c][i].sent + 1), !.sent = @ + 1]]
RemoteSend(c, i) ==
    /\ phase = "running"
    /\ conn[c][Other(i)].who = "remote" /\ conn[c][Other(i)].open
    /\ conn[c][i].open /\ conn[c][i].sent < MaxBytes
    /\ conn' = Delivered(c, i)
    /\ UNCHANGED <<program, sock, backlog, inode, busy, call, lost, frozen>>

RemoteClose(c, i) ==
    /\ phase = "running" /\ conn[c][i].who = "remote" /\ conn[c][i].open
    /\ conn' = CloseEnds(conn, {<<c, i>>})
    /\ UNCHANGED <<program, sock, backlog, inode, busy, call, lost, frozen>>

\* Another program removes what is at the path.
PathRemoved ==
    /\ phase = "running" /\ inode # None
    /\ inode' = None
    /\ UNCHANGED <<program, sock, conn, backlog, busy, call, lost, frozen>>
----------------------------------------------------------------------------
(* Creating and naming.                                                    *)

\* The guest is running and no call of it is parked.
Free == phase = "running" /\ call.op = "none"
Unused == Sock \ DOMAIN sock
Update(s, inner) == sock' = [sock EXCEPT ![s] = inner]

\* socket: unsupported families and types are refused before this point.
Socket(s, nonblock) ==
    /\ Free /\ s \in Unused
    /\ sock' = Put(sock, s, New(nonblock))
    /\ UNCHANGED <<program, host, call, lost, frozen>>

\* socketpair: AF_UNIX only, two unnamed connected sockets.
Socketpair(s, t) ==
    /\ Free /\ Unix /\ s \in Unused /\ t \in Unused /\ s # t /\ Fresh # {}
    /\ conn' = Put(conn, NewConn, Ends(End("guest", None), End("guest", None)))
    /\ sock' = Put(Put(sock, s, [New(FALSE) EXCEPT !.stream = <<NewConn, 1>>]),
                   t, [New(FALSE) EXCEPT !.stream = <<NewConn, 2>>])
    /\ UNCHANGED <<program, backlog, inode, busy, call, lost, frozen>>

\* bind of a TCP socket only records the address, a second time too.
BindTcp(s, a) ==
    /\ Free /\ ~Unix /\ Family # "udp" /\ s \in DOMAIN sock
    /\ a \in {"a", "b", AnyPort, V6}
    /\ Update(s, [sock[s] EXCEPT !.bound = a])
    /\ UNCHANGED <<program, host, call, lost, frozen>>

\* bind of an AF_UNIX socket opens the listener at once, after unlinking
\* whatever socket is at the path.  EADDRINUSE if a file is there.
BindUnix(s) ==
    /\ Free /\ Unix /\ s \in DOMAIN sock /\ inode # "file"
    /\ inode' = s
    /\ conn' = CloseEnds(conn, Queued(s))
    /\ backlog' = Put(backlog, s, << >>)
    /\ Update(s, [sock[s] EXCEPT !.bound = Path, !.path = TRUE, !.listener = Path])
    /\ lost' = lost \ {s}
    /\ UNCHANGED <<program, busy, call, frozen>>

\* The path vanishes between metadata and remove_file: bind answers 0 and
\* has bound nothing.
BindUnixRaced(s) ==
    /\ Free /\ Unix /\ s \in DOMAIN sock /\ inode \notin {None, "file"}
    /\ inode' = None
    /\ UNCHANGED <<program, sock, conn, backlog, busy, call, lost, frozen>>

\* bind of a UDP socket: UdpSocketState is made once, with the options of
\* that moment, and ensure_bound keeps the first address it got.
\* ReuseAlways asks the host to share every port.
ReuseAlways(s) == [made |-> TRUE, reuse |-> TRUE, local |-> None]
UdpState(s) ==
    IF sock[s].udp.made THEN sock[s].udp
    ELSE [made |-> TRUE, reuse |-> "REUSEADDR" \in sock[s].opts, local |-> None]
UdpInUse(s, reuse) ==
    busy \cup { sock[t].udp.local : t \in
                   { t \in DOMAIN sock \ {s} : ~(reuse /\ sock[t].udp.reuse) } }
BindUdp(s, a) ==
    /\ Free /\ Family = "udp" /\ s \in DOMAIN sock /\ a \in {"a", "b", AnyPort}
    /\ LET u == UdpState(s)
           granted == Grants(a, UdpInUse(s, u.reuse))
       IN  \/ /\ u.local # None
              /\ Update(s, [sock[s] EXCEPT !.bound = u.local])
           \/ /\ u.local = None
              /\ \E p \in granted :
                    Update(s, [sock[s] EXCEPT !.bound = p, !.udp = [u EXCEPT !.local = p]])
           \/ /\ u.local = None /\ granted = {}
              /\ Update(s, [sock[s] EXCEPT !.udp = u])
    /\ UNCHANGED <<program, host, call, lost, frozen>>

Listen(s) ==
    /\ Free /\ Family # "udp" /\ s \in DOMAIN sock /\ sock[s].bound # None
    /\ Update(s, [sock[s] EXCEPT !.listening = TRUE])
    /\ UNCHANGED <<program, host, call, lost, frozen>>

\* setsockopt records the option, whatever value it is given.
Setsockopt(s, o) ==
    /\ Free /\ s \in DOMAIN sock
    /\ Update(s, [sock[s] EXCEPT !.opts = @ \cup {o}])
    /\ UNCHANGED <<program, host, call, lost, frozen>>
\* getsockopt(SO_ERROR) takes the error of the last connect.
GetsockoptError(s) ==
    /\ Free /\ s \in DOMAIN sock /\ sock[s].error
    /\ Update(s, [sock[s] EXCEPT !.error = FALSE])
    /\ UNCHANGED <<program, host, call, lost, frozen>>

\* getsockname: the bound address, the peer's when there is none.
\* getpeername: ENOTCONN (None) when no peer was recorded.
Getsockname(s) ==
    IF sock[s].bound # None THEN sock[s].bound
    ELSE IF Unix THEN None ELSE sock[s].peer
Getpeername(s) == sock[s].peer
----------------------------------------------------------------------------
(* Connections.                                                            *)

\* accept4, phases 1 to 1b: open the TCP listener if there is none, then
\* take it.  AF_UNIX holds a clone and leaves the original.
Accept4(s) ==
    /\ Free /\ s \in DOMAIN sock /\ sock[s].bound # None /\ sock[s].listening
    /\ IF Unix
       THEN /\ sock[s].listener # None
            /\ call' = [op |-> "accept", s |-> s, held |-> Path]
            /\ UNCHANGED <<sock, backlog, lost>>
       ELSE /\ sock[s].bound # V6
            /\ \E p \in IF sock[s].listener # None THEN {sock[s].listener}
                        ELSE Grants(sock[s].bound, PortsInUse) :
                 call' = [op |-> "accept", s |-> s, held |-> p]
            /\ Update(s, [sock[s] EXCEPT !.listener = None, !.acceptor = TRUE])
            /\ backlog' = IF s \in DOMAIN backlog THEN backlog ELSE Put(backlog, s, << >>)
            /\ lost' = lost \ {s}
    /\ UNCHANGED <<program, conn, inode, busy, frozen>>

\* SocketInner::from_accepted, with the peer accept reported; no peer of
\* an AF_UNIX socket here has a path.
Accepted(s, e, nonblock) ==
    [New(IF Unix THEN nonblock ELSE nonblock \/ sock[s].nonblock)
        EXCEPT !.stream = e,
               !.peer = IF Unix THEN None ELSE conn[e[1]][Other(e[2])].addr]

\* A call puts back what it took, unless something is there; KeptOut forgets.
KeptOut(held, there, empty) == there
PutBack(held, there, empty) == IF there = empty THEN held ELSE there

\* Phases 2 to 5: the next connection, and the listener goes back.
AcceptReturns(t, nonblock) ==
    /\ phase = "running" /\ call.op = "accept" /\ t \in Unused
    /\ backlog[call.s] # << >>
    /\ sock' = Put([sock EXCEPT ![call.s].listener = PutBack(call.held, @, None)],
                   t, Accepted(call.s, Head(backlog[call.s]), nonblock))
    /\ backlog' = [backlog EXCEPT ![call.s] = Tail(backlog[call.s])]
    /\ call' = Idle
    /\ UNCHANGED <<program, conn, inode, busy, lost, frozen>>

\* The listener of s is gone, and what was queued on it is reset.
DropListener(s) ==
    /\ Update(s, [sock[s] EXCEPT !.listener = None])
    /\ conn' = CloseEnds(conn, Queued(s))
    /\ backlog' = Del(backlog, s)
    /\ lost' = lost \cup {s}
\* The host's accept fails (EIO): accept4 drops what it holds, which for
\* AF_UNIX is the clone.
AcceptFails ==
    /\ phase = "running" /\ call.op = "accept"
    /\ IF Unix THEN UNCHANGED <<sock, conn, backlog, lost>>
       ELSE DropListener(call.s)
    /\ call' = Idle
    /\ UNCHANGED <<program, inode, busy, frozen>>
\* An AF_UNIX listener that cannot be cloned (ENOMEM) is dropped.
AcceptUnixNoMem(s) ==
    /\ Free /\ Unix /\ s \in DOMAIN sock
    /\ sock[s].listening /\ sock[s].listener # None
    /\ DropListener(s)
    /\ UNCHANGED <<program, inode, busy, call, frozen>>

\* connect: to a server outside, or to a listener of the guest itself.  The
\* peer is recorded; AF_UNIX also records the peer's path as its own.
\* PeerKept keeps the peer of an earlier connection.
PeerKept(s, c, a) == [sock[s] EXCEPT !.stream = <<c, 1>>,
                                     !.peer = IF @ = None THEN a ELSE @,
                                     !.bound = IF Unix THEN a ELSE @]
Connected(s, c, a) == [sock[s] EXCEPT !.stream = <<c, 1>>, !.peer = a,
                                      !.bound = IF Unix THEN a ELSE @]
Connect(s, a) ==
    /\ Free /\ Family # "udp" /\ s \in DOMAIN sock /\ sock[s].stream = NoEnd
    /\ Fresh # {}
    /\ LET mine == [End("guest", "client") EXCEPT
                      !.order = IF sock[s].peek = << >> THEN "kept" ELSE "stale"]
       IN  \/ /\ a = Server /\ ~Unix
              /\ conn' = Put(conn, NewConn, Ends(mine, End("remote", a)))
              /\ UNCHANGED backlog
           \/ \E l \in DOMAIN backlog :
                 /\ ServedBy(l) = a /\ (Unix => inode = l)
                 /\ conn' = Put(conn, NewConn, Ends(mine, End("guest", a)))
                 /\ backlog' = [backlog EXCEPT ![l] = Append(@, <<NewConn, 2>>)]
    /\ Update(s, Connected(s, NewConn, a))
    /\ UNCHANGED <<program, inode, busy, call, lost, frozen>>

\* connect_v4 keeps the error for getsockopt(SO_ERROR).
ConnectRefused(s) ==
    /\ Free /\ Family \in {"tcp", "inherited"}
    /\ s \in DOMAIN sock /\ sock[s].stream = NoEnd
    /\ Update(s, [sock[s] EXCEPT !.error = TRUE])
    /\ UNCHANGED <<program, host, call, lost, frozen>>

\* shutdown: for AF_UNIX only the flags; a TCP stream shut for writing is
\* dropped altogether.
Shutdown(s, how) ==
    /\ Free /\ s \in DOMAIN sock
    /\ LET gone == ~Unix /\ "WR" \in how
       IN  /\ Update(s, [sock[s] EXCEPT !.shut = @ \cup how,
                                        !.stream = IF gone THEN NoEnd ELSE @])
           /\ conn' = IF gone THEN CloseEnds(conn, {sock[s].stream}) ELSE conn
    /\ UNCHANGED <<program, backlog, inode, busy, call, lost, frozen>>

\* close drops the stream and the listener; the path stays in the host.
Close(s) ==
    /\ Free /\ s \in DOMAIN sock
    /\ sock' = Del(sock, s)
    /\ conn' = CloseEnds(conn, Queued(s) \cup {sock[s].stream})
    /\ backlog' = Del(backlog, s)
    /\ inode' = IF inode = s THEN "stale" ELSE inode
    /\ lost' = lost \ {s}
    /\ UNCHANGED <<program, busy, call, frozen>>
----------------------------------------------------------------------------
(* Bytes.                                                                  *)

Streaming(s) == sock[s].stream # NoEnd

\* sendmsg ("WR") and recvmsg ("RD") know only TCP streams.  MSG_DONTWAIT
\* sets nonblock for the call, but EPIPE, ENOTCONN and the EOF of SHUT_RD
\* leave without setting it back.
MsgLeavesEarly(s, flag) ==
    /\ Free /\ s \in DOMAIN sock
    /\ flag \in sock[s].shut \/ Unix \/ ~Streaming(s)
    /\ flag = "RD" => sock[s].peek = << >>
    /\ Update(s, [sock[s] EXCEPT !.nonblock = TRUE])
    /\ UNCHANGED <<program, host, call, lost, frozen>>

\* A stream call takes the stream; when it returns the stream goes back and
\* nonblock is what it was.
Take(s, dontwait) ==
    Update(s, [sock[s] EXCEPT !.stream = NoEnd, !.nonblock = @ \/ dontwait])
Returned == [sock[call.s] EXCEPT !.stream = PutBack(call.held, @, NoEnd),
                                 !.nonblock = call.was]

\* Every send takes the stream and awaits the write.
Send(s, dontwait) ==
    /\ Free /\ s \in DOMAIN sock /\ "WR" \notin sock[s].shut /\ Streaming(s)
    /\ call' = [op |-> "send", s |-> s, held |-> sock[s].stream,
                was |-> sock[s].nonblock]
    /\ Take(s, dontwait)
    /\ UNCHANGED <<program, host, lost, frozen>>
Sendto(s) == ~Unix /\ Send(s, FALSE)
SendtoUnix(s) == Unix /\ Send(s, FALSE)
Sendmsg(s, dontwait) == ~Unix /\ Send(s, dontwait)
\* The byte is with the peer, or the peer is gone (EIO); the stream goes back.
SendReturns ==
    /\ phase = "running" /\ call.op = "send"
    /\ LET c == call.held[1]
           to == Other(call.held[2])
       IN  IF conn[c][to].open /\ conn[c][to].who = "guest"
           THEN /\ conn[c][to].sent < MaxBytes
                /\ conn' = Delivered(c, to)
           ELSE UNCHANGED conn
    /\ Update(call.s, Returned)
    /\ call' = Idle
    /\ UNCHANGED <<program, backlog, inode, busy, lost, frozen>>

MinOf(a, b) == IF a < b THEN a ELSE b
FirstOf(q, n) == SubSeq(q, 1, MinOf(n, Len(q)))
AfterFirst(q, n) == SubSeq(q, n + 1, Len(q))
\* The guest has taken the bytes b of the end e.
Taken(cs, e, b) == [cs EXCEPT ![e[1]][e[2]].got = @ \o b]

\* recvmsg first drains peek_buf, with or without MSG_PEEK.
RecvPeeked(s, n) ==
    /\ Free /\ s \in DOMAIN sock /\ sock[s].peek # << >>
    /\ LET b == FirstOf(sock[s].peek, n)
       IN  /\ conn' = IF sock[s].stream = NoEnd THEN conn
                      ELSE Taken(conn, sock[s].stream, b)
           /\ Update(s, [sock[s] EXCEPT !.peek = AfterFirst(@, n)])
    /\ UNCHANGED <<program, backlog, inode, busy, call, lost, frozen>>

\* Every receive takes the stream and awaits a read of up to n bytes.
Recv(s, peek, dontwait, n) ==
    /\ Free /\ s \in DOMAIN sock /\ "RD" \notin sock[s].shut /\ Streaming(s)
    /\ call' = [op |-> "recv", s |-> s, held |-> sock[s].stream,
                was |-> sock[s].nonblock, peek |-> peek, n |-> n]
    /\ Take(s, dontwait)
    /\ conn' = IF sock[s].peek = << >> THEN conn
               ELSE [conn EXCEPT ![sock[s].stream[1]][sock[s].stream[2]].order =
                                     IF @ = "kept" THEN "past" ELSE @]
    /\ UNCHANGED <<program, backlog, inode, busy, lost, frozen>>
\* recvfrom does not look at peek_buf.
Recvfrom(s, n) == ~Unix /\ Recv(s, FALSE, FALSE, n)
RecvfromUnix(s, n) == Unix /\ Recv(s, FALSE, FALSE, n)
Recvmsg(s, peek, dontwait, n) ==
    ~Unix /\ s \in DOMAIN sock /\ sock[s].peek = << >> /\ Recv(s, peek, dontwait, n)

\* Data, or 0 once the peer has closed; the stream goes back, and MSG_PEEK
\* stashes the bytes it has read.  StashLost does not.
StashLost(inner, b) == inner
Stash(inner, b) == [inner EXCEPT !.peek = @ \o b]
RecvReturns ==
    /\ phase = "running" /\ call.op = "recv"
    /\ LET c == call.held[1]
           i == call.held[2]
           b == FirstOf(conn[c][i].box, call.n)
           rest == [conn EXCEPT ![c][i].box = AfterFirst(@, call.n)]
       IN  /\ b # << >> \/ ~conn[c][Other(i)].open
           /\ conn' = IF call.peek THEN rest ELSE Taken(rest, call.held, b)
           /\ Update(call.s, IF call.peek THEN Stash(Returned, b) ELSE Returned)
    /\ call' = Idle
    /\ UNCHANGED <<program, backlog, inode, busy, lost, frozen>>
----------------------------------------------------------------------------
(* Freeze and restore.                                                     *)

\* The port build_kernel_snapshot writes over a V4 port 0: that of the
\* listener, if it is in SocketInner.  PortAsBound leaves the 0.
PortAsBound(s) == sock[s].bound
PortToRecord(s) ==
    IF sock[s].bound = AnyPort /\ sock[s].listener # None
    THEN sock[s].listener ELSE sock[s].bound
\* SocketInner::snapshot.
SocketSnapshot(s) ==
    [bound |-> PortToRecord(s),
     acceptor |-> sock[s].acceptor, peered |-> sock[s].peer # None /\ ~Unix,
     path |-> sock[s].path, nonblock |-> sock[s].nonblock,
     reuse |-> "REUSEADDR" \in sock[s].opts, inherited |-> sock[s].inherited]

\* freeze: the guest has returned, or the timeout drops the call it is parked
\* in.  The process ends, and with it every host object.
Freeze ==
    /\ phase = "running" /\ DOMAIN sock # {}
    /\ phase' = "frozen"
    /\ image' = [s \in DOMAIN sock |-> SocketSnapshot(s)]
    /\ before' = [s \in DOMAIN sock |->
                     [at |-> ServedBy(s), bound |-> sock[s].bound,
                      parked |-> call.op = "accept" /\ call.s = s]]
    /\ sock' = EmptyMap /\ conn' = EmptyMap /\ backlog' = EmptyMap
    /\ inode' = IF inode \in Sock THEN "stale" ELSE inode
    /\ call' = Idle /\ lost' = {}
    /\ UNCHANGED <<program, busy>>

\* from_tcp_listener, from_unix_listener.
Reopened(s, p) ==
    [New(image[s].nonblock) EXCEPT !.listener = p, !.bound = image[s].bound,
        !.listening = TRUE, !.acceptor = TRUE, !.path = image[s].path,
        !.opts = IF image[s].reuse THEN {"REUSEADDR"} ELSE {}]

\* What apply_snapshot_kernel_state asks of an entry before it opens it.
\* Every AF_UNIX entry must have a path, every other be an IPv4 acceptor.
Restorable(s) ==
    /\ ~(image[s].acceptor /\ image[s].peered)
    /\ IF Unix THEN image[s].path /\ inode # "file"
       ELSE image[s].acceptor /\ image[s].bound \notin {None, V6}

\* serve: entries that are not inherited are reopened, each at the port its
\* entry says; then the listeners handed over again (apply_snapshot_
\* inherited_listeners) go where an inherited entry was.  Other programs may
\* have taken ports since; the parent holds the inherited one.
Restore(handed, taken) ==
    /\ phase = "frozen" /\ busy' = busy \cup taken
    /\ LET mine == { s \in DOMAIN image : ~image[s].inherited }
           back == { s \in handed \cap DOMAIN image : image[s].inherited }
           used == busy' \cup IF Family = "inherited" THEN {"a"} ELSE {}
           Ports == { at \in [mine -> Fixed \cup Picked \cup {Path}] :
                        /\ \A s \in mine : at[s] \in Grants(image[s].bound, used)
                        /\ ~Unix => \A s, u \in mine : s # u => at[s] # at[u] }
       IN  IF (\A s \in mine : Restorable(s)) /\ Ports # {}
           THEN \E at \in Ports :
                  /\ sock' = [s \in mine \cup back |->
                                IF s \in mine THEN Reopened(s, at[s]) ELSE Inherited]
                  /\ backlog' = [s \in mine \cup back |-> << >>]
                  /\ inode' \in IF Unix /\ mine # {} THEN mine ELSE {inode}
                  /\ phase' = "restored"
           ELSE phase' = "refused" /\ UNCHANGED <<sock, backlog, inode>>
    /\ UNCHANGED <<program, conn, call, lost, image, before>>
----------------------------------------------------------------------------
\* Bound: a guest uses only the calls its program names.
Flag == IF Uses("flags") THEN BOOLEAN ELSE {FALSE}
Naming(s) ==
    \/ \E nb \in Flag : Socket(s, nb)
    \/ \E t \in Sock : Socketpair(s, t)
    \/ Uses("serve") /\ \/ \E a \in IF Uses("names") THEN Addr ELSE {"a"} :
                             BindTcp(s, a) \/ BindUdp(s, a)
                        \/ BindUnix(s) \/ BindUnixRaced(s)
                        \/ Listen(s)
    \/ Uses("options") /\ (Setsockopt(s, "REUSEADDR") \/ GetsockoptError(s))
Connecting(s) ==
    \/ Accept4(s)
    \/ \E nb \in Flag : AcceptReturns(s, nb)
    \/ Uses("faults") /\ (AcceptUnixNoMem(s) \/ AcceptFails)
    \/ Uses("options") /\ ConnectRefused(s)
    \/ \E a \in Addr \cup {Server} : Connect(s, a)
    \/ Uses("shutdown") /\ \E how \in SUBSET {"RD", "WR"} \ {{}} : Shutdown(s, how)
    \/ Close(s)
Bytes(s) ==
    /\ Uses("bytes")
    /\ \/ Uses("flags") /\ \E flag \in {"RD", "WR"} : MsgLeavesEarly(s, flag)
       \/ Sendto(s) \/ SendtoUnix(s)
       \/ \E dontwait \in Flag : Sendmsg(s, dontwait)
       \/ \E n \in 1 .. MaxBytes :
            \/ Recvfrom(s, n) \/ RecvfromUnix(s, n) \/ RecvPeeked(s, n)
            \/ \E peek \in BOOLEAN, dontwait \in Flag : Recvmsg(s, peek, dontwait, n)
       \/ SendReturns \/ RecvReturns
Peers ==
    \/ \E s \in Sock : RemoteConnect(s)
    \/ \E c \in DOMAIN conn, i \in {1, 2} :
         (Uses("bytes") /\ RemoteSend(c, i)) \/ RemoteClose(c, i)
    \/ PathRemoved
Moving ==
    /\ Uses("freeze")
    /\ \/ Freeze
       \/ \E handed \in SUBSET Sock, taken \in SUBSET Fixed : Restore(handed, taken)

Next == (\E s \in Sock : Naming(s) \/ Connecting(s) \/ Bytes(s)) \/ Peers \/ Moving

Spec == Init /\ [][Next]_vars
----------------------------------------------------------------------------
(* Properties.                                                             *)

Iota(n) == [k \in 1 .. n |-> k]
\* The end of a connection a socket has, in SocketInner or in its call.
EndOf(s) == IF sock[s].stream # NoEnd THEN sock[s].stream
            ELSE IF call.op \in {"send", "recv"} /\ call.s = s THEN call.held ELSE NoEnd

(* Bytes arrive once each and in order, however the guest mixes MSG_PEEK,  *)
(* short buffers and calls that park in between: what it has taken, then   *)
(* peek_buf, then what the host still holds is exactly what was sent       *)
(* (recvmsg and recvfrom of socket.rs).  A recvfrom that reads past peeked *)
(* bytes gives up the order and still neither loses nor repeats a byte.    *)
(* No claim for a connection made on a socket with peeked bytes left over. *)
StreamOrder ==
    \A s \in DOMAIN sock :
        EndOf(s) # NoEnd =>
            LET e == conn[EndOf(s)[1]][EndOf(s)[2]]
                all == e.got \o sock[s].peek \o e.box
            IN  /\ e.order = "kept" => all = Iota(e.sent)
                /\ e.order = "past" =>
                      Len(all) = e.sent /\ { all[k] : k \in DOMAIN all } = 1 .. e.sent

(* getpeername tells the truth: while a TCP socket has a stream it names   *)
(* the other end of it, and a socket with a peer has lost its stream only  *)
(* by shutdown(SHUT_WR): every call puts back the stream it took.          *)
PeerNamed ==
    ~Unix => \A s \in DOMAIN sock :
        /\ sock[s].stream # NoEnd =>
              Getpeername(s) = conn[sock[s].stream[1]][Other(sock[s].stream[2])].addr
        /\ Getpeername(s) # None =>
              EndOf(s) # NoEnd \/ "WR" \in sock[s].shut

(* A socket that serves goes on serving: outside accept4, a TCP acceptor   *)
(* and a bound AF_UNIX socket have their listener, unless accept4 has told *)
(* the guest it failed (phase 4 of accept4 puts the listener back).        *)
ListenerKept ==
    call.op = "none" => \A s \in DOMAIN sock \ lost :
        sock[s].acceptor \/ sock[s].path => sock[s].listener # None

(* A UDP socket reports the address the host gave it, whatever binds were  *)
(* tried before and after, and shares a port only with sockets that all    *)
(* asked for SO_REUSEADDR (ensure_bound of udp.rs).                        *)
UdpNames ==
    \A s \in DOMAIN sock :
        sock[s].udp.local # None =>
            /\ Getsockname(s) = sock[s].udp.local
            /\ \A t \in DOMAIN sock \ {s} :
                  sock[t].udp.local = sock[s].udp.local =>
                      "REUSEADDR" \in sock[s].opts \cap sock[t].opts

\* What a restored socket must still serve.
Serves(s) == s \in DOMAIN sock /\ sock[s].listener = before[s].at

(* A snapshot that restores serves where it served: every listener, the    *)
(* one of a dropped accept4 included, is reopened at its address; an       *)
(* inherited one is handed over again or closed, never bound anew.  Not    *)
(* claimed: a port the host chose, when the freeze dropped the accept4     *)
(* that held the listener; a socket bound again elsewhere.                 *)
ListenersSurvive ==
    phase = "restored" => \A s \in DOMAIN before :
        /\ before[s].at # None
        /\ before[s].bound = before[s].at \/ (before[s].bound = AnyPort /\ ~before[s].parked)
        => IF image[s].inherited
           THEN s \in DOMAIN sock => sock[s].listener = "a"
           ELSE Serves(s)

(* The comment on the port fix of freeze.rs and snapshot.rs: the snapshot  *)
(* of a server that bound port 0 names the port it was serving on, so the  *)
(* restored server is found there.  A guest parked in accept4, the case    *)
(* freeze is made for, has its listener out of SocketInner.                *)
PortSurvives ==
    phase = "restored" => \A s \in DOMAIN before :
        before[s].at # None /\ before[s].bound = AnyPort /\ ~image[s].inherited
        => Serves(s)
=============================================================================
