--------------------------- MODULE SocketsProofs ---------------------------
(* Proofs about Sockets: the streams of the guest keep their bytes and     *)
(* their peers, its listeners stay open and come back after a freeze, and  *)
(* its UDP sockets keep their addresses.                                   *)

EXTENDS SocketsInvariant
----------------------------------------------------------------------------
(* The calls that move bytes.                                              *)

\* A send beginning, which takes the stream out of the socket, keeps the invariant.
LEMMA SendStep ==
  ASSUME IInv, NEW s, NEW dontwait \in BOOLEAN, Send(s, dontwait) PROVE IInv'
  <1> DEFINE r == [sock[s] EXCEPT !.stream = NoEnd, !.nonblock = @ \/ dontwait]
  <1>1. /\ Free /\ s \in DOMAIN sock /\ sock[s].stream # NoEnd /\ Update(s, r)
        /\ call' = [op |-> "send", s |-> s, held |-> sock[s].stream, was |-> sock[s].nonblock]
        /\ UNCHANGED <<program, conn, backlog, lost, frozen>>
    BY DEF Send, Take, Streaming, host
  <1>2. /\ TypeOK /\ Streams /\ Waiting /\ Apart /\ Parked /\ Peered /\ Listeners
        /\ Udp /\ Image /\ ListenersSurvive /\ phase = "running" /\ call.op = "none"
        /\ \A t \in DOMAIN sock : EndOf(t) = sock[t].stream
    BY <1>1, FreeFacts
  <1>3. sock[s] \in Inner /\ NoEnd \in Nat \X Nat /\ s \in Sock
    BY <1>1, <1>2 DEF TypeOK, NoEnd
  <1>4. r \in Inner
    BY Zenon, <1>3 DEF Inner
  <1>5. /\ r.stream = NoEnd /\ r.peek = sock[s].peek /\ r.peer = sock[s].peer
        /\ r.shut = sock[s].shut /\ r.udp = sock[s].udp
        /\ r.opts = sock[s].opts /\ r.listener = sock[s].listener /\ r.bound = sock[s].bound
        /\ r.acceptor = sock[s].acceptor /\ r.path = sock[s].path
    BY <1>3 DEF Inner
  <1> HIDE DEF r
  <1>6. /\ sock' \in [DOMAIN sock' -> Inner] /\ DOMAIN sock' = DOMAIN sock
        /\ sock'[s] = r /\ \A t \in DOMAIN sock : t # s => sock'[t] = sock[t]
    BY <1>1, <1>2, <1>4, Updates
  <1>7. /\ call' \in Calls /\ call'.op = "send" /\ call'.s = s /\ call'.held = sock[s].stream
    <2>1. sock[s].stream \in Nat \X Nat /\ sock[s].nonblock \in BOOLEAN
      BY <1>3 DEF Inner
    <2> QED  BY <2>1, <1>1, <1>3 DEF Calls
  <1>8. TypeOK'
    BY <1>1, <1>2, <1>6, <1>7 DEF TypeOK, frozen
  <1>9. \A t \in DOMAIN sock : EndOf(t)' = EndOf(t)
    BY <1>1, <1>2, <1>5, <1>6, <1>7 DEF EndOf
  <1>10. SocksKeep({}) /\ QueuesKeep({})
    BY <1>1, <1>5, <1>6, <1>9 DEF SocksKeep, QueuesKeep
  <1>11. Streams' /\ Waiting' /\ Apart' /\ Peered'
    BY <1>1, <1>2, <1>10, SameConns, OwnersKeep
  <1>12. Parked'
    BY <1>1, <1>5, <1>6, <1>7 DEF Parked
  <1>13. Listeners'
    BY <1>1, <1>2, <1>5, <1>6, <1>7, ListenersStay DEF ListenersKeep
  <1>14. Udp' /\ Image' /\ ListenersSurvive'
    BY <1>1, <1>2, <1>5, <1>6, UdpStays, ImageStays DEF UdpKeeps
  <1> QED  BY <1>8, <1>11, <1>12, <1>13, <1>14 DEF IInv

\* A step that changes the bytes of the end <<c, i>> only.
EndChanges(c, i) ==
    /\ DOMAIN conn' = DOMAIN conn /\ conn' \in [DOMAIN conn' -> [{1, 2} -> EndRec]]
    /\ \A d \in DOMAIN conn : \A j \in {1, 2} :
          /\ conn'[d][j].who = conn[d][j].who /\ conn'[d][j].open = conn[d][j].open
          /\ conn'[d][j].addr = conn[d][j].addr
          /\ <<d, j>> # <<c, i>> => SameBytes(conn'[d][j], conn[d][j])
EndBecomes(c, i, r) == conn' = [conn EXCEPT ![c][i] = r]

\* Replacing the bytes of one end changes that end and no other.
LEMMA EndPut ==
  ASSUME TypeOK, NEW c \in DOMAIN conn, NEW i \in {1, 2}, NEW r \in EndRec,
         EndBecomes(c, i, r),
         r.who = conn[c][i].who, r.open = conn[c][i].open, r.addr = conn[c][i].addr
  PROVE  EndChanges(c, i) /\ conn'[c][i] = r
  <1>1. /\ conn \in [DOMAIN conn -> [{1, 2} -> EndRec]]
    BY DEF TypeOK
  <1>2. /\ DOMAIN conn' = DOMAIN conn /\ conn' \in [DOMAIN conn' -> [{1, 2} -> EndRec]]
        /\ conn'[c][i] = r
        /\ \A d \in DOMAIN conn : \A j \in {1, 2} : d # c \/ j # i => conn'[d][j] = conn[d][j]
    BY <1>1 DEF EndBecomes
  <1> QED  BY <1>2 DEF EndChanges, SameBytes

\* The end still holds what its owner must get.
SocksHold(c, i) ==
    \A s \in DOMAIN sock :
        /\ EndOf(s)' = EndOf(s) /\ sock'[s].peer = sock[s].peer
        /\ sock'[s].shut = sock[s].shut
        /\ EndOf(s) = <<c, i>> => Holds(conn'[c][i], sock'[s].peek)
        /\ EndOf(s) # NoEnd /\ EndOf(s) # <<c, i>> => sock'[s].peek = sock[s].peek
QueuesHold(c, i) ==
    \A l \in DOMAIN backlog : \A k \in 1 .. Len(backlog[l]) :
        backlog[l][k] = <<c, i>> => Holds(conn'[c][i], << >>)

\* An end that a socket owns waits in no queue.
LEMMA OwnedNotQueued ==
  ASSUME Apart, NEW s \in DOMAIN sock, NEW c, NEW i, EndOf(s) = <<c, i>>
  PROVE  QueuesHold(c, i)
  BY Zenon DEF Apart, QueuesHold

\* An open end of the guest is an end of a connection.
LEMMA LiveEnd ==
  ASSUME TypeOK, NEW e \in Nat \X Nat, Live(conn, e)
  PROVE  /\ e[1] \in DOMAIN conn /\ e[2] \in {1, 2} /\ e = <<e[1], e[2]>>
         /\ conn[e[1]][e[2]] \in EndRec
  <1>1. /\ e[1] \in DOMAIN conn /\ e[2] \in {1, 2} /\ e = <<e[1], e[2]>>
    BY DEF Live
  <1> QED  BY Zenon, <1>1 DEF TypeOK

\* Moving bytes at one end keeps the ownership of ends when its owner holds them all
\* afterwards.
LEMMA BytesMove ==
  ASSUME TypeOK, Streams, Waiting, Apart, Peered, UNCHANGED <<program, backlog>>,
         NEW c \in DOMAIN conn, NEW i \in {1, 2}, EndChanges(c, i),
         DOMAIN sock' = DOMAIN sock, SocksHold(c, i), QueuesHold(c, i)
  PROVE  Streams' /\ Waiting' /\ Apart' /\ Peered'
  <1>1. /\ \A s \in DOMAIN sock : EndOf(s) \in Nat \X Nat
        /\ \A l \in DOMAIN backlog : \A k \in 1 .. Len(backlog[l]) :
               backlog[l][k] \in Nat \X Nat
    BY EndTypes
  <1>2. ASSUME NEW e \in Nat \X Nat, Live(conn, e)
        PROVE  /\ Live(conn', e)
               /\ e # <<c, i>> => SameBytes(conn'[e[1]][e[2]], conn[e[1]][e[2]])
               /\ conn'[e[1]][Other(e[2])].addr = conn[e[1]][Other(e[2])].addr
    <2>1. e[1] \in DOMAIN conn /\ e[2] \in {1, 2} /\ Other(e[2]) \in {1, 2} /\ e = <<e[1], e[2]>>
      BY <1>2 DEF Live, Other
    <2> QED  BY <2>1, <1>2 DEF EndChanges, Live
  <1>7. ASSUME NEW e \in Nat \X Nat, Live(conn, e), NEW p, NEW q,
               e = <<c, i>> => Holds(conn'[c][i], q),
               e # <<c, i>> => p = q /\ Kept(conn, e, p)
        PROVE  Live(conn', e) /\ Kept(conn', e, q)
    <2>1. CASE e = <<c, i>>
      BY <2>1, <1>2, <1>7 DEF Kept
    <2>2. CASE e # <<c, i>>
      BY Zenon, <2>2, <1>2, <1>7 DEF Kept, Holds, SameBytes
    <2> QED  BY <2>1, <2>2
  <1>3. Streams'
    BY ZenonT(30), <1>1, <1>7 DEF Streams, SocksHold
  <1>4. Waiting'
    <2> SUFFICES ASSUME NEW l \in DOMAIN backlog, NEW k \in 1 .. Len(backlog[l])
                 PROVE  Live(conn', backlog[l][k]) /\ Kept(conn', backlog[l][k], << >>)
      BY DEF Waiting
    <2>1. /\ Live(conn, backlog[l][k]) /\ Kept(conn, backlog[l][k], << >>)
          /\ backlog[l][k] \in Nat \X Nat
          /\ backlog[l][k] = <<c, i>> => Holds(conn'[c][i], << >>)
      BY Zenon, <1>1 DEF Waiting, QueuesHold
    <2> QED  BY <2>1, <1>7
  <1>5. Apart'
    BY DEF Apart, SocksHold
  <1>6. Peered'
    BY ZenonT(30), <1>1, <1>2 DEF Streams, Peered, Unix, Family, SocksHold
  <1> QED  BY Zenon, <1>3, <1>4, <1>5, <1>6

\* A byte is appended to an end.
LEMMA ByteArrives ==
  ASSUME TypeOK, NEW c \in DOMAIN conn, NEW i \in {1, 2},
         conn' = Delivered(c, i)
  PROVE  /\ EndChanges(c, i) /\ conn'[c][i].order = conn[c][i].order
         /\ \A p : Holds(conn[c][i], p) => Holds(conn'[c][i], p)
  <1> DEFINE q == conn[c][i]
             r == [q EXCEPT !.box = Append(@, q.sent + 1), !.sent = @ + 1]
  <1>1. q \in EndRec /\ conn \in [DOMAIN conn -> [{1, 2} -> EndRec]]
    BY DEF TypeOK
  <1>2. EndBecomes(c, i, r)
    BY DEF Delivered, EndBecomes
  <1>3. Append(q.box, q.sent + 1) \in Seq(Nat) /\ q.sent + 1 \in Nat
    BY <1>1 DEF EndRec
  <1>4. /\ r \in EndRec /\ r.who = q.who /\ r.open = q.open /\ r.addr = q.addr
        /\ r.order = q.order /\ r.got = q.got /\ r.box = Append(q.box, q.sent + 1)
        /\ r.sent = q.sent + 1
    <2> DEFINE b == Append(q.box, q.sent + 1)
               n == q.sent + 1
    <2>1. b \in Seq(Nat) /\ n \in Nat /\ q \in EndRec
      BY <1>1, <1>3
    <2>4. r = [q EXCEPT !.box = b, !.sent = n]
      BY <1>1 DEF EndRec
    <2> HIDE DEF b, n, q, r
    <2>2. [q EXCEPT !.box = b, !.sent = n] \in EndRec
      BY Zenon, <2>1, EndRecTypes
    <2>3. /\ r.who = q.who /\ r.open = q.open /\ r.addr = q.addr /\ r.order = q.order
          /\ r.got = q.got /\ r.box = b /\ r.sent = n
      BY <2>1, <2>4 DEF EndRec
    <2> QED  BY <2>2, <2>3, <2>4 DEF b, n, q
  <1> HIDE DEF r
  <1>5. EndChanges(c, i) /\ conn'[c][i] = r
    BY <1>2, <1>4, EndPut
  <1>6. \A p : Holds(q, p) => Holds(r, p)
    BY <1>4, Sending DEF Holds
  <1> QED  BY <1>4, <1>5, <1>6

\* The remote peer sending keeps the invariant.
LEMMA RemoteSendStep ==
  ASSUME IInv, NEW c \in DOMAIN conn, NEW i \in {1, 2}, RemoteSend(c, i) PROVE IInv'
  <1>1. /\ phase = "running"
        /\ conn' = Delivered(c, i)
        /\ UNCHANGED <<program, sock, backlog, call, lost, frozen>>
    BY DEF RemoteSend
  <1>2. /\ TypeOK /\ Streams /\ Waiting /\ Apart /\ Parked /\ Peered /\ Listeners
        /\ Udp /\ Image /\ ListenersSurvive
    BY DEF IInv
  <1>3. /\ EndChanges(c, i) /\ conn'[c][i].order = conn[c][i].order
        /\ \A p : Holds(conn[c][i], p) => Holds(conn'[c][i], p)
    BY <1>1, <1>2, ByteArrives
  <1>4. TypeOK'
    BY <1>1, <1>2, <1>3 DEF TypeOK, EndChanges, frozen
  <1>5. \A s \in DOMAIN sock : EndOf(s)' = EndOf(s)
    BY <1>1 DEF EndOf
  <1>6. /\ \A s \in DOMAIN sock : EndOf(s) = <<c, i>> => Holds(conn'[c][i], sock[s].peek)
        /\ \A l \in DOMAIN backlog : \A k \in 1 .. Len(backlog[l]) :
             backlog[l][k] = <<c, i>> => Holds(conn'[c][i], << >>)
    <2>1. <<c, i>> # NoEnd
      BY <1>2, SocketsAssumption DEF TypeOK, NoEnd
    <2> QED  BY <1>2, <1>3, <2>1 DEF Streams, Waiting, Kept
  <1>7. Streams' /\ Waiting' /\ Apart' /\ Peered'
    <2>1. SocksHold(c, i) /\ QueuesHold(c, i)
      BY <1>1, <1>5, <1>6 DEF SocksHold, QueuesHold
    <2> QED  BY Zenon, <1>1, <1>2, <1>3, <2>1, BytesMove
  <1>8. Parked'
    <2>1. ASSUME call.op = "recv"
          PROVE  conn'[call.held[1]][call.held[2]].order = conn[call.held[1]][call.held[2]].order
      <3>1. /\ call.held \in Nat \X Nat /\ call.held # NoEnd /\ call.s \in DOMAIN sock
            /\ EndOf(call.s) = call.held
        BY <2>1, <1>2, CallKinds DEF Parked, EndOf, TypeOK
      <3>2. Live(conn, call.held)
        BY <3>1, <1>2 DEF Streams
      <3> QED  BY <3>1, <3>2, <1>3 DEF EndChanges, SameBytes, Live
    <2> QED  BY Zenon, <2>1, <1>1, <1>2 DEF Parked
  <1>9. Listeners' /\ Udp' /\ Image' /\ ListenersSurvive'
    BY Zenon, <1>1, <1>2, ListenersStay, UdpStays, ImageStays DEF ListenersKeep, UdpKeeps, Listeners
  <1> QED  BY <1>4, <1>7, <1>8, <1>9 DEF IInv

\* The fields a stream call does not touch.
SameRest(r, q) ==
    /\ r.peer = q.peer /\ r.shut = q.shut /\ r.udp = q.udp /\ r.opts = q.opts
    /\ r.listener = q.listener /\ r.bound = q.bound /\ r.path = q.path
    /\ r.acceptor = q.acceptor
\* What a parked stream call holds, and what it puts back.
LEMMA HeldFacts ==
  ASSUME IInv, call.op \in {"send", "recv"}
  PROVE  /\ TypeOK /\ Streams /\ Waiting /\ Apart /\ Parked /\ Peered /\ Listeners
         /\ Udp /\ Image /\ ListenersSurvive
         /\ call.s \in DOMAIN sock /\ call.held \in Nat \X Nat /\ call.held # NoEnd
         /\ EndOf(call.s) = call.held /\ sock[call.s].stream = NoEnd
         /\ Live(conn, call.held) /\ Kept(conn, call.held, sock[call.s].peek)
         /\ \A t \in DOMAIN sock : t # call.s => EndOf(t) = sock[t].stream
         /\ Returned \in Inner /\ Returned.stream = call.held
         /\ Returned.peek = sock[call.s].peek /\ SameRest(Returned, sock[call.s])
  <1>1. /\ TypeOK /\ Streams /\ Waiting /\ Apart /\ Parked /\ Peered /\ Listeners
        /\ Udp /\ Image /\ ListenersSurvive
    BY DEF IInv
  <1>2. /\ call.s \in DOMAIN sock /\ call.held \in Nat \X Nat /\ call.held # NoEnd
        /\ sock[call.s].stream = NoEnd /\ EndOf(call.s) = call.held
        /\ call.was \in BOOLEAN /\ sock[call.s] \in Inner
    BY <1>1, CallKinds DEF Parked, EndOf, TypeOK
  <1>3. Live(conn, call.held) /\ Kept(conn, call.held, sock[call.s].peek)
    BY <1>1, <1>2 DEF Streams
  <1>4. \A t \in DOMAIN sock : t # call.s => EndOf(t) = sock[t].stream
    BY DEF EndOf
  <1>5. Returned = [sock[call.s] EXCEPT !.stream = call.held, !.nonblock = call.was]
    BY <1>2 DEF Returned, PutBack
  <1>6. /\ Returned \in Inner /\ Returned.stream = call.held
        /\ Returned.peek = sock[call.s].peek /\ SameRest(Returned, sock[call.s])
    <2> DEFINE q == sock[call.s]
               h == call.held
               w == call.was
    <2>1. q \in Inner /\ h \in Nat \X Nat /\ w \in BOOLEAN
      BY <1>2
    <2>2. Returned = [q EXCEPT !.stream = h, !.nonblock = w]
      BY <1>5
    <2> HIDE DEF q, h, w
    <2>3. [q EXCEPT !.stream = h, !.nonblock = w] \in Inner
      BY Zenon, <2>1, ReturnTypes
    <2>4. Returned.stream = h
      BY <2>1, <2>2 DEF Inner
    <2>5. Returned.peek = q.peek /\ SameRest(Returned, q)
      BY <2>1, <2>2 DEF Inner, SameRest
    <2> QED  BY <2>2, <2>3, <2>4, <2>5 DEF q, h
  <1> QED  BY <1>1, <1>2, <1>3, <1>4, <1>6

\* A stream call returns: the rest of the step, given what it did to the bytes.
LEMMA CallReturns ==
  ASSUME IInv, phase = "running", call.op \in {"send", "recv"}, NEW r \in Inner,
         Update(call.s, r), call' = Idle, UNCHANGED <<program, backlog, lost, frozen>>,
         r.stream = call.held, SameRest(r, sock[call.s]),
         NEW c \in DOMAIN conn, NEW i \in {1, 2}, EndChanges(c, i),
         \A t \in DOMAIN sock : t # call.s /\ EndOf(t) = <<c, i>> =>
             Holds(conn'[c][i], sock[t].peek),
         QueuesHold(c, i),
         call.held = <<c, i>> => Holds(conn'[c][i], r.peek),
         call.held # <<c, i>> => r.peek = sock[call.s].peek
  PROVE  IInv'
  <1>1. /\ TypeOK /\ Streams /\ Waiting /\ Apart /\ Parked /\ Peered /\ Listeners
        /\ Udp /\ Image /\ ListenersSurvive
        /\ call.s \in DOMAIN sock /\ EndOf(call.s) = call.held /\ call.held # NoEnd
        /\ \A t \in DOMAIN sock : t # call.s => EndOf(t) = sock[t].stream
    BY Zenon, HeldFacts
  <1>2. /\ sock' \in [DOMAIN sock' -> Inner] /\ DOMAIN sock' = DOMAIN sock
        /\ sock'[call.s] = r /\ \A t \in DOMAIN sock : t # call.s => sock'[t] = sock[t]
    BY <1>1, Updates
  <1>3. call'.op = "none" /\ call' \in Calls
    BY DEF Idle, Calls
  <1>4. TypeOK'
    BY <1>1, <1>2, <1>3 DEF TypeOK, EndChanges, frozen
  <1>5. \A t \in DOMAIN sock : EndOf(t)' = EndOf(t)
    BY <1>1, <1>2, <1>3 DEF EndOf
  <1>6. SocksHold(c, i)
    <2> SUFFICES ASSUME NEW t \in DOMAIN sock
                 PROVE  /\ EndOf(t)' = EndOf(t) /\ sock'[t].peer = sock[t].peer
                        /\ sock'[t].shut = sock[t].shut
                        /\ EndOf(t) = <<c, i>> => Holds(conn'[c][i], sock'[t].peek)
                        /\ EndOf(t) # NoEnd /\ EndOf(t) # <<c, i>> =>
                              sock'[t].peek = sock[t].peek
      BY Zenon DEF SocksHold
    <2>1. CASE t = call.s
      BY <2>1, <1>1, <1>2, <1>5 DEF SameRest
    <2>2. CASE t # call.s
      BY <2>2, <1>1, <1>2, <1>5
    <2> QED  BY Zenon, <2>1, <2>2
  <1>7. Streams' /\ Waiting' /\ Apart' /\ Peered'
    BY <1>1, <1>2, <1>6, BytesMove
  <1>8. Parked'
    BY Zenon, <1>3 DEF Parked
  <1>9. Listeners'
    BY <1>1, <1>2, <1>3, ListenersStay DEF ListenersKeep, SameRest
  <1>10. Udp' /\ Image' /\ ListenersSurvive'
    BY SMTT(30), <1>1, <1>2, UdpStays, ImageStays DEF UdpKeeps, SameRest
  <1> QED  BY <1>4, <1>7, <1>8, <1>9, <1>10 DEF IInv

\* The return of a send, which puts the stream back, keeps the invariant.
LEMMA SendReturnsStep ==
  ASSUME IInv, SendReturns PROVE IInv'
  <1> DEFINE c == call.held[1]
             to == Other(call.held[2])
  <1>1. /\ phase = "running" /\ call.op = "send" /\ Update(call.s, Returned) /\ call' = Idle
        /\ UNCHANGED <<program, backlog, lost, frozen>>
        /\ conn' = conn \/ conn' = Delivered(c, to)
    BY Zenon DEF SendReturns
  <1>2. /\ TypeOK /\ Streams /\ Waiting /\ Live(conn, call.held) /\ call.held \in Nat \X Nat
        /\ call.s \in DOMAIN sock /\ EndOf(call.s) = call.held
        /\ Kept(conn, call.held, sock[call.s].peek)
        /\ Returned \in Inner /\ Returned.stream = call.held
        /\ Returned.peek = sock[call.s].peek /\ SameRest(Returned, sock[call.s])
    BY Zenon, <1>1, HeldFacts
  <1>3. c \in DOMAIN conn /\ to \in {1, 2}
    BY <1>2 DEF Live, Other
  <1> HIDE DEF c, to
  <1>4. EndChanges(c, to) /\ \A p : Holds(conn[c][to], p) => Holds(conn'[c][to], p)
    <2>1. CASE conn' = conn
      BY <2>1, <1>2 DEF EndChanges, SameBytes, TypeOK
    <2>2. CASE conn' = Delivered(c, to)
      BY Zenon, <2>2, <1>2, <1>3, ByteArrives
    <2> QED  BY <2>1, <2>2, <1>1
  <1>5. <<c, to>> # NoEnd
    BY <1>2, <1>3, SocketsAssumption DEF TypeOK, NoEnd
  <1>6. /\ \A t \in DOMAIN sock : EndOf(t) = <<c, to>> => Holds(conn'[c][to], sock[t].peek)
        /\ QueuesHold(c, to)
    <2>1. Streams /\ Waiting /\ <<c, to>> # NoEnd /\ <<c, to>>[1] = c /\ <<c, to>>[2] = to
          /\ \A p : Holds(conn[c][to], p) => Holds(conn'[c][to], p)
      BY Zenon, <1>2, <1>4, <1>5
    <2>2. \A t \in DOMAIN sock : EndOf(t) = <<c, to>> => Holds(conn'[c][to], sock[t].peek)
      BY ONLY <2>1 DEF Streams, Kept
    <2>3. QueuesHold(c, to)
      BY ONLY <2>1 DEF Waiting, Kept, QueuesHold
    <2> QED  BY Zenon, <2>2, <2>3
  <1>7. call.held = <<c, to>> => Holds(conn'[c][to], Returned.peek)
    BY Zenon, <1>2, <1>6
  <1> QED  BY <1>1, <1>2, <1>3, <1>4, <1>6, <1>7, CallReturns

\* Recording what the guest has read leaves an end with the same box.
LEMMA TakenTypes ==
  ASSUME NEW q \in EndRec, NEW g \in Seq(Nat)
  PROVE  LET r == [q EXCEPT !.got = g]
         IN  /\ r \in EndRec /\ r.who = q.who /\ r.open = q.open /\ r.addr = q.addr
             /\ r.order = q.order /\ r.got = g /\ r.box = q.box /\ r.sent = q.sent
  BY Zenon DEF EndRec

\* Taking bytes out of the box of an end changes nothing else of it.
LEMMA RestTypes ==
  ASSUME NEW q \in EndRec, NEW b \in Seq(Nat)
  PROVE  LET r == [q EXCEPT !.box = b]
         IN  /\ r \in EndRec /\ r.who = q.who /\ r.open = q.open /\ r.addr = q.addr
             /\ r.order = q.order /\ r.got = q.got /\ r.box = b /\ r.sent = q.sent
  BY Zenon DEF EndRec

\* Recording how the guest read an end changes nothing else of it.
LEMMA OrderTypes ==
  ASSUME NEW q \in EndRec, NEW o \in {"kept", "past", "stale"}
  PROVE  LET r == [q EXCEPT !.order = o]
         IN  /\ r \in EndRec /\ r.who = q.who /\ r.open = q.open /\ r.addr = q.addr
             /\ r.order = o /\ r.got = q.got /\ r.box = q.box /\ r.sent = q.sent
  BY Zenon DEF EndRec

\* A recv served from the peeked bytes keeps the invariant.
LEMMA RecvPeekedStep ==
  ASSUME IInv, NEW s, NEW n \in 1 .. MaxBytes, RecvPeeked(s, n) PROVE IInv'
  <1> DEFINE b == FirstOf(sock[s].peek, n)
             r == [sock[s] EXCEPT !.peek = AfterFirst(@, n)]
  <1>1. /\ Free /\ s \in DOMAIN sock /\ Update(s, r)
        /\ conn' = IF sock[s].stream = NoEnd THEN conn ELSE Taken(conn, sock[s].stream, b)
        /\ UNCHANGED <<program, backlog, call, lost, frozen>>
    BY DEF RecvPeeked
  <1>2. /\ TypeOK /\ Streams /\ Waiting /\ Apart /\ Parked /\ Peered /\ Listeners
        /\ Udp /\ Image /\ ListenersSurvive /\ phase = "running" /\ call.op = "none"
        /\ \A t \in DOMAIN sock : EndOf(t) = sock[t].stream
    BY <1>1, FreeFacts
  <1>3. sock[s] \in Inner /\ sock[s].peek \in Seq(Nat) /\ n \in Nat
    BY <1>1, <1>2, SocketsAssumption DEF TypeOK, Inner
  <1>4. AfterFirst(sock[s].peek, n) \in Seq(Nat) /\ b \in Seq(Nat)
    BY Zenon, <1>3, Cut
  <1>5. r \in Inner
    BY Zenon, <1>3, <1>4 DEF Inner
  <1>6. /\ r.stream = sock[s].stream /\ r.peek = AfterFirst(sock[s].peek, n)
        /\ SameRest(r, sock[s])
    BY <1>3 DEF Inner, SameRest
  <1> HIDE DEF r, b
  <1>7. /\ sock' \in [DOMAIN sock' -> Inner] /\ DOMAIN sock' = DOMAIN sock
        /\ sock'[s] = r /\ \A t \in DOMAIN sock : t # s => sock'[t] = sock[t]
    BY <1>1, <1>2, <1>5, Updates
  <1>8. \A t \in DOMAIN sock : EndOf(t)' = EndOf(t)
    BY <1>1, <1>2, <1>6, <1>7 DEF EndOf
  <1>9. Listeners' /\ Udp' /\ Image' /\ ListenersSurvive' /\ Parked'
    <2>1. ListenersKeep
      BY <1>1, <1>6, <1>7 DEF ListenersKeep, SameRest
    <2>2. UdpKeeps
      BY <1>6, <1>7 DEF UdpKeeps, SameRest
    <2>3. Parked'
      BY Zenon, <1>1, <1>2 DEF Parked
    <2> QED  BY Zenon, <1>1, <1>2, <2>1, <2>2, <2>3, ListenersStay, UdpStays, ImageStays
  <1>10. CASE sock[s].stream = NoEnd
    <2>1. conn' = conn
      BY <1>1, <1>10
    <2>2. SocksKeep({}) /\ QueuesKeep({})
      BY <1>1, <1>2, <1>6, <1>7, <1>8, <1>10 DEF SocksKeep, QueuesKeep, SameRest
    <2>3. Streams' /\ Waiting' /\ Apart' /\ Peered'
      BY <1>1, <1>2, <2>1, <2>2, SameConns, OwnersKeep
    <2>4. TypeOK'
      BY <1>1, <1>2, <1>7, <2>1 DEF TypeOK, frozen
    <2> QED  BY <2>3, <2>4, <1>9 DEF IInv
  <1>11. CASE sock[s].stream # NoEnd
    <2> DEFINE e == sock[s].stream
               c == e[1]
               i == e[2]
               q == conn[c][i]
               x == [q EXCEPT !.got = @ \o b]
    <2>1. /\ Live(conn, e) /\ Kept(conn, e, sock[s].peek) /\ e \in Nat \X Nat
          /\ EndOf(s) = e /\ conn' = Taken(conn, e, b)
      <3>1. EndOf(s) = e /\ conn' = Taken(conn, e, b)
        BY Zenon, <1>1, <1>2, <1>11
      <3>2. Live(conn, e) /\ Kept(conn, e, sock[s].peek)
        BY Zenon, <3>1, <1>1, <1>2, <1>11 DEF Streams
      <3>3. e \in Nat \X Nat
        BY Zenon, <1>3 DEF Inner
      <3> QED  BY Zenon, <3>1, <3>2, <3>3
    <2>2. c \in DOMAIN conn /\ i \in {1, 2} /\ e = <<c, i>> /\ q \in EndRec
      BY Zenon, <2>1, <1>2, LiveEnd
    <2>3. EndBecomes(c, i, x)
      BY Zenon, <2>1, <2>2, <1>2 DEF Taken, EndBecomes, TypeOK, EndRec
    <2>4. Holds(q, sock[s].peek)
      BY Zenon, <2>1 DEF Kept
    <2>5. q.got \o b \in Seq(Nat)
      <3>1. \A u, v \in Seq(Nat) : u \o v \in Seq(Nat)
        OBVIOUS
      <3>2. q.got \in Seq(Nat)
        BY Zenon, <2>2 DEF EndRec
      <3> QED  BY Zenon, <3>1, <3>2, <1>4
    <2>6. /\ x \in EndRec /\ x.who = q.who /\ x.open = q.open /\ x.addr = q.addr
          /\ x.order = q.order /\ x.got = q.got \o b /\ x.box = q.box /\ x.sent = q.sent
      BY ZenonT(30), <2>2, <2>5, TakenTypes
    <2> HIDE DEF x
    <2>7. EndChanges(c, i) /\ conn'[c][i] = x
      BY Zenon, <2>2, <2>3, <2>6, <1>2, EndPut
    <2>8. Holds(x, r.peek)
      BY ZenonT(30), <2>4, <2>6, <1>3, <1>6, Draining DEF Holds, b
    <2>9. SocksHold(c, i)
      <3> SUFFICES ASSUME NEW t \in DOMAIN sock
                   PROVE  /\ EndOf(t)' = EndOf(t) /\ sock'[t].peer = sock[t].peer
                          /\ sock'[t].shut = sock[t].shut
                          /\ EndOf(t) = <<c, i>> => Holds(conn'[c][i], sock'[t].peek)
                          /\ EndOf(t) # NoEnd /\ EndOf(t) # <<c, i>> =>
                                sock'[t].peek = sock[t].peek
        BY Zenon DEF SocksHold
      <3>1. CASE t = s
        BY Zenon, <3>1, <2>1, <2>2, <2>7, <2>8, <1>6, <1>7, <1>8 DEF SameRest
      <3>2. CASE t # s
        <4>1. EndOf(t) # e
          BY Zenon, <3>2, <2>1, <1>1, <1>2, <1>11 DEF Apart
        <4> QED  BY Zenon, <3>2, <4>1, <2>2, <1>7, <1>8
      <3> QED  BY Zenon, <3>1, <3>2
    <2>10. QueuesHold(c, i)
      BY Zenon, <2>1, <2>2, <1>1, <1>2, OwnedNotQueued
    <2>11. Streams' /\ Waiting' /\ Apart' /\ Peered'
      <3> HIDE DEF c, i
      <3> QED  BY <1>1, <1>2, <1>7, <2>2, <2>7, <2>9, <2>10, BytesMove
    <2>12. TypeOK'
      BY Zenon, <1>1, <1>2, <1>7, <2>7 DEF TypeOK, EndChanges, frozen
    <2> QED  BY <2>11, <2>12, <1>9 DEF IInv
  <1> QED  BY <1>10, <1>11

\* A receive takes the stream; one that reads past peek_buf gives up the order.
LEMMA RecvStep ==
  ASSUME IInv, NEW s, NEW peek \in BOOLEAN, NEW dontwait \in BOOLEAN, NEW n \in Nat,
         Recv(s, peek, dontwait, n), peek => sock[s].peek = << >>
  PROVE  IInv'
  <1> DEFINE r == [sock[s] EXCEPT !.stream = NoEnd, !.nonblock = @ \/ dontwait]
             e == sock[s].stream
             c == e[1]
             i == e[2]
             q == conn[c][i]
             o == IF q.order = "kept" THEN "past" ELSE q.order
             x == [q EXCEPT !.order = o]
  <1>1. /\ Free /\ s \in DOMAIN sock /\ sock[s].stream # NoEnd /\ Update(s, r)
        /\ call' = [op |-> "recv", s |-> s, held |-> e, was |-> sock[s].nonblock,
                    peek |-> peek, n |-> n]
        /\ conn' = IF sock[s].peek = << >> THEN conn
                   ELSE [conn EXCEPT ![c][i].order = IF @ = "kept" THEN "past" ELSE @]
        /\ UNCHANGED <<program, backlog, lost, frozen>>
    BY Zenon DEF Recv, Take, Streaming
  <1>2. /\ TypeOK /\ Streams /\ Waiting /\ Apart /\ Parked /\ Peered /\ Listeners
        /\ Udp /\ Image /\ ListenersSurvive /\ phase = "running" /\ call.op = "none"
        /\ \A t \in DOMAIN sock : EndOf(t) = sock[t].stream
    BY Zenon, <1>1, FreeFacts
  <1>3. sock[s] \in Inner /\ NoEnd \in Nat \X Nat /\ s \in Sock
    BY Zenon, <1>1, <1>2 DEF TypeOK, NoEnd
  <1>4. r \in Inner
    BY Zenon, <1>3 DEF Inner
  <1>5. /\ r.stream = NoEnd /\ r.peek = sock[s].peek /\ r.peer = sock[s].peer
        /\ r.shut = sock[s].shut /\ r.udp = sock[s].udp
        /\ r.opts = sock[s].opts /\ r.listener = sock[s].listener /\ r.bound = sock[s].bound
        /\ r.acceptor = sock[s].acceptor /\ r.path = sock[s].path
    BY <1>3 DEF Inner
  <1> HIDE DEF r
  <1>6. /\ sock' \in [DOMAIN sock' -> Inner] /\ DOMAIN sock' = DOMAIN sock
        /\ sock'[s] = r /\ \A t \in DOMAIN sock : t # s => sock'[t] = sock[t]
    BY Zenon, <1>1, <1>2, <1>4, Updates
  <1>7. /\ call' \in Calls /\ call'.op = "recv" /\ call'.s = s /\ call'.held = e
        /\ call'.peek = peek
    <2>1. e \in Nat \X Nat /\ sock[s].nonblock \in BOOLEAN
      BY SMTT(30), <1>3 DEF Inner
    <2> QED  BY Zenon, <2>1, <1>1, <1>3 DEF Calls
  <1>8. \A t \in DOMAIN sock : EndOf(t)' = EndOf(t)
    BY ZenonT(30), <1>1, <1>2, <1>5, <1>6, <1>7 DEF EndOf
  <1>9. /\ Live(conn, e) /\ Holds(q, sock[s].peek) /\ e \in Nat \X Nat /\ EndOf(s) = e
    BY ZenonT(30), <1>1, <1>2, <1>3 DEF Streams, Inner, Kept
  <1>10. c \in DOMAIN conn /\ i \in {1, 2} /\ e = <<c, i>> /\ q \in EndRec
    BY Zenon, <1>9, <1>2, LiveEnd
  <1>11. /\ EndChanges(c, i) /\ Holds(conn'[c][i], sock[s].peek)
         /\ conn'[c][i].order = "kept" => sock[s].peek = << >>
    <2>1. CASE sock[s].peek = << >>
      BY Zenon, <2>1, <1>1, <1>2, <1>9 DEF EndChanges, SameBytes, TypeOK
    <2>2. CASE sock[s].peek # << >>
      <3>1. EndBecomes(c, i, x)
        BY Zenon, <2>2, <1>1, <1>2, <1>10 DEF EndBecomes, TypeOK, EndRec
      <3>2. o \in {"kept", "past", "stale"} /\ o # "kept"
        BY Zenon, <1>10 DEF EndRec
      <3>3. /\ x \in EndRec /\ x.who = q.who /\ x.open = q.open /\ x.addr = q.addr
            /\ x.order = o /\ x.got = q.got /\ x.box = q.box /\ x.sent = q.sent
        BY ZenonT(30), <3>2, <1>10, OrderTypes
      <3>4. Holds(x, sock[s].peek)
        <4> HIDE DEF x
        <4>1. Ordered(q.order, q.got, sock[s].peek, q.box, q.sent)
          BY Zenon, <1>9 DEF Holds
        <4>2. Ordered(o, q.got, sock[s].peek, q.box, q.sent)
          BY Zenon, <4>1, <3>2, InOrderComplete DEF Ordered
        <4> QED  BY Zenon, <3>3, <4>2 DEF Holds
      <3> HIDE DEF x, o
      <3>5. EndChanges(c, i) /\ conn'[c][i] = x
        BY Zenon, <3>1, <3>3, <1>2, <1>10, EndPut
      <3> QED  BY Zenon, <3>2, <3>3, <3>4, <3>5
    <2> QED  BY Zenon, <2>1, <2>2
  <1>12. SocksHold(c, i)
    <2> SUFFICES ASSUME NEW t \in DOMAIN sock
                 PROVE  /\ EndOf(t)' = EndOf(t) /\ sock'[t].peer = sock[t].peer
                        /\ sock'[t].shut = sock[t].shut
                        /\ EndOf(t) = <<c, i>> => Holds(conn'[c][i], sock'[t].peek)
                        /\ EndOf(t) # NoEnd /\ EndOf(t) # <<c, i>> =>
                              sock'[t].peek = sock[t].peek
      BY Zenon DEF SocksHold
    <2>1. CASE t = s
      BY Zenon, <2>1, <1>5, <1>6, <1>8, <1>9, <1>10, <1>11
    <2>2. CASE t # s
      <3>1. EndOf(t) # e
        BY Zenon, <2>2, <1>1, <1>2, <1>9 DEF Apart
      <3> QED  BY Zenon, <2>2, <3>1, <1>6, <1>8, <1>10
    <2> QED  BY Zenon, <2>1, <2>2
  <1>13. QueuesHold(c, i)
    BY Zenon, <1>1, <1>2, <1>9, <1>10, OwnedNotQueued
  <1>14. Streams' /\ Waiting' /\ Apart' /\ Peered'
    <2> HIDE DEF c, i
    <2> QED  BY <1>1, <1>2, <1>6, <1>10, <1>11, <1>12, <1>13, BytesMove
  <1>15. TypeOK'
    BY Zenon, <1>1, <1>2, <1>6, <1>7, <1>11 DEF TypeOK, EndChanges, frozen
  <1>16. Parked'
    <2>1. sock'[call'.s].stream = NoEnd /\ call'.held # NoEnd
          /\ sock'[call'.s].peek = sock[s].peek
      BY Zenon, <1>1, <1>5, <1>6, <1>7
    <2>2. conn'[call'.held[1]][call'.held[2]].order = "kept" => sock'[call'.s].peek = << >>
      BY Zenon, <2>1, <1>7, <1>11
    <2> QED  BY Zenon, <2>1, <2>2, <1>7 DEF Parked
  <1>17. Listeners'
    BY ZenonT(30), <1>1, <1>2, <1>5, <1>6, <1>7, ListenersStay DEF ListenersKeep
  <1>18. Udp' /\ Image' /\ ListenersSurvive'
    BY Zenon, <1>1, <1>2, <1>5, <1>6, UdpStays, ImageStays DEF UdpKeeps
  <1> QED  BY Zenon, <1>14, <1>15, <1>16, <1>17, <1>18 DEF IInv

\* Replacing the peeked bytes changes nothing else of the socket.
LEMMA StashTypes ==
  ASSUME NEW q \in Inner, NEW b \in Seq(Nat)
  PROVE  LET r == [q EXCEPT !.peek = b]
         IN  /\ r \in Inner /\ r.stream = q.stream /\ r.peek = b /\ SameRest(r, q)
  BY Zenon DEF Inner, SameRest

\* The update that drops bytes from a box, as one replacement of the end.
LEMMA RestPut ==
  ASSUME TypeOK, NEW c \in DOMAIN conn, NEW i \in {1, 2}, NEW k,
         conn' = [conn EXCEPT ![c][i].box = AfterFirst(@, k)]
  PROVE  EndBecomes(c, i, [conn[c][i] EXCEPT !.box = AfterFirst(conn[c][i].box, k)])
  BY DEF EndBecomes, TypeOK, EndRec

\* The update that delivers bytes from a box, as one replacement of the end.
LEMMA TakenPut ==
  ASSUME TypeOK, NEW c \in DOMAIN conn, NEW i \in {1, 2}, NEW k, NEW b, NEW e,
         e = <<c, i>>, conn' = Taken([conn EXCEPT ![c][i].box = AfterFirst(@, k)], e, b)
  PROVE  EndBecomes(c, i, [[conn[c][i] EXCEPT !.box = AfterFirst(conn[c][i].box, k)]
                               EXCEPT !.got = conn[c][i].got \o b])
  <1> DEFINE y == [conn[c][i] EXCEPT !.box = AfterFirst(conn[c][i].box, k)]
             rest == [conn EXCEPT ![c][i].box = AfterFirst(@, k)]
             z == [y EXCEPT !.got = conn[c][i].got \o b]
  <1>1. /\ conn \in [DOMAIN conn -> [{1, 2} -> EndRec]] /\ conn[c] \in [{1, 2} -> EndRec]
        /\ conn[c][i] \in EndRec
    BY DEF TypeOK
  <1>2. /\ DOMAIN rest = DOMAIN conn /\ rest = [d \in DOMAIN conn |-> rest[d]]
        /\ DOMAIN rest[c] = {1, 2} /\ rest[c] = [j \in {1, 2} |-> rest[c][j]]
        /\ rest[c][i] = y /\ \A j \in {1, 2} : j # i => rest[c][j] = conn[c][j]
        /\ \A d \in DOMAIN conn : d # c => rest[d] = conn[d]
    BY Zenon, <1>1
  <1>3. y.got = conn[c][i].got
    BY <1>1 DEF EndRec
  <1>4. conn' = [rest EXCEPT ![c][i].got = @ \o b]
    BY DEF Taken
  <1> HIDE DEF rest, y
  <1>5. conn' = [rest EXCEPT ![c][i] = z]
    BY Zenon, <1>2, <1>3, <1>4
  <1> HIDE DEF z
  <1>6. conn' = [conn EXCEPT ![c][i] = z]
    <2> DEFINE was == conn[c]
               now == rest[c]
    <2>1. [now EXCEPT ![i] = z] = [was EXCEPT ![i] = z]
      <3>1. /\ now = [j \in {1, 2} |-> now[j]] /\ was = [j \in {1, 2} |-> was[j]]
            /\ \A j \in {1, 2} : j # i => now[j] = was[j]
        BY <1>1, <1>2
      <3> HIDE DEF now, was
      <3> QED  BY Zenon, <3>1
    <2> DEFINE v == [was EXCEPT ![i] = z]
    <2>2. conn' = [rest EXCEPT ![c] = v]
      BY Zenon, <1>5, <2>1
    <2> HIDE DEF v
    <2>3. conn' = [conn EXCEPT ![c] = v]
      BY Zenon, <1>1, <1>2, <2>2
    <2> QED  BY Zenon, <2>3 DEF v
  <1> QED  BY Zenon, <1>6 DEF EndBecomes, z, y

\* A receive returns, and the stream goes back.
LEMMA RecvReturnsStep ==
  ASSUME IInv, RecvReturns PROVE IInv'
  <1> DEFINE c == call.held[1]
             i == call.held[2]
             q == conn[c][i]
             b == FirstOf(q.box, call.n)
             a == AfterFirst(q.box, call.n)
             y == [q EXCEPT !.box = a]
             z == [y EXCEPT !.got = q.got \o b]
             x == IF call.peek THEN y ELSE z
             r == IF call.peek THEN Stash(Returned, b) ELSE Returned
  <1>1. /\ phase = "running" /\ call.op = "recv" /\ Update(call.s, r) /\ call' = Idle
        /\ UNCHANGED <<program, backlog, lost, frozen>>
        /\ conn' = IF call.peek THEN [conn EXCEPT ![c][i].box = AfterFirst(@, call.n)]
                   ELSE Taken([conn EXCEPT ![c][i].box = AfterFirst(@, call.n)], call.held, b)
    BY Zenon DEF RecvReturns
  <1>2. /\ TypeOK /\ Streams /\ Waiting /\ Apart /\ Parked /\ Live(conn, call.held)
        /\ call.held \in Nat \X Nat /\ call.held # NoEnd
        /\ call.s \in DOMAIN sock /\ EndOf(call.s) = call.held
        /\ Kept(conn, call.held, sock[call.s].peek)
        /\ Returned \in Inner /\ Returned.stream = call.held
        /\ Returned.peek = sock[call.s].peek /\ SameRest(Returned, sock[call.s])
    BY Zenon, <1>1, HeldFacts
  <1>3. /\ c \in DOMAIN conn /\ i \in {1, 2} /\ call.held = <<c, i>> /\ q \in EndRec
        /\ Holds(q, sock[call.s].peek)
    BY Zenon, <1>2, LiveEnd DEF Kept
  <1>4. call.n \in Nat /\ call.peek \in BOOLEAN
    BY Zenon, <1>1, <1>2, CallKinds
  <1>5. q.box \in Seq(Nat) /\ q.got \in Seq(Nat)
    BY Zenon, <1>3 DEF EndRec
  <1>6. a \in Seq(Nat) /\ b \in Seq(Nat) /\ q.got \o b \in Seq(Nat)
    <2>1. a \in Seq(Nat) /\ b \in Seq(Nat)
      BY Zenon, <1>4, <1>5, Cut
    <2>2. \A u, v \in Seq(Nat) : u \o v \in Seq(Nat)
      OBVIOUS
    <2> QED  BY Zenon, <2>1, <2>2, <1>5
  <1>7. /\ call.peek => sock[call.s].peek = << >>
        /\ q.order = "kept" => sock[call.s].peek = << >>
    BY Zenon, <1>1, <1>2 DEF Parked
  <1>8. EndBecomes(c, i, x)
    <2>1. CASE call.peek
      BY Zenon, <2>1, <1>1, <1>2, <1>3, RestPut
    <2>2. CASE ~call.peek
      <3>1. EndBecomes(c, i, z)
        <4> HIDE DEF c, i, b
        <4> QED BY Zenon, <2>2, <1>1, <1>2, <1>3, TakenPut
      <3> QED  BY Zenon, <2>2, <3>1
    <2> QED  BY Zenon, <2>1, <2>2
  <1>9. /\ y \in EndRec /\ y.who = q.who /\ y.open = q.open /\ y.addr = q.addr
        /\ y.order = q.order /\ y.got = q.got /\ y.box = a /\ y.sent = q.sent
    BY ZenonT(30), <1>3, <1>6, RestTypes
  <1> HIDE DEF y
  <1>10. /\ z \in EndRec /\ z.who = y.who /\ z.open = y.open /\ z.addr = y.addr
         /\ z.order = y.order /\ z.got = q.got \o b /\ z.box = y.box /\ z.sent = y.sent
    BY Zenon, <1>6, <1>9, TakenTypes
  <1> HIDE DEF z
  <1>11. /\ r \in Inner /\ r.stream = call.held /\ SameRest(r, sock[call.s])
         /\ r.peek = IF call.peek THEN << >> \o b ELSE sock[call.s].peek
    <2>1. CASE call.peek
      <3>1. Returned.peek = << >> /\ << >> \o b = b
        <4>1. \A u \in Seq(Nat) : << >> \o u = u
          OBVIOUS
        <4> QED  BY Zenon, <4>1, <2>1, <1>2, <1>6, <1>7
      <3>2. r = [Returned EXCEPT !.peek = << >> \o b]
        BY <2>1, <3>1 DEF Stash
      <3>3. << >> \o b \in Seq(Nat)
        BY Zenon, <3>1, <1>6
      <3>4. /\ r \in Inner /\ r.stream = Returned.stream /\ r.peek = << >> \o b
            /\ SameRest(r, Returned)
        <4> HIDE DEF r
        <4> QED  BY Zenon, <3>2, <3>3, <1>2, StashTypes
      <3> QED  BY Zenon, <2>1, <3>4, <1>2 DEF SameRest
    <2>2. CASE ~call.peek
      BY Zenon, <2>2, <1>2
    <2> QED  BY Zenon, <2>1, <2>2
  <1>12. Holds(x, r.peek)
    <2>1. CASE call.peek
      <3>1. Ordered(q.order, q.got, << >>, q.box, q.sent)
        BY Zenon, <2>1, <1>3, <1>7 DEF Holds
      <3>2. Ordered(q.order, q.got, << >> \o b, a, q.sent)
        BY Zenon, <3>1, <1>4, Peeking
      <3> QED  BY Zenon, <2>1, <3>2, <1>9, <1>11 DEF Holds
    <2>2. CASE ~call.peek
      <3>1. Ordered(q.order, q.got \o b, sock[call.s].peek, a, q.sent)
        BY Zenon, <1>3, <1>4, <1>7, Reading DEF Holds
      <3> QED  BY Zenon, <2>2, <3>1, <1>9, <1>10, <1>11 DEF Holds
    <2> QED  BY Zenon, <2>1, <2>2
  <1>13. x \in EndRec /\ x.who = q.who /\ x.open = q.open /\ x.addr = q.addr
    BY Zenon, <1>9, <1>10
  <1> HIDE DEF x, r
  <1>14. EndChanges(c, i) /\ conn'[c][i] = x
    BY ZenonT(30), <1>2, <1>3, <1>8, <1>13, EndPut
  <1>15. \A t \in DOMAIN sock : t # call.s => EndOf(t) # <<c, i>>
    BY ZenonT(30), <1>2, <1>3 DEF Apart
  <1>16. QueuesHold(c, i)
    BY Zenon, <1>2, <1>3, OwnedNotQueued
  <1> HIDE DEF c, i
  <1> QED  BY Zenon, <1>1, <1>2, <1>3, <1>11, <1>12, <1>14, <1>15, <1>16, CallReturns

----------------------------------------------------------------------------
(* A connection is made.                                                   *)

ConnGrows(c) ==
    /\ c \notin DOMAIN conn /\ c \in 1 .. MaxConns
    /\ DOMAIN conn' = DOMAIN conn \cup {c}
    /\ conn' \in [DOMAIN conn' -> [{1, 2} -> EndRec]]
    /\ \A d \in DOMAIN conn : conn'[d] = conn[d]
\* The end e of the new connection c is the stream of s.
Joins(s, c, e) ==
    /\ e \in {<<c, 1>>, <<c, 2>>} /\ Live(conn', e) /\ Kept(conn', e, sock'[s].peek)
    /\ ~Unix => sock'[s].peer = conn'[c][Other(e[2])].addr
\* Sockets keep their ends, and new ones may have one of the connection c.
SocksGrow(c) ==
    /\ \A s \in DOMAIN sock' :
          \/ /\ s \in DOMAIN sock /\ EndOf(s)' = EndOf(s)
             /\ EndOf(s) # NoEnd => sock'[s].peek = sock[s].peek
             /\ sock'[s].peer = sock[s].peer /\ sock[s].shut \subseteq sock'[s].shut
          \/ Joins(s, c, EndOf(s)')
    /\ \A s, t \in DOMAIN sock' : s # t => \A i \in {1, 2} :
          ~(EndOf(s)' = <<c, i>> /\ EndOf(t)' = <<c, i>>)
\* Queues keep their ends, and at most one has the second one of c.
QueuesGrow(c) ==
    /\ DOMAIN backlog' = DOMAIN backlog
    /\ \A l \in DOMAIN backlog : \A k \in 1 .. Len(backlog'[l]) :
          \/ k \in 1 .. Len(backlog[l]) /\ backlog'[l][k] = backlog[l][k]
          \/ /\ backlog'[l][k] = <<c, 2>>
             /\ Live(conn', <<c, 2>>) /\ Kept(conn', <<c, 2>>, << >>)
             /\ \A s \in DOMAIN sock' : EndOf(s)' # <<c, 2>>
    /\ \A l, m \in DOMAIN backlog :
          \A k \in 1 .. Len(backlog'[l]), j \in 1 .. Len(backlog'[m]) :
             backlog'[l][k] = <<c, 2>> /\ backlog'[m][j] = <<c, 2>> => l = m /\ k = j

\* A step that adds a connection keeps the ownership of ends when the newcomers are
\* owned once.
LEMMA OwnersGrow ==
  ASSUME TypeOK, Streams, Waiting, Apart, Peered, UNCHANGED program,
         NEW c, ConnGrows(c), SocksGrow(c), QueuesGrow(c)
  PROVE  Streams' /\ Waiting' /\ Apart' /\ Peered'
  <1>1. /\ c \notin DOMAIN conn /\ c # 0 /\ DOMAIN conn' = DOMAIN conn \cup {c}
        /\ \A d \in DOMAIN conn : conn'[d] = conn[d]
    BY SocketsAssumption DEF ConnGrows
  <1>2. ASSUME NEW e, Live(conn, e)
        PROVE  /\ e # NoEnd /\ e[1] # c /\ Live(conn', e)
               /\ \A p : Kept(conn, e, p) => Kept(conn', e, p)
               /\ conn'[e[1]] = conn[e[1]]
    <2>1. e # NoEnd
      BY <1>2, EndTypes
    <2> QED  BY <1>1, <1>2, <2>1 DEF Live, Kept
  <1>3. \A s \in DOMAIN sock : EndOf(s) # NoEnd => Live(conn, EndOf(s))
    BY DEF Streams
  <1>4. \A l \in DOMAIN backlog : \A k \in 1 .. Len(backlog[l]) : Live(conn, backlog[l][k])
    BY DEF Waiting
  <1>5. ASSUME NEW s \in DOMAIN sock'
        PROVE  \/ /\ s \in DOMAIN sock /\ EndOf(s)' = EndOf(s)
                  /\ EndOf(s) # NoEnd => sock'[s].peek = sock[s].peek
                  /\ sock'[s].peer = sock[s].peer /\ sock[s].shut \subseteq sock'[s].shut
               \/ Joins(s, c, EndOf(s)') /\ EndOf(s)'[1] = c /\ EndOf(s)' # NoEnd
    BY <1>1 DEF SocksGrow, Joins, NoEnd
  <1>6. ASSUME NEW l \in DOMAIN backlog, NEW k \in 1 .. Len(backlog'[l])
        PROVE  \/ k \in 1 .. Len(backlog[l]) /\ backlog'[l][k] = backlog[l][k]
               \/ /\ backlog'[l][k] = <<c, 2>> /\ backlog'[l][k][1] = c
                  /\ Live(conn', <<c, 2>>) /\ Kept(conn', <<c, 2>>, << >>)
                  /\ \A s \in DOMAIN sock' : EndOf(s)' # <<c, 2>>
    BY DEF QueuesGrow
  <1>7. DOMAIN backlog' = DOMAIN backlog
    BY DEF QueuesGrow
  <1>8. Streams'
    <2> SUFFICES ASSUME NEW s \in DOMAIN sock', EndOf(s)' # NoEnd
                 PROVE  Live(conn', EndOf(s)') /\ Kept(conn', EndOf(s)', sock'[s].peek)
      BY DEF Streams
    <2>1. CASE Joins(s, c, EndOf(s)')
      BY <2>1 DEF Joins
    <2>2. CASE ~Joins(s, c, EndOf(s)')
      BY Zenon, <2>2, <1>2, <1>3, <1>5 DEF Streams
    <2> QED  BY <2>1, <2>2
  <1>9. Waiting'
    <2> SUFFICES ASSUME NEW l \in DOMAIN backlog, NEW k \in 1 .. Len(backlog'[l])
                 PROVE  Live(conn', backlog'[l][k]) /\ Kept(conn', backlog'[l][k], << >>)
      BY <1>7 DEF Waiting
    <2> QED  BY ZenonT(30), <1>2, <1>6 DEF Waiting
  <1>10. Apart'
    <2>1. ASSUME NEW s \in DOMAIN sock', NEW t \in DOMAIN sock', s # t,
                 EndOf(s)' = EndOf(t)'
          PROVE  EndOf(s)' = NoEnd
      <3>1. CASE Joins(s, c, EndOf(s)') \/ Joins(t, c, EndOf(t)')
        BY Zenon, <2>1, <3>1 DEF SocksGrow, Joins
      <3>2. CASE ~Joins(s, c, EndOf(s)') /\ ~Joins(t, c, EndOf(t)')
        BY Zenon, <2>1, <3>2, <1>5 DEF Apart
      <3> QED  BY <3>1, <3>2
    <2>2. ASSUME NEW s \in DOMAIN sock', NEW l \in DOMAIN backlog,
                 NEW k \in 1 .. Len(backlog'[l])
          PROVE  EndOf(s)' # backlog'[l][k]
      <3>1. CASE backlog'[l][k] = <<c, 2>>
        <4>1. backlog'[l][k][1] = c
          BY <3>1
        <4>2. ~(k \in 1 .. Len(backlog[l]) /\ backlog'[l][k] = backlog[l][k])
          BY <4>1, <1>2, <1>4
        <4> QED  BY Zenon, <3>1, <4>2, <1>6
      <3>2. CASE backlog'[l][k] # <<c, 2>>
        <4>1. k \in 1 .. Len(backlog[l]) /\ backlog'[l][k] = backlog[l][k]
          BY Zenon, <3>2, <1>6
        <4>2. backlog[l][k][1] # c
          BY Zenon, <4>1, <1>2, <1>4
        <4> QED  BY <4>1, <4>2, <1>5 DEF Apart
      <3> QED  BY <3>1, <3>2
    <2>3. ASSUME NEW l \in DOMAIN backlog, NEW m \in DOMAIN backlog,
                 NEW k \in 1 .. Len(backlog'[l]), NEW j \in 1 .. Len(backlog'[m]),
                 backlog'[l][k] = backlog'[m][j]
          PROVE  l = m /\ k = j
      <3>1. CASE backlog'[l][k] = <<c, 2>>
        <4>1. \A y, z \in DOMAIN backlog :
                 \A u \in 1 .. Len(backlog'[y]), v \in 1 .. Len(backlog'[z]) :
                    backlog'[y][u] = <<c, 2>> /\ backlog'[z][v] = <<c, 2>> => y = z /\ u = v
          BY Zenon DEF QueuesGrow
        <4>2. backlog'[l][k] = <<c, 2>> /\ backlog'[m][j] = <<c, 2>>
          BY <2>3, <3>1
        <4> QED  BY <4>1, <4>2, Zenon
      <3>2. CASE backlog'[l][k] # <<c, 2>>
        BY SMTT(30), <2>3, <3>2, <1>6 DEF Apart
      <3> QED  BY <3>1, <3>2
    <2> QED  BY <2>1, <2>2, <2>3, <1>7 DEF Apart
  <1>11. Peered'
    <2> SUFFICES ASSUME ~Unix, NEW s \in DOMAIN sock'
                 PROVE  /\ EndOf(s)' # NoEnd =>
                              sock'[s].peer = conn'[EndOf(s)'[1]][Other(EndOf(s)'[2])].addr
                        /\ sock'[s].peer # None => EndOf(s)' # NoEnd \/ "WR" \in sock'[s].shut
      BY Zenon DEF Peered, Unix, Family
    <2>1. CASE Joins(s, c, EndOf(s)')
      BY <2>1, <1>1 DEF Joins, NoEnd
    <2>2. CASE ~Joins(s, c, EndOf(s)')
      BY ZenonT(30), <2>2, <1>2, <1>3, <1>5 DEF Peered
    <2> QED  BY Zenon, <2>1, <2>2
  <1> QED  BY <1>8, <1>9, <1>10, <1>11

\* A new end is open and empty, and holds a stream no byte of which was lost.
LEMMA NewEnd ==
  ASSUME NEW who \in {"guest", "remote"}, NEW addr \in Text
  PROVE  LET e == End(who, addr)
         IN  /\ e \in EndRec /\ e.open /\ e.who = who /\ e.addr = addr /\ e.order = "kept"
             /\ e.got = << >> /\ e.box = << >> /\ e.sent = 0 /\ Holds(e, << >>)
  <1> DEFINE e == End(who, addr)
  <1>1. /\ e \in EndRec /\ e.open /\ e.who = who /\ e.addr = addr /\ e.order = "kept"
        /\ e.got = << >> /\ e.box = << >> /\ e.sent = 0
    BY DEF End, EndRec
  <1> HIDE DEF e
  <1>2. Ordered("kept", << >>, << >>, << >>, 0)
    BY DEF Ordered, InOrder, Counts
  <1> QED  BY Zenon, <1>1, <1>2 DEF Holds, e

\* A new connection leaves the old ones alone and has the two ends it was given.
LEMMA NewConnection ==
  ASSUME TypeOK, Fresh # {}, NEW x \in EndRec, NEW y \in EndRec,
         conn' = Put(conn, NewConn, Ends(x, y))
  PROVE  /\ ConnGrows(NewConn) /\ conn'[NewConn][1] = x /\ conn'[NewConn][2] = y
         /\ NewConn \in DOMAIN conn'
         /\ x.open /\ x.who = "guest" => Live(conn', <<NewConn, 1>>)
         /\ y.open /\ y.who = "guest" => Live(conn', <<NewConn, 2>>)
         /\ \A p : Holds(x, p) => Kept(conn', <<NewConn, 1>>, p)
         /\ \A p : Holds(y, p) => Kept(conn', <<NewConn, 2>>, p)
  <1> DEFINE c == NewConn
             both == Ends(x, y)
  <1>1. c \in 1 .. MaxConns \ DOMAIN conn
    BY DEF NewConn, Fresh
  <1>2. both \in [{1, 2} -> EndRec] /\ both[1] = x /\ both[2] = y
    BY DEF Ends
  <1> HIDE DEF c, both
  <1>3. conn' = Put(conn, c, both)
    BY DEF c, both
  <1>4. /\ DOMAIN conn' = DOMAIN conn \cup {c} /\ conn'[c] = both
        /\ \A d \in DOMAIN conn : conn'[d] = conn[d]
    BY <1>1, <1>3 DEF Put
  <1>5. conn' \in [DOMAIN conn' -> [{1, 2} -> EndRec]]
    BY <1>1, <1>2, <1>3, <1>4 DEF Put, TypeOK
  <1>6. /\ c \in DOMAIN conn' /\ conn'[c][1] = x /\ conn'[c][2] = y
    BY <1>2, <1>4
  <1>7. ConnGrows(c)
    BY <1>1, <1>4, <1>5 DEF ConnGrows
  <1>8. /\ x.open /\ x.who = "guest" => Live(conn', <<c, 1>>)
        /\ y.open /\ y.who = "guest" => Live(conn', <<c, 2>>)
    BY Zenon, <1>6 DEF Live
  <1>9. /\ \A p : Holds(x, p) => Kept(conn', <<c, 1>>, p)
        /\ \A p : Holds(y, p) => Kept(conn', <<c, 2>>, p)
    BY Zenon, <1>6 DEF Kept
  <1> QED  BY Zenon, <1>6, <1>7, <1>8, <1>9 DEF c

\* No socket owns an end of a connection that is only being made.
LEMMA EndsAreOld ==
  ASSUME Streams, NEW c, ConnGrows(c)
  PROVE  \A t \in DOMAIN sock : EndOf(t) # <<c, 1>> /\ EndOf(t) # <<c, 2>>
  <1>1. c # 0 /\ c \notin DOMAIN conn
    BY DEF ConnGrows
  <1> SUFFICES ASSUME NEW t \in DOMAIN sock, EndOf(t)[1] = c, EndOf(t) # NoEnd PROVE FALSE
    BY <1>1 DEF NoEnd
  <1> QED  BY <1>1 DEF Streams, Live

\* Nor does one wait in a queue.
LEMMA QueuesAreOld ==
  ASSUME Waiting, NEW c, ConnGrows(c)
  PROVE  \A l \in DOMAIN backlog : \A k \in 1 .. Len(backlog[l]) : backlog[l][k] # <<c, 2>>
  <1> SUFFICES ASSUME Live(conn, <<c, 2>>) PROVE FALSE
    BY Zenon DEF Waiting
  <1>1. c \in DOMAIN conn
    BY DEF Live
  <1> QED  BY Zenon, <1>1 DEF ConnGrows

\* The second end of the new connection c waits at l.
LEMMA QueueJoins ==
  ASSUME TypeOK, Streams, Waiting, Apart, NEW c, ConnGrows(c), NEW l \in DOMAIN backlog,
         backlog' = [backlog EXCEPT ![l] = Append(backlog[l], <<c, 2>>)],
         Live(conn', <<c, 2>>), Kept(conn', <<c, 2>>, << >>),
         \A s \in DOMAIN sock' : EndOf(s)' # <<c, 2>>
  PROVE  /\ QueuesGrow(c) /\ DOMAIN backlog' = DOMAIN backlog
         /\ backlog' \in [DOMAIN backlog' -> Seq(Nat \X Nat)]
  <1>1. c \in Nat /\ c \notin DOMAIN conn /\ <<c, 2>> \in Nat \X Nat
    BY SocketsAssumption DEF ConnGrows
  <1>2. backlog \in [DOMAIN backlog -> Seq(Nat \X Nat)] /\ backlog[l] \in Seq(Nat \X Nat)
    BY DEF TypeOK
  <1> DEFINE old == backlog[l]
             new == Append(old, <<c, 2>>)
  <1>3. /\ new \in Seq(Nat \X Nat) /\ Len(new) = Len(old) + 1 /\ Len(old) \in Nat
        /\ \A k \in 1 .. Len(old) : new[k] = old[k] /\ old[k] # <<c, 2>>
        /\ new[Len(old) + 1] = <<c, 2>>
    <2>1. /\ new \in Seq(Nat \X Nat) /\ Len(new) = Len(old) + 1
          /\ \A k \in 1 .. Len(old) : new[k] = old[k]
          /\ new[Len(old) + 1] = <<c, 2>>
      BY <1>1, <1>2
    <2>2. \A k \in 1 .. Len(old) : old[k] # <<c, 2>>
      BY Zenon, QueuesAreOld
    <2>3. Len(old) \in Nat
      BY <1>2
    <2> QED  BY <2>1, <2>2, <2>3
  <1>4. /\ DOMAIN backlog' = DOMAIN backlog /\ backlog'[l] = new
        /\ \A m \in DOMAIN backlog : m # l => backlog'[m] = backlog[m]
        /\ backlog' = [backlog EXCEPT ![l] = new]
    BY <1>2
  <1>5. \A m \in DOMAIN backlog : \A k \in 1 .. Len(backlog[m]) : backlog[m][k] # <<c, 2>>
    BY Zenon, QueuesAreOld
  <1> HIDE DEF new
  <1>6. backlog' \in [DOMAIN backlog' -> Seq(Nat \X Nat)]
    BY Zenon, <1>2, <1>3, <1>4
  <1>7. ASSUME NEW m \in DOMAIN backlog, NEW k \in 1 .. Len(backlog'[m])
        PROVE  \/ /\ k \in 1 .. Len(backlog[m]) /\ backlog'[m][k] = backlog[m][k]
                  /\ backlog'[m][k] # <<c, 2>>
               \/ m = l /\ k = Len(old) + 1 /\ backlog'[m][k] = <<c, 2>>
    <2>1. CASE m # l
      BY Zenon, <2>1, <1>4, <1>5
    <2>2. CASE m = l
      <3>1. k \in 1 .. Len(old) \/ k = Len(old) + 1
        BY <2>2, <1>3, <1>4
      <3> QED  BY Zenon, <2>2, <3>1, <1>3, <1>4
    <2> QED  BY Zenon, <2>1, <2>2
  <1>8. QueuesGrow(c)
    <2>1. \A m, j \in DOMAIN backlog :
             \A k \in 1 .. Len(backlog'[m]), i \in 1 .. Len(backlog'[j]) :
                backlog'[m][k] = <<c, 2>> /\ backlog'[j][i] = <<c, 2>> => m = j /\ k = i
      BY ZenonT(30), <1>7
    <2>2. \A m \in DOMAIN backlog : \A k \in 1 .. Len(backlog'[m]) :
             \/ k \in 1 .. Len(backlog[m]) /\ backlog'[m][k] = backlog[m][k]
             \/ backlog'[m][k] = <<c, 2>>
      BY Zenon, <1>7
    <2> QED  BY ZenonT(30), <2>1, <2>2, <1>4 DEF QueuesGrow
  <1> QED  BY <1>4, <1>6, <1>8

\* A remote peer connecting to a listener keeps the invariant.
LEMMA RemoteConnectStep ==
  ASSUME IInv, NEW s, RemoteConnect(s) PROVE IInv'
  <1> DEFINE c == NewConn
             x == End("remote", "remote")
             y == End("guest", ServedBy(s))
  <1>1. /\ phase = "running" /\ Fresh # {} /\ s \in DOMAIN backlog
        /\ conn' = Put(conn, NewConn, Ends(x, y))
        /\ backlog' = [backlog EXCEPT ![s] = Append(backlog[s], <<c, 2>>)]
        /\ UNCHANGED <<program, sock, call, lost, frozen>>
    BY DEF RemoteConnect
  <1>2. /\ TypeOK /\ Streams /\ Waiting /\ Apart /\ Parked /\ Peered /\ Listeners
        /\ Udp /\ Image /\ ListenersSurvive
    BY DEF IInv
  <1>3. ServedBy(s) \in Text
    <2>1. s \in DOMAIN sock /\ sock[s].listener \in Text /\ None \in Text
      BY Zenon, <1>1, <1>2 DEF TypeOK, Inner, Text
    <2>2. call.op = "accept" => call.held \in Text
      BY <1>2, CallKinds
    <2> QED  BY <2>1, <2>2 DEF ServedBy
  <1>4. x \in EndRec /\ y \in EndRec /\ y.open /\ y.who = "guest" /\ Holds(y, << >>)
    BY ZenonT(30), <1>3, NewEnd DEF Text
  <1> HIDE DEF c, x, y
  <1>5. ConnGrows(c) /\ Live(conn', <<c, 2>>) /\ Kept(conn', <<c, 2>>, << >>)
    BY Zenon, <1>1, <1>2, <1>4, NewConnection DEF c
  <1>6. \A t \in DOMAIN sock : EndOf(t)' = EndOf(t) /\ EndOf(t) # <<c, 1>> /\ EndOf(t) # <<c, 2>>
    <2>1. \A t \in DOMAIN sock : EndOf(t)' = EndOf(t)
      BY <1>1 DEF EndOf
    <2> QED  BY <2>1, <1>2, <1>5, EndsAreOld
  <1>7. /\ QueuesGrow(c) /\ DOMAIN backlog' = DOMAIN backlog
        /\ backlog' \in [DOMAIN backlog' -> Seq(Nat \X Nat)]
    BY Zenon, <1>1, <1>2, <1>5, <1>6, QueueJoins
  <1>8. SocksGrow(c)
    BY <1>1, <1>6 DEF SocksGrow
  <1>9. Streams' /\ Waiting' /\ Apart' /\ Peered'
    BY <1>1, <1>2, <1>5, <1>7, <1>8, OwnersGrow
  <1>10. TypeOK'
    BY Zenon, <1>1, <1>2, <1>5, <1>7 DEF TypeOK, ConnGrows, frozen
  <1>11. Parked'
    <2>1. call.op = "recv" => call.held[1] \in DOMAIN conn
      BY Zenon, <1>2, HeldFacts DEF Live
    <2>2. call.op = "recv" => conn'[call.held[1]] = conn[call.held[1]]
      BY <2>1, <1>5 DEF ConnGrows
    <2> QED  BY Zenon, <2>2, <1>1, <1>2 DEF Parked
  <1>12. Listeners'
    BY Zenon, <1>1, <1>2, <1>7, ListenersStay DEF ListenersKeep, Listeners
  <1>13. Udp' /\ Image' /\ ListenersSurvive'
    BY <1>1, <1>2, UdpStays, ImageStays DEF UdpKeeps
  <1> QED  BY <1>9, <1>10, <1>11, <1>12, <1>13 DEF IInv

\* Each half of a socketpair owns its end and nothing else.
LEMMA PairTypes ==
  ASSUME NEW e \in Nat \X Nat
  PROVE  LET r == [New(FALSE) EXCEPT !.stream = e]
         IN  /\ r \in Inner /\ r.stream = e /\ r.peer = None /\ r.listener = None
             /\ ~r.acceptor /\ ~r.path /\ r.udp = NoUdp /\ r.peek = << >>
  <1>1. New(FALSE) \in Inner
    BY Zenon, NewTypes
  <1>2. [New(FALSE) EXCEPT !.stream = e] \in Inner
    BY Zenon, <1>1 DEF Inner
  <1> QED  BY <1>2 DEF New

\* socketpair keeps the invariant.
LEMMA SocketpairStep ==
  ASSUME IInv, NEW s \in Sock, NEW t \in Sock, Socketpair(s, t) PROVE IInv'
  <1> DEFINE c == NewConn
             x == End("guest", None)
             p == [New(FALSE) EXCEPT !.stream = <<c, 1>>]
             q == [New(FALSE) EXCEPT !.stream = <<c, 2>>]
  <1>1. /\ Free /\ Unix /\ s \notin DOMAIN sock /\ t \notin DOMAIN sock /\ s # t
        /\ Fresh # {} /\ conn' = Put(conn, NewConn, Ends(x, x))
        /\ sock' = Put(Put(sock, s, p), t, q)
        /\ UNCHANGED <<program, backlog, call, lost, frozen>>
    BY DEF Socketpair, Unused
  <1>2. /\ TypeOK /\ Streams /\ Waiting /\ Apart /\ Parked /\ Peered /\ Listeners
        /\ Udp /\ Image /\ ListenersSurvive /\ phase = "running" /\ call.op = "none"
        /\ \A u \in DOMAIN sock : EndOf(u) = sock[u].stream
    BY <1>1, FreeFacts
  <1>3. x \in EndRec /\ x.open /\ x.who = "guest" /\ Holds(x, << >>)
    BY NewEnd DEF Text
  <1> HIDE DEF x
  <1>4. /\ ConnGrows(c) /\ Live(conn', <<c, 1>>) /\ Kept(conn', <<c, 1>>, << >>)
        /\ Live(conn', <<c, 2>>) /\ Kept(conn', <<c, 2>>, << >>)
    BY <1>1, <1>2, <1>3, NewConnection
  <1> HIDE DEF c
  <1>5. c \in Nat /\ c # 0
    BY <1>4, SocketsAssumption DEF ConnGrows
  <1>6. /\ p \in Inner /\ p.stream = <<c, 1>> /\ p.peer = None /\ p.listener = None
        /\ ~p.acceptor /\ ~p.path /\ p.udp = NoUdp /\ p.peek = << >>
    BY Zenon, <1>5, PairTypes
  <1>7. /\ q \in Inner /\ q.stream = <<c, 2>> /\ q.peer = None /\ q.listener = None
        /\ ~q.acceptor /\ ~q.path /\ q.udp = NoUdp /\ q.peek = << >>
    BY Zenon, <1>5, PairTypes
  <1> HIDE DEF p, q
  <1>8. /\ DOMAIN sock' = DOMAIN sock \cup {s, t} /\ sock'[s] = p /\ sock'[t] = q
        /\ \A u \in DOMAIN sock : sock'[u] = sock[u]
        /\ sock' = [u \in DOMAIN sock \cup {s, t} |-> sock'[u]]
    BY <1>1 DEF Put
  <1>9. sock' \in [DOMAIN sock' -> Inner]
    BY <1>2, <1>6, <1>7, <1>8 DEF TypeOK
  <1>10. /\ EndOf(s)' = <<c, 1>> /\ EndOf(t)' = <<c, 2>>
         /\ \A u \in DOMAIN sock : EndOf(u)' = EndOf(u)
    <2>1. <<c, 1>> # NoEnd /\ <<c, 2>> # NoEnd
      BY <1>5 DEF NoEnd
    <2> QED  BY Zenon, <2>1, <1>1, <1>2, <1>6, <1>7, <1>8 DEF EndOf
  <1>11. SocksGrow(c)
    <2>1. Joins(s, c, EndOf(s)') /\ Joins(t, c, EndOf(t)')
      BY Zenon, <1>1, <1>4, <1>6, <1>7, <1>8, <1>10 DEF Joins
    <2>2. \A u \in DOMAIN sock : EndOf(u) # <<c, 1>> /\ EndOf(u) # <<c, 2>>
      BY <1>2, <1>4, EndsAreOld
    <2>3. \A u, v \in DOMAIN sock' : u # v => \A i \in {1, 2} :
             ~(EndOf(u)' = <<c, i>> /\ EndOf(v)' = <<c, i>>)
      BY <2>2, <1>1, <1>8, <1>10
    <2> QED  BY <2>1, <2>3, <1>8, <1>10 DEF SocksGrow
  <1>12. QueuesGrow(c)
    <2>1. \A l \in DOMAIN backlog : \A k \in 1 .. Len(backlog[l]) : backlog[l][k] # <<c, 2>>
      BY Zenon, <1>2, <1>4, QueuesAreOld
    <2> QED  BY Zenon, <2>1, <1>1 DEF QueuesGrow
  <1>13. Streams' /\ Waiting' /\ Apart' /\ Peered'
    BY <1>1, <1>2, <1>4, <1>11, <1>12, OwnersGrow
  <1>14. TypeOK'
    BY Zenon, <1>1, <1>2, <1>4, <1>8, <1>9 DEF TypeOK, ConnGrows, frozen
  <1>15. Parked'
    BY Zenon, <1>1, <1>2 DEF Parked
  <1>16. Listeners'
    BY Zenon, <1>1, <1>2, <1>6, <1>7, <1>8, ListenersStay DEF ListenersKeep
  <1>17. Udp' /\ Image' /\ ListenersSurvive'
    BY Zenon, <1>1, <1>2, <1>6, <1>7, <1>8, UdpStays, ImageStays DEF UdpKeeps
  <1> QED  BY <1>13, <1>14, <1>15, <1>16, <1>17 DEF IInv

\* The socket q gets the stream e.
Joined(r, q, e, a, b) ==
    /\ r \in Inner /\ r.stream = e /\ r.peer = a /\ r.bound = b
    /\ r.listener = q.listener /\ r.acceptor = q.acceptor /\ r.path = q.path
    /\ r.udp = q.udp /\ r.peek = q.peek /\ r.shut = q.shut /\ r.opts = q.opts

\* connect gives the socket its stream, peer and address, and changes nothing else of
\* it.
LEMMA ConnectTypes ==
  ASSUME NEW q \in Inner, NEW e \in Nat \X Nat, NEW a \in Text, NEW b \in Text
  PROVE  Joined([q EXCEPT !.stream = e, !.peer = a, !.bound = b], q, e, a, b)
  BY Zenon DEF Inner, Joined

\* connect to a server outside or to a listener of the guest.
LEMMA ConnectStep ==
  ASSUME IInv, NEW s, NEW a \in Text, Connect(s, a) PROVE IInv'
  <1> DEFINE c == NewConn
             o == IF sock[s].peek = << >> THEN "kept" ELSE "stale"
             new == End("guest", "client")
             x == [new EXCEPT !.order = o]
             y == conn'[c][2]
             b == IF Unix THEN a ELSE sock[s].bound
             r == [sock[s] EXCEPT !.stream = <<c, 1>>, !.peer = a, !.bound = b]
  <1>1. /\ Free /\ Family # "udp" /\ s \in DOMAIN sock /\ sock[s].stream = NoEnd
        /\ Fresh # {} /\ Update(s, r) /\ UNCHANGED <<program, call, lost, frozen>>
        /\ \/ conn' = Put(conn, c, Ends(x, End("remote", a))) /\ backlog' = backlog
           \/ \E l \in DOMAIN backlog :
                 /\ conn' = Put(conn, c, Ends(x, End("guest", a)))
                 /\ backlog' = [backlog EXCEPT ![l] = Append(backlog[l], <<c, 2>>)]
    BY DEF Connect, Connected
  <1>2. /\ TypeOK /\ Streams /\ Waiting /\ Apart /\ Parked /\ Peered /\ Listeners
        /\ Udp /\ Image /\ ListenersSurvive /\ phase = "running" /\ call.op = "none"
        /\ \A u \in DOMAIN sock : EndOf(u) = sock[u].stream
    BY <1>1, FreeFacts
  <1>3. /\ sock[s] \in Inner /\ sock[s].peek \in Seq(Nat) /\ b \in Text
    BY <1>1, <1>2 DEF TypeOK, Inner
  <1>4. x \in EndRec /\ x.open /\ x.who = "guest" /\ Holds(x, sock[s].peek)
    <2>1. /\ new \in EndRec /\ new.open /\ new.who = "guest"
          /\ new.got = << >> /\ new.box = << >> /\ new.sent = 0 /\ Holds(new, << >>)
      BY NewEnd DEF Text
    <2>2. Ordered("kept", << >>, << >>, << >>, 0)
      BY DEF Ordered, InOrder, Counts
    <2>3. /\ x \in EndRec /\ x.open /\ x.who = "guest" /\ x.order = o
          /\ x.got = << >> /\ x.box = << >> /\ x.sent = 0
      <3> HIDE DEF new, o
      <3>1. o \in {"kept", "past", "stale"}
        BY DEF o
      <3>2. /\ x \in EndRec /\ x.who = new.who /\ x.open = new.open
            /\ x.order = o /\ x.got = new.got /\ x.box = new.box /\ x.sent = new.sent
        BY ZenonT(30), <2>1, <3>1, OrderTypes
      <3> HIDE DEF x
      <3> QED  BY <2>1, <3>2
    <2>4. Ordered(o, << >>, sock[s].peek, << >>, 0)
      BY <2>2, <1>3 DEF Ordered
    <2> HIDE DEF x, o
    <2> QED  BY <2>3, <2>4 DEF Holds
  <1> HIDE DEF x
  <1>5. /\ End("guest", a) \in EndRec /\ End("remote", a) \in EndRec
        /\ End("guest", a).addr = a /\ End("remote", a).addr = a
        /\ End("guest", a).open /\ End("guest", a).who = "guest"
        /\ Holds(End("guest", a), << >>)
    BY NewEnd
  <1>6. /\ ConnGrows(c) /\ Live(conn', <<c, 1>>) /\ Kept(conn', <<c, 1>>, sock[s].peek)
        /\ conn'[c][2].addr = a
        /\ \/ backlog' = backlog
           \/ \E l \in DOMAIN backlog :
                 /\ backlog' = [backlog EXCEPT ![l] = Append(backlog[l], <<c, 2>>)]
                 /\ Live(conn', <<c, 2>>) /\ Kept(conn', <<c, 2>>, << >>)
    <2>1. CASE conn' = Put(conn, c, Ends(x, End("remote", a))) /\ backlog' = backlog
      BY <2>1, <1>1, <1>2, <1>4, <1>5, NewConnection
    <2>2. CASE \E l \in DOMAIN backlog :
                 /\ conn' = Put(conn, c, Ends(x, End("guest", a)))
                 /\ backlog' = [backlog EXCEPT ![l] = Append(backlog[l], <<c, 2>>)]
      <3>1. conn' = Put(conn, c, Ends(x, End("guest", a)))
        BY <2>2
      <3>2. /\ ConnGrows(c) /\ Live(conn', <<c, 1>>) /\ Kept(conn', <<c, 1>>, sock[s].peek)
            /\ conn'[c][2].addr = a /\ Live(conn', <<c, 2>>) /\ Kept(conn', <<c, 2>>, << >>)
        BY <3>1, <1>1, <1>2, <1>4, <1>5, NewConnection
      <3> QED  BY Zenon, <2>2, <3>2
    <2> QED  BY Zenon, <2>1, <2>2, <1>1
  <1> HIDE DEF c
  <1>7. c \in Nat /\ c # 0 /\ <<c, 1>> \in Nat \X Nat
    BY <1>6, SocketsAssumption DEF ConnGrows
  <1>8. /\ r \in Inner /\ r.stream = <<c, 1>> /\ r.peer = a /\ r.bound = b
        /\ r.listener = sock[s].listener /\ r.acceptor = sock[s].acceptor
        /\ r.path = sock[s].path /\ r.udp = sock[s].udp /\ r.peek = sock[s].peek
        /\ r.shut = sock[s].shut /\ r.opts = sock[s].opts
    <2> DEFINE q == sock[s]
               e == <<c, 1>>
               v == [q EXCEPT !.stream = e, !.peer = a, !.bound = b]
    <2>1. r = v
      OBVIOUS
    <2>2. q \in Inner /\ e \in Nat \X Nat /\ b \in Text
      BY <1>3, <1>7
    <2> HIDE DEF q, e, b
    <2>3. Joined(v, q, e, a, b)
      BY <2>2, ConnectTypes, Zenon
    <2> HIDE DEF v, r
    <2> QED  BY <2>1, <2>3 DEF q, e, Joined
  <1> HIDE DEF r, b
  <1>9. /\ sock' \in [DOMAIN sock' -> Inner] /\ DOMAIN sock' = DOMAIN sock
        /\ sock'[s] = r /\ \A u \in DOMAIN sock : u # s => sock'[u] = sock[u]
    BY <1>1, <1>2, <1>8, Updates
  <1>10. EndOf(s)' = <<c, 1>> /\ \A u \in DOMAIN sock : u # s => EndOf(u)' = EndOf(u)
    <2>1. <<c, 1>> # NoEnd
      BY <1>7 DEF NoEnd
    <2> QED  BY <2>1, <1>1, <1>2, <1>8, <1>9 DEF EndOf
  <1>11. \A u \in DOMAIN sock : EndOf(u) # <<c, 1>> /\ EndOf(u) # <<c, 2>>
    BY <1>2, <1>6, EndsAreOld
  <1>12. SocksGrow(c)
    <2>1. Joins(s, c, EndOf(s)')
      BY <1>6, <1>8, <1>9, <1>10 DEF Joins, Other
    <2> QED  BY <2>1, <1>9, <1>10, <1>11 DEF SocksGrow
  <1>13. /\ QueuesGrow(c) /\ DOMAIN backlog' = DOMAIN backlog
         /\ backlog' \in [DOMAIN backlog' -> Seq(Nat \X Nat)]
    <2>1. CASE backlog' = backlog
      <3>1. \A l \in DOMAIN backlog : \A k \in 1 .. Len(backlog[l]) : backlog[l][k] # <<c, 2>>
        BY Zenon, <1>2, <1>6, QueuesAreOld
      <3> QED  BY Zenon, <2>1, <3>1, <1>2 DEF QueuesGrow, TypeOK
    <2>2. CASE \E l \in DOMAIN backlog :
                 /\ backlog' = [backlog EXCEPT ![l] = Append(backlog[l], <<c, 2>>)]
                 /\ Live(conn', <<c, 2>>) /\ Kept(conn', <<c, 2>>, << >>)
      <3>1. \A u \in DOMAIN sock' : EndOf(u)' # <<c, 2>>
        BY <1>9, <1>10, <1>11
      <3> QED  BY Zenon, <2>2, <3>1, <1>2, <1>6, QueueJoins
    <2> QED  BY Zenon, <2>1, <2>2, <1>6
  <1>14. Streams' /\ Waiting' /\ Apart' /\ Peered'
    BY Zenon, <1>1, <1>2, <1>6, <1>12, <1>13, OwnersGrow
  <1>15. TypeOK'
    BY Zenon, <1>1, <1>2, <1>6, <1>9, <1>13 DEF TypeOK, ConnGrows, frozen
  <1>16. Parked'
    BY <1>1, <1>2 DEF Parked
  <1>17. Listeners'
    BY Zenon, <1>1, <1>2, <1>8, <1>9, <1>13, ListenersStay DEF ListenersKeep
  <1>18. Udp'
    <2>1. UdpKeeps
      BY Zenon, <1>1, <1>8, <1>9 DEF UdpKeeps
    <2> QED  BY Zenon, <2>1, <1>1, <1>2, UdpStays
  <1>19. Image' /\ ListenersSurvive'
    BY <1>1, <1>2, ImageStays
  <1> QED  BY <1>14, <1>15, <1>16, <1>17, <1>18, <1>19 DEF IInv

\* A new socket with the stream e.
Opened(r, e, a) ==
    /\ r \in Inner /\ r.stream = e /\ r.peer = a /\ r.listener = None
    /\ ~r.acceptor /\ ~r.path /\ r.udp = NoUdp /\ r.peek = << >>

\* The socket accept makes owns the accepted end and nothing else.
LEMMA AcceptTypes ==
  ASSUME NEW nb \in BOOLEAN, NEW e \in Nat \X Nat, NEW a \in Text
  PROVE  Opened([New(nb) EXCEPT !.stream = e, !.peer = a], e, a)
  <1>1. New(nb) \in Inner
    BY NewTypes
  <1>2. [New(nb) EXCEPT !.stream = e, !.peer = a] \in Inner
    BY Zenon, <1>1 DEF Inner
  <1> QED  BY <1>2 DEF New, Opened

\* Changing the listener of a socket changes nothing else of it.
LEMMA ListenerTypes ==
  ASSUME NEW q \in Inner, NEW p \in Text
  PROVE  LET r == [q EXCEPT !.listener = p]
         IN  /\ r \in Inner /\ r.listener = p /\ r.stream = q.stream /\ r.peer = q.peer
             /\ r.bound = q.bound /\ r.acceptor = q.acceptor /\ r.path = q.path
             /\ r.udp = q.udp /\ r.peek = q.peek /\ r.shut = q.shut /\ r.opts = q.opts
  BY DEF Inner

\* An end that waits in a backlog is owned by no socket and waits nowhere else.
LEMMA QueuedOnce ==
  ASSUME Apart, NEW l \in DOMAIN backlog, NEW k \in 1 .. Len(backlog[l])
  PROVE  /\ \A s \in DOMAIN sock : EndOf(s) # backlog[l][k]
         /\ \A m \in DOMAIN backlog : \A j \in 1 .. Len(backlog[m]) :
               backlog[m][j] = backlog[l][k] => m = l /\ j = k
  BY DEF Apart
\* The end at the head of the queue of l becomes the stream of the new socket t.
LEMMA HeadMoves ==
  ASSUME TypeOK, Streams, Waiting, Apart, Peered, UNCHANGED <<program, conn>>,
         NEW l \in DOMAIN backlog, backlog[l] # << >>,
         backlog' = [backlog EXCEPT ![l] = Tail(backlog[l])],
         NEW t, t \notin DOMAIN sock, DOMAIN sock' = DOMAIN sock \cup {t},
         EndOf(t)' = Head(backlog[l]), sock'[t].peek = << >>,
         ~Unix => sock'[t].peer = conn[Head(backlog[l])[1]][Other(Head(backlog[l])[2])].addr,
         \A u \in DOMAIN sock :
             /\ EndOf(u)' = EndOf(u) /\ sock'[u].peek = sock[u].peek
             /\ sock'[u].peer = sock[u].peer /\ sock'[u].shut = sock[u].shut
  PROVE  /\ Streams' /\ Waiting' /\ Apart' /\ Peered' /\ DOMAIN backlog' = DOMAIN backlog
         /\ backlog' \in [DOMAIN backlog' -> Seq(Nat \X Nat)]
  <1> DEFINE q == backlog[l]
             h == Head(q)
  <1>1. backlog \in [DOMAIN backlog -> Seq(Nat \X Nat)] /\ q \in Seq(Nat \X Nat)
    BY Zenon DEF TypeOK
  <1>2. /\ Len(q) \in Nat /\ 1 \in 1 .. Len(q) /\ h = q[1]
        /\ Tail(q) \in Seq(Nat \X Nat) /\ Len(Tail(q)) = Len(q) - 1
        /\ \A k \in 1 .. Len(q) - 1 : Tail(q)[k] = q[k + 1]
    BY <1>1
  <1>3. /\ DOMAIN backlog' = DOMAIN backlog /\ backlog'[l] = Tail(q)
        /\ \A m \in DOMAIN backlog : m # l => backlog'[m] = backlog[m]
    BY Zenon, <1>1
  <1>4. backlog' \in [DOMAIN backlog' -> Seq(Nat \X Nat)]
    BY Zenon, <1>1, <1>2, <1>3
  <1>5. ASSUME NEW m \in DOMAIN backlog, NEW k \in 1 .. Len(backlog'[m])
        PROVE  \E j \in 1 .. Len(backlog[m]) :
                  /\ backlog'[m][k] = backlog[m][j]
                  /\ IF m = l THEN j = k + 1 ELSE j = k
    <2>1. CASE m = l
      <3>1. k \in 1 .. Len(q) - 1 /\ k + 1 \in 1 .. Len(q) /\ backlog'[l][k] = q[k + 1]
        BY SMTT(30), <2>1, <1>2, <1>3
      <3> QED  BY Zenon, <2>1, <3>1
    <2>2. CASE m # l
      BY Zenon, <2>2, <1>3
    <2> QED  BY Zenon, <2>1, <2>2
  <1>6. h \in Nat \X Nat /\ Live(conn, h) /\ Kept(conn, h, << >>) /\ h # NoEnd
    <2>1. q[1] \in Nat \X Nat
      BY <1>1, <1>2
    <2>2. Live(conn, h) /\ Kept(conn, h, << >>)
      BY Zenon, <1>2 DEF Waiting
    <2> QED  BY Zenon, <2>1, <2>2, <1>2, EndTypes
  <1>7. EndOf(t)' = h
    BY Zenon
  <1>8. \A s \in DOMAIN sock : EndOf(s) # h
    <2>1. h = backlog[l][1] /\ 1 \in 1 .. Len(backlog[l])
      BY Zenon, <1>2
    <2>2. \A s \in DOMAIN sock : EndOf(s) # backlog[l][1]
      BY ZenonT(30), <2>1, QueuedOnce
    <2> HIDE DEF h
    <2> QED  BY Zenon, <2>1, <2>2
  <1>9. \A m \in DOMAIN backlog : \A k \in 1 .. Len(backlog'[m]) : backlog'[m][k] # h
    <2> TAKE m \in DOMAIN backlog
    <2> TAKE k \in 1 .. Len(backlog'[m])
    <2>1. PICK j \in 1 .. Len(backlog[m]) :
                  /\ backlog'[m][k] = backlog[m][j]
                  /\ IF m = l THEN j = k + 1 ELSE j = k
      BY Zenon, <1>5
    <2>2. ~(m = l /\ j = 1)
      BY <2>1
    <2>3. h = backlog[l][1] /\ 1 \in 1 .. Len(backlog[l])
      BY Zenon, <1>2
    <2>4. backlog[m][j] = backlog[l][1] => m = l /\ j = 1
      BY ZenonT(30), <2>3, QueuedOnce
    <2> HIDE DEF h
    <2> QED  BY Zenon, <2>1, <2>2, <2>3, <2>4
  <1> HIDE DEF h, q
  <1>10. Streams'
    BY Zenon, <1>6, <1>7 DEF Streams
  <1>11. Waiting'
    BY <1>3, <1>5 DEF Waiting
  <1>12. Apart'
    <2>1. \A s, u \in DOMAIN sock' : s # u /\ EndOf(s)' = EndOf(u)' => EndOf(s)' = NoEnd
      BY <1>7, <1>8 DEF Apart
    <2>2. ASSUME NEW s \in DOMAIN sock', NEW m \in DOMAIN backlog,
                 NEW k \in 1 .. Len(backlog'[m])
          PROVE  EndOf(s)' # backlog'[m][k]
      <3>1. CASE s = t
        BY Zenon, <3>1, <1>7, <1>9
      <3>2. CASE s \in DOMAIN sock
        BY <3>2, <1>5 DEF Apart
      <3> QED  BY Zenon, <3>1, <3>2
    <2>3. ASSUME NEW m \in DOMAIN backlog, NEW n \in DOMAIN backlog,
                 NEW k \in 1 .. Len(backlog'[m]), NEW j \in 1 .. Len(backlog'[n]),
                 backlog'[m][k] = backlog'[n][j]
          PROVE  m = n /\ k = j
      <3>1. PICK x \in 1 .. Len(backlog[m]) :
                  backlog'[m][k] = backlog[m][x] /\ IF m = l THEN x = k + 1 ELSE x = k
        BY Zenon, <1>5
      <3>2. PICK y \in 1 .. Len(backlog[n]) :
                  backlog'[n][j] = backlog[n][y] /\ IF n = l THEN y = j + 1 ELSE y = j
        BY Zenon, <1>5
      <3>3. m = n /\ x = y
        BY SMTT(30), <2>3, <3>1, <3>2 DEF Apart
      <3> QED  BY SMTT(30), <3>1, <3>2, <3>3
    <2> QED  BY ZenonT(60), <2>1, <2>2, <2>3, <1>3 DEF Apart
  <1>13. Peered'
    <2> SUFFICES ASSUME ~Unix, NEW s \in DOMAIN sock'
                 PROVE  /\ EndOf(s)' # NoEnd =>
                              sock'[s].peer = conn[EndOf(s)'[1]][Other(EndOf(s)'[2])].addr
                        /\ sock'[s].peer # None => EndOf(s)' # NoEnd \/ "WR" \in sock'[s].shut
      BY Zenon DEF Peered, Unix, Family
    <2>1. CASE s = t
      BY Zenon, <2>1, <1>6, <1>7 DEF h, q
    <2>2. CASE s \in DOMAIN sock
      BY Zenon, <2>2 DEF Peered
    <2> QED  BY Zenon, <2>1, <2>2
  <1> QED  BY Zenon, <1>3, <1>4, <1>10, <1>11, <1>12, <1>13

\* accept4 returns a socket for the next connection, and puts the listener back.
LEMMA AcceptReturnsStep ==
  ASSUME IInv, NEW t \in Sock, NEW nb \in BOOLEAN, AcceptReturns(t, nb) PROVE IInv'
  <1> DEFINE l == call.s
             h == Head(backlog[l])
             nn == IF Unix THEN nb ELSE nb \/ sock[l].nonblock
             a == IF Unix THEN None ELSE conn[h[1]][Other(h[2])].addr
             p == PutBack(call.held, sock[l].listener, None)
             r == [sock[l] EXCEPT !.listener = p]
             n == [New(nn) EXCEPT !.stream = h, !.peer = a]
             mid == [sock EXCEPT ![l] = r]
  <1>1. /\ phase = "running" /\ call.op = "accept" /\ t \notin DOMAIN sock
        /\ backlog[l] # << >> /\ sock' = Put(mid, t, n)
        /\ backlog' = [backlog EXCEPT ![l] = Tail(backlog[l])]
        /\ call' = Idle /\ UNCHANGED <<program, conn, lost, frozen>>
    BY Zenon DEF AcceptReturns, Unused, Accepted
  <1>2. /\ TypeOK /\ Streams /\ Waiting /\ Apart /\ Parked /\ Peered /\ Listeners
        /\ Udp /\ Image /\ ListenersSurvive
    BY SMTT(30) DEF IInv
  <1>3. /\ l \in DOMAIN sock /\ l \in DOMAIN backlog /\ sock[l] \in Inner
        /\ call.held \in Text /\ call.held \notin {None, AnyPort}
        /\ sock \in [DOMAIN sock -> Inner] /\ backlog[l] \in Seq(Nat \X Nat)
    BY Zenon, <1>1, <1>2, CallKinds DEF TypeOK, Listeners
  <1>4. h \in Nat \X Nat /\ Live(conn, h)
    <2>1. 1 \in 1 .. Len(backlog[l]) /\ h = backlog[l][1] /\ backlog[l][1] \in Nat \X Nat
      <3>1. \A u \in Seq(Nat \X Nat) : u # << >> =>
               1 \in 1 .. Len(u) /\ Head(u) = u[1] /\ u[1] \in Nat \X Nat
        OBVIOUS
      <3> QED  BY Zenon, <3>1, <1>1, <1>3
    <2>2. Live(conn, backlog[l][1])
      BY <2>1, <1>2, <1>3, Zenon DEF Waiting
    <2> QED  BY SMTT(30), <2>1, <2>2
  <1>5. a \in Text
    <2>1. h[1] \in DOMAIN conn /\ Other(h[2]) \in {1, 2}
      <3> HIDE DEF h
      <3> QED  BY <1>4 DEF Live, Other
    <2>2. conn[h[1]][Other(h[2])] \in EndRec
      <3> HIDE DEF h
      <3> QED  BY <2>1, <1>2 DEF TypeOK
    <2> QED  BY Zenon, <2>2 DEF EndRec, Text
  <1>6. nn \in BOOLEAN
    BY <1>3 DEF Inner
  <1>7. p \in Text /\ p \notin {None, AnyPort}
    BY Zenon, <1>2, <1>3 DEF PutBack, Inner, Listeners
  <1>8. Opened(n, h, a)
    <2> HIDE DEF nn, h, a
    <2> QED  BY <1>4, <1>5, <1>6, AcceptTypes, Zenon
  <1>9. /\ r \in Inner /\ r.listener = p /\ r.stream = sock[l].stream
        /\ r.peer = sock[l].peer /\ r.bound = sock[l].bound
        /\ r.acceptor = sock[l].acceptor /\ r.path = sock[l].path
        /\ r.udp = sock[l].udp /\ r.peek = sock[l].peek /\ r.shut = sock[l].shut
        /\ r.opts = sock[l].opts
    <2> DEFINE q == sock[l]
    <2> HIDE DEF p, q
    <2>1. q \in Inner
      BY <1>3 DEF q
    <2>2. LET v == [q EXCEPT !.listener = p]
          IN  /\ v \in Inner /\ v.listener = p /\ v.stream = q.stream /\ v.peer = q.peer
              /\ v.bound = q.bound /\ v.acceptor = q.acceptor /\ v.path = q.path
              /\ v.udp = q.udp /\ v.peek = q.peek /\ v.shut = q.shut /\ v.opts = q.opts
      BY <2>1, <1>7, ListenerTypes
    <2> QED  BY <2>2 DEF q
  <1> HIDE DEF r, n, a, nn, p
  <1>10. /\ DOMAIN mid = DOMAIN sock /\ mid[l] = r
         /\ \A u \in DOMAIN sock : u # l => mid[u] = sock[u]
    BY <1>3
  <1> HIDE DEF mid
  <1>11. /\ DOMAIN sock' = DOMAIN sock \cup {t} /\ sock'[t] = n /\ sock'[l] = r
         /\ \A u \in DOMAIN sock : u # l => sock'[u] = sock[u]
         /\ sock' = [u \in DOMAIN sock \cup {t} |-> sock'[u]]
    BY <1>1, <1>3, <1>10 DEF Put
  <1>12. sock' \in [DOMAIN sock' -> Inner]
    BY Zenon, <1>3, <1>8, <1>9, <1>11 DEF Opened
  <1>13. /\ EndOf(t)' = h /\ \A u \in DOMAIN sock : EndOf(u)' = EndOf(u)
    <2>1. call'.op = "none"
      BY <1>1 DEF Idle
    <2>2. n.stream = h
      BY <1>8 DEF Opened
    <2> HIDE DEF h
    <2> QED  BY ZenonT(60), <2>1, <2>2, <1>1, <1>9, <1>11 DEF EndOf
  <1>14. /\ \A u \in DOMAIN sock :
               /\ sock'[u].peek = sock[u].peek /\ sock'[u].peer = sock[u].peer
               /\ sock'[u].shut = sock[u].shut
         /\ sock'[t].peek = << >> /\ sock'[t].peer = a
    BY Zenon, <1>8, <1>9, <1>11 DEF Opened
  <1>15. ~Unix => sock'[t].peer = conn[h[1]][Other(h[2])].addr
    BY Zenon, <1>14 DEF a
  <1>16. /\ Streams' /\ Waiting' /\ Apart' /\ Peered' /\ DOMAIN backlog' = DOMAIN backlog
         /\ backlog' \in [DOMAIN backlog' -> Seq(Nat \X Nat)]
    BY ZenonT(30), <1>1, <1>2, <1>3, <1>11, <1>13, <1>14, <1>15, HeadMoves
  <1>17. TypeOK'
    BY Zenon, <1>1, <1>2, <1>11, <1>12, <1>16 DEF TypeOK, Calls, Idle, frozen
  <1>18. Parked'
    BY Zenon, <1>1 DEF Parked, Idle
  <1>19. Listeners'
    <2>1. n.listener = None /\ ~n.acceptor /\ ~n.path /\ None # AnyPort
      BY <1>8 DEF Opened, None, AnyPort
    <2>2. call'.op = "none" /\ lost' = lost
      BY <1>1 DEF Idle
    <2>3. Unix' = Unix
      BY Zenon, <1>1 DEF Unix, Family
    <2>4. ASSUME NEW u \in DOMAIN sock'
          PROVE  /\ sock'[u].listener # AnyPort
                 /\ sock'[u].listener # None => u \in DOMAIN backlog'
                 /\ u \notin lost' /\ (sock'[u].acceptor \/ sock'[u].path) =>
                       sock'[u].listener # None
      <3>1. CASE u = t
        BY Zenon, <3>1, <2>1, <1>11
      <3>2. CASE u = l
        BY Zenon, <3>2, <1>3, <1>7, <1>9, <1>11, <1>16
      <3>3. CASE u \in DOMAIN sock /\ u # l
        <4>1. sock'[u] = sock[u]
          BY Zenon, <3>3, <1>11
        <4> QED  BY ZenonT(30), <3>3, <4>1, <2>2, <1>2, <1>16 DEF Listeners
      <3> QED  BY Zenon, <3>1, <3>2, <3>3, <1>11
    <2> QED  BY Zenon, <2>2, <2>4 DEF Listeners
  <1>20. Udp' /\ Image' /\ ListenersSurvive'
    <2>1. UdpKeeps
      BY Zenon, <1>8, <1>9, <1>11 DEF UdpKeeps, Opened
    <2> QED  BY SMTT(30), <2>1, <1>1, <1>2, UdpStays, ImageStays
  <1> QED  BY SMTT(30), <1>16, <1>17, <1>18, <1>19, <1>20 DEF IInv

\* No socket has a stream, and nothing waits.
LEMMA NoStreams ==
  ASSUME call'.op = "none",
         \A s \in DOMAIN sock' : sock'[s].stream = NoEnd /\ sock'[s].peer = None,
         \A l \in DOMAIN backlog' : backlog'[l] = << >>
  PROVE  Streams' /\ Waiting' /\ Apart' /\ Parked' /\ Peered'
  <1>1. \A s \in DOMAIN sock' : EndOf(s)' = NoEnd
    BY DEF EndOf
  <1>2. \A l \in DOMAIN backlog' : 1 .. Len(backlog'[l]) = {}
    OBVIOUS
  <1>3. Streams' /\ Waiting' /\ Apart'
    <2>1. Streams'
      BY Zenon, <1>1 DEF Streams
    <2>2. Waiting'
      BY Zenon, <1>2 DEF Waiting
    <2>3. Apart'
      BY Zenon, <1>1, <1>2 DEF Apart
    <2> QED  BY Zenon, <2>1, <2>2, <2>3
  <1>4. Parked' /\ Peered'
    BY <1>1 DEF Parked, Peered
  <1> QED  BY <1>3, <1>4

\* Freezing the instance keeps the invariant.
LEMMA FreezeStep ==
  ASSUME IInv, Freeze PROVE IInv'
  <1>1. /\ phase = "running" /\ phase' = "frozen"
        /\ image' = [s \in DOMAIN sock |-> SocketSnapshot(s)]
        /\ before' = [s \in DOMAIN sock |->
                         [at |-> ServedBy(s), bound |-> sock[s].bound,
                          parked |-> call.op = "accept" /\ call.s = s]]
        /\ sock' = EmptyMap /\ conn' = EmptyMap /\ backlog' = EmptyMap
        /\ call' = Idle /\ lost' = {} /\ program' = program
    BY Zenon DEF Freeze
  <1>2. TypeOK /\ Listeners
    BY DEF IInv
  <1>3. DOMAIN sock' = {} /\ DOMAIN conn' = {} /\ DOMAIN backlog' = {} /\ call'.op = "none"
    BY <1>1 DEF EmptyMap, Idle
  <1>4. TypeOK'
    BY <1>1, <1>3 DEF TypeOK, Calls, EmptyMap
  <1>5. Streams' /\ Waiting' /\ Apart' /\ Parked' /\ Peered'
    BY <1>3, NoStreams
  <1>6. Listeners' /\ Udp'
    BY <1>3 DEF Listeners, Udp
  <1>7. ASSUME NEW s \in DOMAIN sock
        PROVE  /\ SocketSnapshot(s) \in Entry /\ ServedBy(s) # AnyPort
               /\ ServedBy(s) # None /\ sock[s].bound = AnyPort
                     /\ ~(call.op = "accept" /\ call.s = s) =>
                  SocketSnapshot(s).bound = ServedBy(s)
               /\ sock[s].bound # AnyPort => SocketSnapshot(s).bound = sock[s].bound
    <2>1. sock[s] \in Inner
      BY <1>2 DEF TypeOK
    <2>2. PortToRecord(s) \in Text
      BY <2>1 DEF PortToRecord, Inner
    <2>3. SocketSnapshot(s) \in Entry
      BY <2>1, <2>2 DEF SocketSnapshot, Entry, Inner
    <2>4. SocketSnapshot(s).bound = PortToRecord(s)
      BY Zenon DEF SocketSnapshot
    <2>5. ServedBy(s) # AnyPort
      BY <1>2 DEF ServedBy, Listeners, None, AnyPort
    <2> QED  BY Zenon, <2>3, <2>4, <2>5 DEF ServedBy, PortToRecord
  <1>8. Image'
    <2>1. DOMAIN image' = DOMAIN sock /\ DOMAIN before' = DOMAIN sock
      BY <1>1
    <2>2. \A s \in DOMAIN sock :
             /\ image'[s] = SocketSnapshot(s) /\ before'[s].at = ServedBy(s)
             /\ before'[s].bound = sock[s].bound
             /\ ~before'[s].parked => ~(call.op = "accept" /\ call.s = s)
      BY Zenon, <1>1
    <2>3. image' \in [DOMAIN image' -> Entry] /\ DOMAIN image' \subseteq Sock
      BY Zenon, <2>1, <1>1, <1>2, <1>7 DEF TypeOK
    <2> QED  BY <2>1, <2>2, <2>3, <1>7 DEF Image
  <1>9. ListenersSurvive'
    BY Zenon, <1>1 DEF ListenersSurvive
  <1> QED  BY SMTT(30), <1>4, <1>5, <1>6, <1>8, <1>9 DEF IInv

\* A socket that serves at p and has neither stream nor UDP state.
Serving(r, p) ==
    /\ r \in Inner /\ r.stream = NoEnd /\ r.peer = None /\ r.listener = p
    /\ ~r.udp.made /\ ~r.udp.reuse /\ r.udp.local = None

\* The listener an instance starts with serves its address.
LEMMA InheritedTypes == Serving(Inherited, "a")
  <1>1. New(FALSE) \in Inner /\ New(FALSE).stream = NoEnd /\ New(FALSE).peer = None
        /\ New(FALSE).udp = NoUdp
    BY Zenon, NewTypes
  <1>2. Inherited \in Inner
    BY ZenonT(30), <1>1 DEF Inherited, Inner, Text, Addr, Fixed
  <1>3. /\ Inherited.stream = NoEnd /\ Inherited.peer = None /\ Inherited.listener = "a"
        /\ Inherited.udp = NoUdp
    BY DEF Inherited, New
  <1> QED  BY <1>2, <1>3 DEF Serving, NoUdp

\* A fresh socket given a listener is a serving listener.
LEMMA ServingTypes ==
  ASSUME NEW q \in Inner, NEW p \in Text, NEW b \in Text, NEW u \in BOOLEAN,
         NEW o \in SUBSET {"REUSEADDR"},
         q.stream = NoEnd /\ q.peer = None /\ q.udp = NoUdp
  PROVE  Serving([q EXCEPT !.listener = p, !.bound = b, !.listening = TRUE,
                           !.acceptor = TRUE, !.path = u, !.opts = o], p)
  <1> DEFINE x == [q EXCEPT !.listener = p, !.bound = b]
             y == [x EXCEPT !.listening = TRUE, !.acceptor = TRUE]
             z == [y EXCEPT !.path = u, !.opts = o]
  <1>1. x \in Inner
    BY Zenon DEF Inner
  <1>2. x.stream = q.stream /\ x.peer = q.peer /\ x.udp = q.udp /\ x.listener = p
    BY DEF Inner
  <1> HIDE DEF x
  <1>3. y \in Inner
    BY Zenon, <1>1 DEF Inner
  <1>4. y.stream = x.stream /\ y.peer = x.peer /\ y.udp = x.udp /\ y.listener = x.listener
    BY <1>1 DEF Inner
  <1> HIDE DEF y
  <1>5. z \in Inner
    BY Zenon, <1>3 DEF Inner
  <1>6. z.stream = y.stream /\ z.peer = y.peer /\ z.udp = y.udp /\ z.listener = y.listener
    BY <1>3 DEF Inner
  <1> HIDE DEF z
  <1>7. Serving(z, p)
    <2>1. NoUdp.made = FALSE /\ NoUdp.reuse = FALSE /\ NoUdp.local = None
      BY Zenon DEF NoUdp
    <2> QED  BY Zenon, <2>1, <1>2, <1>4, <1>5, <1>6 DEF Serving
  <1> QED  BY <1>7 DEF z, y, x

\* A listener rebuilt from its snapshot entry is a serving listener.
LEMMA ReopenedTypes ==
  ASSUME NEW e \in Entry, NEW p \in Text
  PROVE  Serving([New(e.nonblock) EXCEPT !.listener = p, !.bound = e.bound,
                    !.listening = TRUE, !.acceptor = TRUE, !.path = e.path,
                    !.opts = IF e.reuse THEN {"REUSEADDR"} ELSE {}], p)
  <1> DEFINE o == IF e.reuse THEN {"REUSEADDR"} ELSE {}
             q == New(e.nonblock)
             b == e.bound
             u == e.path
             r == [q EXCEPT !.listener = p, !.bound = b, !.listening = TRUE,
                            !.acceptor = TRUE, !.path = u, !.opts = o]
  <1>1. e.nonblock \in BOOLEAN /\ b \in Text /\ u \in BOOLEAN /\ o \in SUBSET {"REUSEADDR"}
    BY DEF Entry
  <1>2. q \in Inner /\ q.stream = NoEnd /\ q.peer = None /\ q.udp = NoUdp
    BY <1>1, NewTypes
  <1> HIDE DEF q, b, u, o
  <1>3. Serving(r, p)
    BY <1>1, <1>2, ServingTypes, Zenon
  <1> QED  BY <1>3 DEF q, b, u, o

\* The invariant holds at the start.
LEMMA InitEstablishes ==
  ASSUME Init PROVE IInv
  <1>1. /\ conn = EmptyMap /\ call = Idle /\ lost = {} /\ phase = "running"
        /\ image = EmptyMap /\ before = EmptyMap
        /\ \/ sock = EmptyMap /\ backlog = EmptyMap
           \/ \E s \in Sock : sock = [x \in {s} |-> Inherited] /\ backlog = [x \in {s} |-> << >>]
    BY Zenon DEF Init
  <1>2. /\ DOMAIN conn = {} /\ DOMAIN image = {} /\ DOMAIN before = {} /\ call.op = "none"
    BY <1>1 DEF EmptyMap, Idle
  <1>3. /\ sock = [x \in DOMAIN sock |-> sock[x]] /\ DOMAIN sock \subseteq Sock
        /\ DOMAIN backlog = DOMAIN sock /\ backlog = [x \in DOMAIN backlog |-> << >>]
        /\ \A s \in DOMAIN sock : sock[s] = Inherited
    BY Zenon, <1>1 DEF EmptyMap
  <1>4. \A s \in DOMAIN sock : Serving(sock[s], "a")
    BY <1>3, InheritedTypes
  <1>5. TypeOK
    <2>1. sock \in [DOMAIN sock -> Inner]
      BY <1>3, <1>4 DEF Serving
    <2>2. backlog \in [DOMAIN backlog -> Seq(Nat \X Nat)]
      <3>1. << >> \in Seq(Nat \X Nat)
        OBVIOUS
      <3> DEFINE D == DOMAIN backlog
                 Q == Seq(Nat \X Nat)
      <3>2. backlog = [x \in D |-> << >>]
        BY <1>3
      <3> HIDE DEF D, Q
      <3>3. backlog \in [D -> Q]
        BY <3>1, <3>2 DEF Q
      <3> QED  BY <3>3 DEF D, Q
    <2> QED  BY <2>1, <2>2, <1>1, <1>2, <1>3 DEF TypeOK, EmptyMap, Calls
  <1>6. Streams /\ Waiting /\ Apart /\ Parked /\ Peered
    <2>1. \A s \in DOMAIN sock : EndOf(s) = NoEnd
      BY <1>2, <1>4 DEF EndOf, Serving
    <2>2. \A l \in DOMAIN backlog : 1 .. Len(backlog[l]) = {}
      BY <1>3
    <2>3. \A s \in DOMAIN sock : sock[s].peer = None
      BY <1>4 DEF Serving
    <2> QED  BY Zenon, <2>1, <2>2, <2>3, <1>2 DEF Streams, Waiting, Apart, Parked, Peered
  <1>7. Listeners
    BY <1>2, <1>3, <1>4 DEF Listeners, Serving, None, AnyPort
  <1>8. Udp
    BY <1>4 DEF Udp, Serving
  <1>9. Image /\ ListenersSurvive
    BY <1>1, <1>2 DEF Image, ListenersSurvive, EmptyMap
  <1> QED  BY <1>5, <1>6, <1>7, <1>8, <1>9 DEF IInv

\* Restoring a snapshot keeps the invariant.
LEMMA RestoreStep ==
  ASSUME IInv, NEW handed, NEW taken, Restore(handed, taken) PROVE IInv'
  <1> DEFINE mine == { s \in DOMAIN image : ~image[s].inherited }
             back == { s \in handed \cap DOMAIN image : image[s].inherited }
             used == busy' \cup IF Family = "inherited" THEN {"a"} ELSE {}
  <1>1. /\ phase = "frozen" /\ UNCHANGED <<program, conn, call, lost, image, before>>
        /\ \/ phase' = "refused" /\ UNCHANGED <<sock, backlog>>
           \/ /\ phase' = "restored" /\ backlog' = [s \in mine \cup back |-> << >>]
              /\ \E at \in [mine -> Fixed \cup Picked \cup {Path}] :
                    /\ \A s \in mine : at[s] \in Grants(image[s].bound, used)
                    /\ sock' = [s \in mine \cup back |->
                                  IF s \in mine THEN Reopened(s, at[s]) ELSE Inherited]
    BY Zenon DEF Restore
  <1>2. /\ TypeOK /\ Streams /\ Waiting /\ Apart /\ Parked /\ Peered /\ Listeners
        /\ Udp /\ Image /\ call = Idle /\ call.op = "none"
    BY <1>1 DEF IInv, TypeOK, Idle
  <1>3. Image'
    BY Zenon, <1>1, <1>2 DEF Image
  <1>4. CASE phase' = "refused" /\ UNCHANGED <<sock, backlog>>
    <2>1. \A s : EndOf(s)' = EndOf(s)
      BY Zenon, <1>1, <1>4 DEF EndOf
    <2>2. Unix' = Unix /\ Family' = Family
      BY SMTT(30), <1>1 DEF Unix, Family
    <2>3. TypeOK' /\ Streams' /\ Waiting' /\ Apart' /\ Parked'
      <3>1. TypeOK'
        BY Zenon, <1>1, <1>2, <1>4 DEF TypeOK
      <3>2. Streams' /\ Waiting'
        BY Zenon, <1>1, <1>2, <1>4, <2>1 DEF Streams, Waiting
      <3>3. Apart'
        <4>1. Apart /\ sock' = sock /\ backlog' = backlog
          BY Zenon, <1>2, <1>4
        <4> QED  BY ONLY <4>1, <2>1 DEF Apart
      <3>4. Parked'
        BY Zenon, <1>1, <1>2, <1>4 DEF Parked
      <3> QED  BY Zenon, <3>1, <3>2, <3>3, <3>4
    <2>4. Peered' /\ Listeners' /\ Udp'
      BY ZenonT(30), <1>1, <1>2, <1>4, <2>1, <2>2 DEF Peered, Listeners, Udp
    <2>5. ListenersSurvive'
      BY Zenon, <1>4 DEF ListenersSurvive
    <2> QED  BY <1>3, <2>3, <2>4, <2>5 DEF IInv
  <1>5. CASE phase' = "restored"
    <2>1. PICK at \in [mine -> Fixed \cup Picked \cup {Path}] :
             /\ \A s \in mine : at[s] \in Grants(image[s].bound, used)
             /\ sock' = [s \in mine \cup back |->
                           IF s \in mine THEN Reopened(s, at[s]) ELSE Inherited]
      BY Zenon, <1>1, <1>5
    <2>2. /\ backlog' = [s \in mine \cup back |-> << >>] /\ mine \cup back \subseteq Sock
          /\ mine \cup back \subseteq DOMAIN image
      BY Zenon, <1>1, <1>2, <1>5 DEF Image
    <2>3. \A s \in mine : at[s] \in Text /\ at[s] \notin {None, AnyPort}
      <3>1. Fixed \cup Picked \cup {Path} \subseteq Text \ {None, AnyPort}
        BY DEF Text, Addr, Fixed, Picked, Path, None, AnyPort
      <3>2. \A s \in mine : at[s] \in Fixed \cup Picked \cup {Path}
        <4> HIDE DEF mine
        <4> QED  OBVIOUS
      <3> QED  BY <3>1, <3>2
    <2>4. ASSUME NEW s \in mine PROVE Serving(Reopened(s, at[s]), at[s])
      <3> DEFINE e == image[s]
                 p == at[s]
      <3>1. e \in Entry /\ p \in Text
        BY <1>2, <2>3 DEF Image
      <3>2. Reopened(s, p) = [New(e.nonblock) EXCEPT !.listener = p, !.bound = e.bound,
                    !.listening = TRUE, !.acceptor = TRUE, !.path = e.path,
                    !.opts = IF e.reuse THEN {"REUSEADDR"} ELSE {}]
        BY DEF Reopened
      <3> HIDE DEF e, p
      <3>3. Serving(Reopened(s, p), p)
        BY ZenonT(30), <3>1, <3>2, ReopenedTypes, Zenon
      <3> QED  BY <3>3 DEF p
    <2>5. /\ DOMAIN sock' = mine \cup back /\ DOMAIN backlog' = mine \cup back
          /\ \A s \in mine \cup back : backlog'[s] = << >>
          /\ \A s \in mine : sock'[s] = Reopened(s, at[s])
          /\ \A s \in back : sock'[s] = Inherited
      <3>1. \A s \in back : s \notin mine
        OBVIOUS
      <3> HIDE DEF mine, back
      <3> QED  BY <3>1, <2>1, <2>2
    <2>6. \A s \in DOMAIN sock' : \E p : Serving(sock'[s], p) /\ p \notin {None, AnyPort}
      <3>1. "a" \notin {None, AnyPort}
        BY DEF None, AnyPort
      <3> HIDE DEF mine, back
      <3> QED  BY Zenon, <3>1, <2>3, <2>4, <2>5, InheritedTypes
    <2>7. \A s \in DOMAIN sock' :
             /\ sock'[s] \in Inner /\ sock'[s].stream = NoEnd /\ sock'[s].peer = None
             /\ sock'[s].listener \notin {None, AnyPort}
             /\ ~sock'[s].udp.made /\ ~sock'[s].udp.reuse /\ sock'[s].udp.local = None
      BY Zenon, <2>6 DEF Serving
    <2>8. TypeOK'
      <3> HIDE DEF mine, back
      <3>1. sock' \in [DOMAIN sock' -> Inner]
        BY Zenon, <2>1, <2>5, <2>7
      <3>2. backlog' \in [DOMAIN backlog' -> Seq(Nat \X Nat)]
        BY <2>2
      <3> QED  BY <3>1, <3>2, <1>1, <1>2, <2>2, <2>5 DEF TypeOK
    <2>9. Streams' /\ Waiting' /\ Apart' /\ Parked' /\ Peered'
      <3> HIDE DEF mine, back
      <3> QED  BY SMTT(30), <1>1, <1>2, <2>5, <2>7, NoStreams
    <2>10. Listeners'
      <3> HIDE DEF mine, back
      <3>1. call'.op = "none" /\ "none" # "accept"
        BY Zenon, <1>1, <1>2
      <3> QED  BY Zenon, <3>1, <2>5, <2>7 DEF Listeners
    <2>11. Udp'
      BY Zenon, <2>7 DEF Udp
    <2>12. ListenersSurvive'
      <3> SUFFICES ASSUME NEW s \in DOMAIN before, before[s].at # None,
                          \/ before[s].bound = before[s].at
                          \/ before[s].bound = AnyPort /\ ~before[s].parked
                   PROVE  IF image[s].inherited
                          THEN s \in DOMAIN sock' => sock'[s].listener = "a"
                          ELSE s \in DOMAIN sock' /\ sock'[s].listener = before[s].at
        BY Zenon, <1>1 DEF ListenersSurvive, Serves
      <3>1. CASE image[s].inherited
        <4>1. s \in DOMAIN sock' => s \in back
          BY Zenon, <3>1, <2>5
        <4> QED  BY Zenon, <3>1, <4>1, <2>5, InheritedTypes DEF Serving
      <3>2. CASE ~image[s].inherited
        <4>1. s \in mine
          BY <3>2, <1>2 DEF Image
        <4>2. image[s].bound = before[s].at /\ before[s].at # AnyPort
          BY <1>2 DEF Image
        <4>3. at[s] = before[s].at
          BY Zenon, <2>1, <4>1, <4>2 DEF Grants
        <4>4. sock'[s].listener = at[s] /\ s \in DOMAIN sock'
          BY Zenon, <2>4, <2>5, <4>1 DEF Serving
        <4> QED  BY Zenon, <3>2, <4>3, <4>4
      <3> QED  BY Zenon, <3>1, <3>2
    <2> QED  BY <1>3, <2>8, <2>9, <2>10, <2>11, <2>12 DEF IInv
  <1> QED  BY <1>1, <1>4, <1>5

----------------------------------------------------------------------------
(* Every step, and what it means for the properties.                       *)

\* The calls that make and name sockets keep the invariant.
LEMMA NamingPreserves ==
  ASSUME IInv, NEW s \in Sock, Naming(s) PROVE IInv'
  <1>1. CASE \E nb \in Flag : Socket(s, nb)
    BY Zenon, <1>1, SocketStep DEF Flag
  <1>2. CASE \E t \in Sock : Socketpair(s, t)
    BY <1>2, SocketpairStep
  <1>3. CASE \E a : BindTcp(s, a) \/ BindUdp(s, a)
    BY <1>3, BindTcpStep, BindUdpStep
  <1>4. CASE BindUnix(s)
    BY <1>4, BindUnixStep
  <1>5. CASE BindUnixRaced(s)
    BY <1>5, NothingSeen DEF BindUnixRaced
  <1>6. CASE Listen(s)
    BY <1>6, ListenStep
  <1>7. CASE Setsockopt(s, "REUSEADDR") \/ GetsockoptError(s)
    BY <1>7, SetsockoptStep, GetsockoptErrorStep
  <1> QED  BY <1>1, <1>2, <1>3, <1>4, <1>5, <1>6, <1>7 DEF Naming

\* The calls that connect, accept, shut down and close keep the invariant.
LEMMA ConnectingPreserves ==
  ASSUME IInv, NEW s \in Sock, Connecting(s) PROVE IInv'
  <1>1. CASE Accept4(s)
    BY <1>1, Accept4Step
  <1>2. CASE \E nb \in Flag : AcceptReturns(s, nb)
    BY Zenon, <1>2, AcceptReturnsStep DEF Flag
  <1>3. CASE AcceptUnixNoMem(s) \/ AcceptFails
    BY <1>3, AcceptUnixNoMemStep, AcceptFailsStep
  <1>4. CASE ConnectRefused(s)
    BY <1>4, ConnectRefusedStep
  <1>5. CASE \E a \in Addr \cup {Server} : Connect(s, a)
    <2>1. Addr \cup {Server} \subseteq Text
      BY DEF Text
    <2> QED  BY <1>5, <2>1, ConnectStep
  <1>6. CASE \E how \in SUBSET {"RD", "WR"} \ {{}} : Shutdown(s, how)
    BY <1>6, ShutdownStep
  <1>7. CASE Close(s)
    BY <1>7, CloseStep
  <1> QED  BY Zenon, <1>1, <1>2, <1>3, <1>4, <1>5, <1>6, <1>7 DEF Connecting

\* The calls that move bytes keep the invariant.
LEMMA BytesPreserves ==
  ASSUME IInv, NEW s \in Sock, Bytes(s) PROVE IInv'
  <1>1. Flag \subseteq BOOLEAN /\ FALSE \in BOOLEAN /\ 1 .. MaxBytes \subseteq Nat
    <2>1. Flag \subseteq BOOLEAN /\ FALSE \in BOOLEAN
      BY Zenon DEF Flag
    <2>2. 1 .. MaxBytes \subseteq Nat
      BY SocketsAssumption
    <2> QED  BY <2>1, <2>2
  <1>2. CASE \E flag : MsgLeavesEarly(s, flag)
    BY <1>2, MsgLeavesEarlyStep
  <1>3. CASE Sendto(s) \/ SendtoUnix(s) \/ \E dontwait \in Flag : Sendmsg(s, dontwait)
    BY Zenon, <1>1, <1>3, SendStep DEF Sendto, SendtoUnix, Sendmsg
  <1>4. ASSUME NEW n \in 1 .. MaxBytes, Recvfrom(s, n) \/ RecvfromUnix(s, n) PROVE IInv'
    BY Zenon, <1>1, <1>4, RecvStep DEF Recvfrom, RecvfromUnix
  <1>5. ASSUME NEW n \in 1 .. MaxBytes, RecvPeeked(s, n) PROVE IInv'
    BY <1>5, RecvPeekedStep
  <1>6. ASSUME NEW n \in 1 .. MaxBytes, NEW peek \in BOOLEAN, NEW dontwait \in Flag,
               Recvmsg(s, peek, dontwait, n)
        PROVE  IInv'
    BY <1>1, <1>6, RecvStep DEF Recvmsg
  <1>7. CASE SendReturns \/ RecvReturns
    BY <1>7, SendReturnsStep, RecvReturnsStep
  <1> QED  BY <1>2, <1>3, <1>4, <1>5, <1>6, <1>7 DEF Bytes

\* The steps of the remote peers and of the host keep the invariant.
LEMMA PeersPreserve ==
  ASSUME IInv, Peers PROVE IInv'
  <1>1. CASE \E s \in Sock : RemoteConnect(s)
    BY <1>1, RemoteConnectStep
  <1>2. CASE \E c \in DOMAIN conn, i \in {1, 2} : RemoteSend(c, i) \/ RemoteClose(c, i)
    BY <1>2, RemoteSendStep, RemoteCloseStep
  <1>3. CASE PathRemoved
    BY <1>3, NothingSeen DEF PathRemoved
  <1> QED  BY <1>1, <1>2, <1>3 DEF Peers

\* Every step keeps the invariant.
LEMMA NextPreserves ==
  ASSUME IInv, [Next]_vars PROVE IInv'
  <1>1. CASE \E s \in Sock : Naming(s) \/ Connecting(s) \/ Bytes(s)
    BY <1>1, NamingPreserves, ConnectingPreserves, BytesPreserves
  <1>2. CASE Peers
    BY <1>2, PeersPreserve
  <1>3. CASE Moving
    BY <1>3, FreezeStep, RestoreStep DEF Moving
  <1>4. CASE UNCHANGED vars
    BY <1>4, NothingSeen DEF vars, host
  <1> QED  BY <1>1, <1>2, <1>3, <1>4 DEF Next

\* The invariant holds in every reachable state.
LEMMA AlwaysIInv == Spec => []IInv
  <1>1. Init => IInv
    BY InitEstablishes
  <1>2. IInv /\ [Next]_vars => IInv'
    BY NextPreserves
  <1> QED  BY <1>1, <1>2, PTL DEF Spec

\* Bytes arrive once each and in order, whatever sends, short reads, peeks and
\* parked calls the guest and its peers mix, for any number of sockets,
\* connections and bytes.
THEOREM StreamsInOrder == Spec => []StreamOrder
  <1>1. IInv => StreamOrder
    <2> SUFFICES ASSUME IInv, NEW s \in DOMAIN sock, EndOf(s) # NoEnd
                 PROVE  LET e == conn[EndOf(s)[1]][EndOf(s)[2]]
                            all == e.got \o sock[s].peek \o e.box
                        IN  /\ e.order = "kept" => all = Iota(e.sent)
                            /\ e.order = "past" =>
                                  Len(all) = e.sent /\ { all[k] : k \in DOMAIN all } = 1 .. e.sent
      BY Zenon DEF StreamOrder
    <2>1. Kept(conn, EndOf(s), sock[s].peek)
      BY SMTT(30) DEF IInv, Streams
    <2> DEFINE e == conn[EndOf(s)[1]][EndOf(s)[2]]
               o == e.order
               g == e.got
               p == sock[s].peek
               b == e.box
               n == e.sent
    <2>2. Ordered(o, g, p, b, n)
      BY Zenon, <2>1 DEF Kept, Holds
    <2> HIDE DEF o, g, p, b, n
    <2>3. LET all == g \o p \o b
          IN  /\ o = "kept" => all = Iota(n)
              /\ o = "past" => Len(all) = n /\ { all[k] : k \in DOMAIN all } = 1 .. n
      BY <2>2, OrderedAll, Zenon
    <2> QED  BY <2>3, Zenon DEF o, g, p, b, n
  <1> QED  BY <1>1, AlwaysIInv, PTL

\* getpeername names the other end of the stream a TCP socket has, and only
\* shutdown takes the stream of a connected one for good.
THEOREM PeersAreNamed == Spec => []PeerNamed
  <1>1. IInv => PeerNamed
    BY Zenon DEF IInv, Peered, PeerNamed, Getpeername, EndOf
  <1> QED  BY <1>1, AlwaysIInv, PTL

\* accept4 puts back the listener it took, or has told the guest it failed.
THEOREM ListenersAreKept == Spec => []ListenerKept
  <1>1. IInv => ListenerKept
    BY SMTT(30) DEF IInv, Listeners, ListenerKept
  <1> QED  BY <1>1, AlwaysIInv, PTL

\* getsockname of a bound UDP socket is the address the host gave it, and
\* sockets share one only if all set SO_REUSEADDR before they were bound.
THEOREM UdpNamesHold == Spec => []UdpNames
  <1>1. IInv => UdpNames
    BY DEF IInv, Udp, UdpNames, Getsockname
  <1> QED  BY <1>1, AlwaysIInv, PTL

\* Every listener that was open when the process was frozen is reopened at
\* its address, from the image alone.
THEOREM ListenersComeBack == Spec => []ListenersSurvive
  <1>1. IInv => ListenersSurvive
    BY DEF IInv
  <1> QED  BY <1>1, AlwaysIInv, PTL
=============================================================================
