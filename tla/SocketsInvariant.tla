------------------------- MODULE SocketsInvariant -------------------------
(* The inductive invariant of Sockets, what keeps its parts, and the calls *)
(* that move no byte and make no connection.                               *)

EXTENDS Sockets, TLAPS

(* The bytes of one end: g taken, p in peek_buf, b in the host, n sent.    *)

\* The bytes numbered from z + 1 on, and the bytes of a sequence.
Counts(q, z) == \A i \in 1 .. Len(q) : q[i] = z + i
Rng(q) == { q[i] : i \in 1 .. Len(q) }
\* Byte number i is the i-th one the guest gets.
InOrder(g, p, b, n) ==
    /\ n = Len(g) + Len(p) + Len(b)
    /\ Counts(g, 0) /\ Counts(p, Len(g)) /\ Counts(b, Len(g) + Len(p))
\* Every byte is in one of the three places.
Complete(g, p, b, n) ==
    /\ n = Len(g) + Len(p) + Len(b)
    /\ Rng(g) \cup Rng(p) \cup Rng(b) = 1 .. n
\* What is claimed of an end in each state of its order.
Ordered(order, g, p, b, n) ==
    /\ g \in Seq(Nat) /\ p \in Seq(Nat) /\ b \in Seq(Nat) /\ n \in Nat
    /\ order = "kept" => InOrder(g, p, b, n)
    /\ order = "past" => Complete(g, p, b, n)

(* The inductive invariant.                                                *)

Text == Addr \cup {None, Server, "remote", "client"}
EndRec == [who : {"guest", "remote"}, addr : Text, open : BOOLEAN, box : Seq(Nat), sent : Nat,
           got : Seq(Nat), order : {"kept", "past", "stale"}]
Inner ==
    [nonblock : BOOLEAN, bound : Text, listening : BOOLEAN, listener : Text,
     acceptor : BOOLEAN, path : BOOLEAN, stream : Nat \X Nat, peer : Text,
     shut : SUBSET {"RD", "WR"}, peek : Seq(Nat), error : BOOLEAN,
     opts : SUBSET {"REUSEADDR"},
     udp : [made : BOOLEAN, reuse : BOOLEAN, local : Text], inherited : BOOLEAN]
Calls ==
    {Idle}
    \cup [op : {"accept"}, s : Sock, held : Text]
    \cup [op : {"send"}, s : Sock, held : Nat \X Nat, was : BOOLEAN]
    \cup [op : {"recv"}, s : Sock, held : Nat \X Nat, was : BOOLEAN,
          peek : BOOLEAN, n : Nat]
TypeOK ==
    /\ sock \in [DOMAIN sock -> Inner] /\ DOMAIN sock \subseteq Sock
    /\ conn \in [DOMAIN conn -> [{1, 2} -> EndRec]] /\ DOMAIN conn \subseteq 1 .. MaxConns
    /\ backlog \in [DOMAIN backlog -> Seq(Nat \X Nat)]
    /\ DOMAIN backlog \subseteq DOMAIN sock
    /\ call \in Calls /\ (call.op # "none" => call.s \in DOMAIN sock)
    /\ phase # "running" => call = Idle

\* An open end of the guest, and its bytes with a peek_buf p.
Live(cs, e) ==
    /\ e[1] \in DOMAIN cs /\ e[2] \in {1, 2}
    /\ cs[e[1]][e[2]].open /\ cs[e[1]][e[2]].who = "guest"
Holds(r, p) == Ordered(r.order, r.got, p, r.box, r.sent)
Kept(cs, e, p) == Holds(cs[e[1]][e[2]], p)

\* Every stream of a socket is open, and it has its bytes.
Streams ==
    \A s \in DOMAIN sock :
        EndOf(s) # NoEnd => Live(conn, EndOf(s)) /\ Kept(conn, EndOf(s), sock[s].peek)
\* So is every connection that waits for accept4.
Waiting ==
    \A l \in DOMAIN backlog : \A k \in 1 .. Len(backlog[l]) :
        Live(conn, backlog[l][k]) /\ Kept(conn, backlog[l][k], << >>)
\* No end has two owners.
Apart ==
    /\ \A s, t \in DOMAIN sock : s # t /\ EndOf(s) = EndOf(t) => EndOf(s) = NoEnd
    /\ \A s \in DOMAIN sock : \A l \in DOMAIN backlog : \A k \in 1 .. Len(backlog[l]) :
          EndOf(s) # backlog[l][k]
    /\ \A l, m \in DOMAIN backlog :
          \A k \in 1 .. Len(backlog[l]), j \in 1 .. Len(backlog[m]) :
             backlog[l][k] = backlog[m][j] => l = m /\ k = j
\* A stream call holds the stream, and peeks only with an empty peek_buf.
Parked ==
    /\ call.op \in {"send", "recv"} =>
          call.held # NoEnd /\ sock[call.s].stream = NoEnd
    /\ call.op = "recv" =>
          /\ call.peek => sock[call.s].peek = << >>
          /\ conn[call.held[1]][call.held[2]].order = "kept" => sock[call.s].peek = << >>
\* PeerNamed, for the stream a call holds too.
Peered ==
    ~Unix => \A s \in DOMAIN sock :
        /\ EndOf(s) # NoEnd => sock[s].peer = conn[EndOf(s)[1]][Other(EndOf(s)[2])].addr
        /\ sock[s].peer # None => EndOf(s) # NoEnd \/ "WR" \in sock[s].shut
\* A listener is in SocketInner or in the accept4 that took it, and is open.
Listeners ==
    /\ \A s \in DOMAIN sock :
          /\ sock[s].listener # AnyPort
          /\ sock[s].listener # None => s \in DOMAIN backlog
          /\ s \notin lost /\ (sock[s].acceptor \/ sock[s].path) =>
                sock[s].listener # None \/ (~Unix /\ call.op = "accept" /\ call.s = s)
    /\ call.op = "accept" => call.held \notin {None, AnyPort} /\ call.s \in DOMAIN backlog
\* Two UDP sockets share an address only if both were made to.
Udp ==
    \A s \in DOMAIN sock :
        /\ ~sock[s].udp.made => sock[s].udp.local = None
        /\ sock[s].udp.reuse => "REUSEADDR" \in sock[s].opts
        /\ sock[s].udp.local # None =>
              /\ Family = "udp" /\ sock[s].bound = sock[s].udp.local
              /\ \A t \in DOMAIN sock \ {s} :
                    sock[t].udp.local = sock[s].udp.local =>
                        sock[s].udp.reuse /\ sock[t].udp.reuse
\* What was frozen is what the image says of it.
Entry == [bound : Text, acceptor : BOOLEAN, peered : BOOLEAN, path : BOOLEAN,
          nonblock : BOOLEAN, reuse : BOOLEAN, inherited : BOOLEAN]
Image ==
    /\ image \in [DOMAIN image -> Entry] /\ DOMAIN image \subseteq Sock
    /\ DOMAIN image = DOMAIN before
    /\ \A s \in DOMAIN before :
          /\ before[s].at # AnyPort
          /\ before[s].at # None /\ before[s].bound = AnyPort /\ ~before[s].parked =>
                image[s].bound = before[s].at
          /\ before[s].bound # AnyPort => image[s].bound = before[s].bound
IInv ==
    /\ TypeOK /\ Streams /\ Waiting /\ Apart /\ Parked /\ Peered
    /\ Listeners /\ Udp /\ Image /\ ListenersSurvive
----------------------------------------------------------------------------
\* A sequence is what a read of up to k bytes takes and what it leaves.
LEMMA CutAt ==
  ASSUME NEW q \in Seq(Nat), NEW k \in Nat
  PROVE  LET f == FirstOf(q, k)
             a == AfterFirst(q, k)
         IN  /\ f \in Seq(Nat) /\ a \in Seq(Nat) /\ Len(q) = Len(f) + Len(a)
             /\ \A i \in 1 .. Len(f) : f[i] = q[i]
             /\ \A i \in 1 .. Len(a) : a[i] = q[Len(f) + i]
  <1> DEFINE m == MinOf(k, Len(q))
  <1>1. m \in 0 .. Len(q) /\ Len(q) \in Nat
    BY DEF MinOf
  <1>2. \A i \in 1 .. Len(q) : q[i] \in Nat
    OBVIOUS
  <1>3. FirstOf(q, k) = SubSeq(q, 1, m)
    BY DEF FirstOf
  <1>4. m < k => m = Len(q)
    BY DEF MinOf
  <1>5. m <= k
    BY DEF MinOf
  <1> HIDE DEF m
  <1>6. /\ SubSeq(q, 1, m) \in Seq(Nat) /\ Len(SubSeq(q, 1, m)) = m
        /\ \A i \in 1 .. m : SubSeq(q, 1, m)[i] = q[i]
    BY <1>1, <1>2
  <1>7. /\ AfterFirst(q, k) \in Seq(Nat) /\ Len(AfterFirst(q, k)) = Len(q) - m
        /\ \A i \in 1 .. Len(q) - m : AfterFirst(q, k)[i] = q[m + i]
    <2>1. CASE m = k
      <3>1. /\ SubSeq(q, m + 1, Len(q)) \in Seq(Nat)
            /\ Len(SubSeq(q, m + 1, Len(q))) = Len(q) - m
            /\ \A i \in 1 .. Len(q) - m : SubSeq(q, m + 1, Len(q))[i] = q[m + i]
        BY <1>1, <1>2
      <3> QED  BY <2>1, <3>1 DEF AfterFirst
    <2>2. CASE m # k
      <3>1. m = Len(q) /\ k > Len(q)
        BY <2>2, <1>1, <1>4, <1>5
      <3>2. SubSeq(q, k + 1, Len(q)) = << >>
        BY <3>1, <1>1
      <3> QED  BY <3>1, <3>2, <1>1 DEF AfterFirst
    <2> QED  BY <2>1, <2>2
  <1> DEFINE f == FirstOf(q, k)
             a == AfterFirst(q, k)
  <1>8. f \in Seq(Nat) /\ Len(f) = m /\ \A i \in 1 .. m : f[i] = q[i]
    BY <1>3, <1>6
  <1>9. /\ a \in Seq(Nat) /\ Len(a) = Len(q) - m
        /\ \A i \in 1 .. Len(q) - m : a[i] = q[m + i]
    BY <1>7
  <1> HIDE DEF f, a
  <1>10. Len(q) = Len(f) + Len(a)
    BY <1>1, <1>8, <1>9
  <1>11. /\ \A i \in 1 .. Len(f) : f[i] = q[i]
         /\ \A i \in 1 .. Len(a) : a[i] = q[Len(f) + i]
    BY <1>8, <1>9
  <1> QED  BY <1>8, <1>9, <1>10, <1>11 DEF f, a

\* Cutting a stream at k loses no byte, and both halves keep counting.
LEMMA Cut ==
  ASSUME NEW q \in Seq(Nat), NEW k \in Nat
  PROVE  LET f == FirstOf(q, k)
             a == AfterFirst(q, k)
         IN  /\ f \in Seq(Nat) /\ a \in Seq(Nat) /\ Len(q) = Len(f) + Len(a)
             /\ Rng(f) \cup Rng(a) = Rng(q)
             /\ \A z \in Nat : Counts(q, z) => Counts(f, z) /\ Counts(a, z + Len(f))
  <1> DEFINE f == FirstOf(q, k)
             a == AfterFirst(q, k)
  <1>1. /\ f \in Seq(Nat) /\ a \in Seq(Nat) /\ Len(q) = Len(f) + Len(a)
        /\ \A i \in 1 .. Len(f) : f[i] = q[i]
        /\ \A i \in 1 .. Len(a) : a[i] = q[Len(f) + i]
    BY Zenon, CutAt
  <1> HIDE DEF f, a
  <1>2. Len(f) \in Nat /\ Len(a) \in Nat
    BY <1>1
  <1>3. \A i \in 1 .. Len(q) : i \in 1 .. Len(f) \/ (i - Len(f) \in 1 .. Len(a) /\ Len(f) + (i - Len(f)) = i)
    BY <1>1, <1>2
  <1>4. /\ \A i \in 1 .. Len(f) : i \in 1 .. Len(q)
        /\ \A i \in 1 .. Len(a) : Len(f) + i \in 1 .. Len(q)
    BY <1>1, <1>2
  <1>5. Rng(f) \cup Rng(a) = Rng(q)
    <2>1. \A x \in Rng(f) : x \in Rng(q)
      BY <1>1, <1>4 DEF Rng
    <2>2. \A x \in Rng(a) : x \in Rng(q)
      BY ZenonT(30), <1>1, <1>4 DEF Rng
    <2>3. ASSUME NEW x \in Rng(q) PROVE x \in Rng(f) \cup Rng(a)
      <3>1. PICK i \in 1 .. Len(q) : x = q[i]
        BY <2>3 DEF Rng
      <3>2. CASE i \in 1 .. Len(f)
        BY SMTT(30), <3>1, <3>2, <1>1 DEF Rng
      <3>3. CASE i - Len(f) \in 1 .. Len(a) /\ Len(f) + (i - Len(f)) = i
        <4>1. a[i - Len(f)] = q[i]
          BY Zenon, <3>3, <1>1
        <4> QED  BY <3>1, <3>3, <4>1 DEF Rng
      <3> QED  BY <3>2, <3>3, <1>3
    <2> QED  BY <2>1, <2>2, <2>3
  <1>6. ASSUME NEW z \in Nat, Counts(q, z) PROVE Counts(f, z) /\ Counts(a, z + Len(f))
    <2>1. Counts(f, z)
      BY <1>1, <1>4, <1>6 DEF Counts
    <2>2. ASSUME NEW i \in 1 .. Len(a) PROVE a[i] = z + Len(f) + i
      <3>1. q[Len(f) + i] = z + (Len(f) + i)
        BY <1>4, <1>6 DEF Counts
      <3> QED  BY <3>1, <1>1, <1>2
    <2> QED  BY <2>1, <2>2 DEF Counts
  <1> QED  BY <1>1, <1>5, <1>6 DEF f, a

\* Joining two runs of bytes that follow one another gives one run.
LEMMA Concat ==
  ASSUME NEW a \in Seq(Nat), NEW b \in Seq(Nat)
  PROVE  LET c == a \o b
         IN  /\ c \in Seq(Nat) /\ Len(c) = Len(a) + Len(b)
             /\ Rng(c) = Rng(a) \cup Rng(b)
             /\ \A z \in Nat : Counts(a, z) /\ Counts(b, z + Len(a)) => Counts(c, z)
  <1> DEFINE c == a \o b
  <1>1. /\ c \in Seq(Nat) /\ Len(c) = Len(a) + Len(b)
        /\ \A i \in 1 .. Len(a) + Len(b) : c[i] =
              IF i <= Len(a) THEN a[i] ELSE b[i - Len(a)]
    OBVIOUS
  <1> HIDE DEF c
  <1>2. Len(a) \in Nat /\ Len(b) \in Nat
    OBVIOUS
  <1>3. /\ \A i \in 1 .. Len(a) : i \in 1 .. Len(c) /\ c[i] = a[i]
        /\ \A i \in 1 .. Len(b) : Len(a) + i \in 1 .. Len(c) /\ c[Len(a) + i] = b[i]
    <2>1. ASSUME NEW i \in 1 .. Len(a) PROVE i \in 1 .. Len(c) /\ c[i] = a[i]
      BY <1>1, <1>2
    <2>2. ASSUME NEW i \in 1 .. Len(b)
          PROVE  Len(a) + i \in 1 .. Len(c) /\ c[Len(a) + i] = b[i]
      <3>1. Len(a) + i \in 1 .. Len(a) + Len(b) /\ ~(Len(a) + i <= Len(a))
            /\ (Len(a) + i) - Len(a) = i
        BY <1>2
      <3> QED  BY Zenon, <3>1, <1>1
    <2> QED  BY <2>1, <2>2
  <1>4. \A i \in 1 .. Len(c) : i \in 1 .. Len(a) \/ (i - Len(a) \in 1 .. Len(b) /\ Len(a) + (i - Len(a)) = i)
    BY <1>1, <1>2
  <1>5. Rng(c) = Rng(a) \cup Rng(b)
    <2>1. \A x \in Rng(a) : x \in Rng(c)
      BY <1>3 DEF Rng
    <2>2. \A x \in Rng(b) : x \in Rng(c)
      BY <1>3 DEF Rng
    <2>3. ASSUME NEW x \in Rng(c) PROVE x \in Rng(a) \cup Rng(b)
      <3>1. PICK i \in 1 .. Len(c) : x = c[i]
        BY <2>3 DEF Rng
      <3>2. CASE i \in 1 .. Len(a)
        BY Zenon, <3>1, <3>2, <1>3 DEF Rng
      <3>3. CASE i - Len(a) \in 1 .. Len(b) /\ Len(a) + (i - Len(a)) = i
        <4>1. c[i] = b[i - Len(a)]
          BY <3>3, <1>3
        <4> QED  BY Zenon, <3>1, <3>3, <4>1 DEF Rng
      <3> QED  BY <3>2, <3>3, <1>4
    <2> QED  BY <2>1, <2>2, <2>3
  <1>6. ASSUME NEW z \in Nat, Counts(a, z), Counts(b, z + Len(a)) PROVE Counts(c, z)
    <2>1. ASSUME NEW i \in 1 .. Len(c) PROVE c[i] = z + i
      <3>1. CASE i \in 1 .. Len(a)
        BY <3>1, <1>3, <1>6 DEF Counts
      <3>2. CASE i - Len(a) \in 1 .. Len(b) /\ Len(a) + (i - Len(a)) = i
        <4>1. c[i] = b[i - Len(a)]
          BY <3>2, <1>3
        <4>2. b[i - Len(a)] = (z + Len(a)) + (i - Len(a))
          BY <3>2, <1>6 DEF Counts
        <4> QED  BY <4>1, <4>2, <1>2
      <3> QED  BY <3>1, <3>2, <1>4
    <2> QED  BY <2>1 DEF Counts
  <1> QED  BY <1>1, <1>5, <1>6 DEF c

\* Bytes in order are complete.
LEMMA CountsRng ==
  ASSUME NEW q \in Seq(Nat), NEW z \in Nat, Counts(q, z)
  PROVE  Rng(q) = z + 1 .. z + Len(q)
  <1>1. Len(q) \in Nat
    OBVIOUS
  <1>2. \A x \in Rng(q) : x \in z + 1 .. z + Len(q)
    BY <1>1 DEF Counts, Rng
  <1>3. ASSUME NEW x \in z + 1 .. z + Len(q) PROVE x \in Rng(q)
    <2>1. x - z \in 1 .. Len(q) /\ z + (x - z) = x
      BY <1>1
    <2>2. q[x - z] = x
      BY <2>1 DEF Counts
    <2> QED  BY <2>1, <2>2 DEF Rng
  <1> QED  BY Zenon, <1>2, <1>3

\* Bytes that arrive in order are all there.
LEMMA InOrderComplete ==
  ASSUME NEW g \in Seq(Nat), NEW p \in Seq(Nat), NEW b \in Seq(Nat), NEW n \in Nat,
         InOrder(g, p, b, n)
  PROVE  Complete(g, p, b, n)
  <1>1. Len(g) \in Nat /\ Len(p) \in Nat /\ Len(b) \in Nat /\ n = Len(g) + Len(p) + Len(b)
    BY DEF InOrder
  <1>2. Rng(g) = 0 + 1 .. 0 + Len(g)
    BY CountsRng DEF InOrder
  <1>3. Rng(p) = Len(g) + 1 .. Len(g) + Len(p)
    BY <1>1, CountsRng DEF InOrder
  <1>4. Len(g) + Len(p) \in Nat
    BY <1>1
  <1>5. Rng(b) = (Len(g) + Len(p)) + 1 .. (Len(g) + Len(p)) + Len(b)
    BY <1>4, CountsRng DEF InOrder
  <1>6. (0 + 1 .. 0 + Len(g)) \cup (Len(g) + 1 .. Len(g) + Len(p))
            \cup ((Len(g) + Len(p)) + 1 .. (Len(g) + Len(p)) + Len(b)) = 1 .. n
    BY <1>1
  <1> QED  BY <1>1, <1>2, <1>3, <1>5, <1>6 DEF Complete

\* A byte that is sent comes after all the others.
LEMMA Sending ==
  ASSUME NEW o, NEW g, NEW p, NEW b, NEW n, Ordered(o, g, p, b, n)
  PROVE  Ordered(o, g, p, Append(b, n + 1), n + 1)
  <1> DEFINE new == Append(b, n + 1)
  <1>1. /\ g \in Seq(Nat) /\ p \in Seq(Nat) /\ b \in Seq(Nat) /\ n \in Nat
        /\ n + 1 \in Nat /\ Len(g) \in Nat /\ Len(p) \in Nat /\ Len(b) \in Nat
    BY DEF Ordered
  <1>2. /\ new \in Seq(Nat) /\ Len(new) = Len(b) + 1
        /\ \A i \in 1 .. Len(b) : new[i] = b[i]
        /\ new[Len(b) + 1] = n + 1
    BY <1>1
  <1> HIDE DEF new
  <1>3. ASSUME InOrder(g, p, b, n) PROVE InOrder(g, p, new, n + 1)
    <2>1. n = Len(g) + Len(p) + Len(b)
      BY <1>3 DEF InOrder
    <2>2. \A i \in 1 .. Len(new) : new[i] = (Len(g) + Len(p)) + i
      <3> TAKE i \in 1 .. Len(new)
      <3>1. CASE i \in 1 .. Len(b)
        BY <3>1, <1>2, <1>3 DEF InOrder, Counts
      <3>2. CASE i = Len(b) + 1
        BY <3>2, <2>1, <1>1, <1>2
      <3> QED  BY <3>1, <3>2, <1>1, <1>2
    <2>3. n + 1 = Len(g) + Len(p) + Len(new)
      BY <2>1, <1>1, <1>2
    <2> QED  BY <2>2, <2>3, <1>3 DEF InOrder, Counts
  <1>4. ASSUME Complete(g, p, b, n) PROVE Complete(g, p, new, n + 1)
    <2>1. Rng(new) = Rng(b) \cup {n + 1}
      <3>1. /\ \A i \in 1 .. Len(new) : i \in 1 .. Len(b) \/ i = Len(b) + 1
            /\ Len(b) + 1 \in 1 .. Len(new)
            /\ \A i \in 1 .. Len(b) : i \in 1 .. Len(new)
        BY <1>1, <1>2
      <3>2. \A x \in Rng(new) : x \in Rng(b) \cup {n + 1}
        BY <3>1, <1>2 DEF Rng
      <3>3. \A x \in Rng(b) \cup {n + 1} : x \in Rng(new)
        BY <3>1, <1>2 DEF Rng
      <3> QED  BY <3>2, <3>3
    <2>2. 1 .. n + 1 = (1 .. n) \cup {n + 1}
      BY <1>1
    <2>3. n + 1 = Len(g) + Len(p) + Len(new)
      BY <1>1, <1>2, <1>4 DEF Complete
    <2> QED  BY <2>1, <2>2, <2>3, <1>4 DEF Complete
  <1> QED  BY <1>1, <1>2, <1>3, <1>4 DEF Ordered, new

\* recvmsg drains peek_buf.
LEMMA Draining ==
  ASSUME NEW o, NEW g, NEW p, NEW b, NEW n, Ordered(o, g, p, b, n), NEW k \in Nat
  PROVE  Ordered(o, g \o FirstOf(p, k), AfterFirst(p, k), b, n)
  <1> DEFINE f == FirstOf(p, k)
             a == AfterFirst(p, k)
             j == g \o f
  <1>1. /\ g \in Seq(Nat) /\ p \in Seq(Nat) /\ b \in Seq(Nat) /\ n \in Nat
        /\ Len(g) \in Nat /\ Len(p) \in Nat /\ Len(b) \in Nat
    BY DEF Ordered
  <1>2. /\ f \in Seq(Nat) /\ a \in Seq(Nat) /\ Len(p) = Len(f) + Len(a)
        /\ Rng(f) \cup Rng(a) = Rng(p)
        /\ \A z \in Nat : Counts(p, z) => Counts(f, z) /\ Counts(a, z + Len(f))
    BY Zenon, <1>1, Cut
  <1> HIDE DEF f, a
  <1>3. /\ j \in Seq(Nat) /\ Len(j) = Len(g) + Len(f) /\ Rng(j) = Rng(g) \cup Rng(f)
        /\ \A z \in Nat : Counts(g, z) /\ Counts(f, z + Len(g)) => Counts(j, z)
    BY <1>1, <1>2, Concat
  <1> HIDE DEF j
  <1>4. Len(f) \in Nat /\ Len(a) \in Nat
    BY <1>2
  <1>5. Len(j) + Len(a) = Len(g) + Len(p) /\ 0 + Len(g) = Len(g)
    BY <1>1, <1>2, <1>3, <1>4
  <1>6. ASSUME InOrder(g, p, b, n) PROVE InOrder(j, a, b, n)
    <2>1. Counts(g, 0) /\ Counts(p, Len(g))
      BY <1>6 DEF InOrder
    <2>2. Counts(f, Len(g)) /\ Counts(a, Len(j))
      BY <2>1, <1>1, <1>2, <1>3
    <2>3. Counts(j, 0)
      BY <2>1, <2>2, <1>3, <1>5
    <2> QED  BY <2>2, <2>3, <1>5, <1>6 DEF InOrder
  <1>7. ASSUME Complete(g, p, b, n) PROVE Complete(j, a, b, n)
    BY <1>2, <1>3, <1>5, <1>7 DEF Complete
  <1> QED  BY <1>1, <1>2, <1>3, <1>6, <1>7 DEF Ordered, f, j, a

\* A read of the host takes its oldest bytes; in order if none are peeked.
LEMMA Reading ==
  ASSUME NEW o, NEW g, NEW p, NEW b, NEW n, Ordered(o, g, p, b, n), NEW k \in Nat,
         o = "kept" => p = << >>
  PROVE  Ordered(o, g \o FirstOf(b, k), p, AfterFirst(b, k), n)
  <1> DEFINE f == FirstOf(b, k)
             a == AfterFirst(b, k)
             j == g \o f
  <1>1. /\ g \in Seq(Nat) /\ p \in Seq(Nat) /\ b \in Seq(Nat) /\ n \in Nat
        /\ Len(g) \in Nat /\ Len(p) \in Nat /\ Len(b) \in Nat
    BY DEF Ordered
  <1>2. /\ f \in Seq(Nat) /\ a \in Seq(Nat) /\ Len(b) = Len(f) + Len(a)
        /\ Rng(f) \cup Rng(a) = Rng(b)
        /\ \A z \in Nat : Counts(b, z) => Counts(f, z) /\ Counts(a, z + Len(f))
    BY Zenon, <1>1, Cut
  <1> HIDE DEF f, a
  <1>3. /\ j \in Seq(Nat) /\ Len(j) = Len(g) + Len(f) /\ Rng(j) = Rng(g) \cup Rng(f)
        /\ \A z \in Nat : Counts(g, z) /\ Counts(f, z + Len(g)) => Counts(j, z)
    BY <1>1, <1>2, Concat
  <1> HIDE DEF j
  <1>4. Len(f) \in Nat /\ Len(a) \in Nat
    BY <1>2
  <1>5. /\ Len(j) + Len(p) + Len(a) = Len(g) + Len(p) + Len(b)
        /\ 0 + Len(g) = Len(g)
    BY <1>1, <1>2, <1>3, <1>4
  <1>6. ASSUME InOrder(g, p, b, n), p = << >> PROVE InOrder(j, p, a, n)
    <2>1. Len(p) = 0
      BY <1>6
    <2>2. Len(g) + Len(p) = Len(g) /\ Len(j) + Len(p) = Len(j)
      BY <2>1, <1>1, <1>3, <1>4
    <2>3. Counts(g, 0) /\ Counts(b, Len(g))
      BY <2>2, <1>6 DEF InOrder
    <2>4. Counts(f, Len(g)) /\ Counts(a, Len(j) + Len(p))
      BY <2>2, <2>3, <1>1, <1>2, <1>3
    <2>5. Counts(j, 0)
      BY <2>3, <2>4, <1>3, <1>5
    <2>6. Counts(p, Len(j))
      BY <2>1 DEF Counts
    <2> QED  BY <2>4, <2>5, <2>6, <1>5, <1>6 DEF InOrder
  <1>7. ASSUME Complete(g, p, b, n) PROVE Complete(j, p, a, n)
    BY <1>2, <1>3, <1>5, <1>7 DEF Complete
  <1> QED  BY <1>1, <1>2, <1>3, <1>6, <1>7 DEF Ordered, f, j, a

\* A read with MSG_PEEK, made with an empty peek_buf, fills it.
LEMMA Peeking ==
  ASSUME NEW o, NEW g, NEW b, NEW n, Ordered(o, g, << >>, b, n), NEW k \in Nat
  PROVE  Ordered(o, g, << >> \o FirstOf(b, k), AfterFirst(b, k), n)
  <1> DEFINE f == FirstOf(b, k)
             a == AfterFirst(b, k)
  <1>1. /\ g \in Seq(Nat) /\ b \in Seq(Nat) /\ n \in Nat
        /\ Len(g) \in Nat /\ Len(b) \in Nat
    BY DEF Ordered
  <1>2. /\ f \in Seq(Nat) /\ a \in Seq(Nat) /\ Len(b) = Len(f) + Len(a)
        /\ Rng(f) \cup Rng(a) = Rng(b)
        /\ \A z \in Nat : Counts(b, z) => Counts(f, z) /\ Counts(a, z + Len(f))
    BY Zenon, <1>1, Cut
  <1> HIDE DEF f, a
  <1>3. << >> \o f = f
    BY <1>2
  <1>4. Len(<< >>) = 0 /\ Rng(<< >>) = {} /\ Len(f) \in Nat /\ Len(a) \in Nat
    BY <1>2 DEF Rng
  <1>5. /\ Len(g) + Len(<< >>) = Len(g)
        /\ Len(g) + Len(f) + Len(a) = Len(g) + Len(<< >>) + Len(b)
    BY <1>1, <1>2, <1>4
  <1>6. ASSUME InOrder(g, << >>, b, n) PROVE InOrder(g, f, a, n)
    <2>1. Counts(g, 0) /\ Counts(b, Len(g))
      BY <1>5, <1>6 DEF InOrder
    <2>2. Counts(f, Len(g)) /\ Counts(a, Len(g) + Len(f))
      BY <2>1, <1>1, <1>2
    <2> QED  BY <2>1, <2>2, <1>5, <1>6 DEF InOrder
  <1>7. ASSUME Complete(g, << >>, b, n) PROVE Complete(g, f, a, n)
    BY <1>2, <1>4, <1>5, <1>7 DEF Complete
  <1>8. Ordered(o, g, f, a, n)
    BY <1>1, <1>2, <1>6, <1>7 DEF Ordered
  <1> QED  BY <1>3, <1>8 DEF f, a

\* What Ordered says of the concatenation.
LEMMA OrderedAll ==
  ASSUME NEW o, NEW g, NEW p, NEW b, NEW n, Ordered(o, g, p, b, n)
  PROVE  LET all == g \o p \o b
         IN  /\ o = "kept" => all = Iota(n)
             /\ o = "past" => Len(all) = n /\ { all[k] : k \in DOMAIN all } = 1 .. n
  <1> DEFINE gp == g \o p
             all == gp \o b
  <1>1. /\ g \in Seq(Nat) /\ p \in Seq(Nat) /\ b \in Seq(Nat) /\ n \in Nat
        /\ Len(g) \in Nat /\ Len(p) \in Nat /\ Len(b) \in Nat
    BY DEF Ordered
  <1>2. /\ gp \in Seq(Nat) /\ Len(gp) = Len(g) + Len(p) /\ Rng(gp) = Rng(g) \cup Rng(p)
        /\ \A z \in Nat : Counts(g, z) /\ Counts(p, z + Len(g)) => Counts(gp, z)
    BY <1>1, Concat
  <1> HIDE DEF gp
  <1>3. /\ all \in Seq(Nat) /\ Len(all) = Len(gp) + Len(b) /\ Rng(all) = Rng(gp) \cup Rng(b)
        /\ \A z \in Nat : Counts(gp, z) /\ Counts(b, z + Len(gp)) => Counts(all, z)
    BY Zenon, <1>1, <1>2, Concat
  <1> HIDE DEF all
  <1>4. DOMAIN all = 1 .. Len(all)
    BY <1>3
  <1>5. 0 + Len(g) = Len(g) /\ 0 + Len(gp) = Len(g) + Len(p)
    BY <1>1, <1>2
  <1>6. ASSUME o = "kept" PROVE all = Iota(n)
    <2>1. InOrder(g, p, b, n)
      BY <1>6 DEF Ordered
    <2>2. Len(all) = n
      BY <2>1, <1>2, <1>3 DEF InOrder
    <2>3. Counts(gp, 0)
      BY <2>1, <1>2, <1>5 DEF InOrder
    <2>4. Counts(all, 0)
      BY <2>1, <2>3, <1>3, <1>5 DEF InOrder
    <2>5. \A i \in 1 .. n : all[i] = i
      BY <2>2, <2>4, <1>1 DEF Counts
    <2>6. Iota(n) \in Seq(Nat) /\ Len(Iota(n)) = n /\ \A i \in 1 .. n : Iota(n)[i] = i
      BY <1>1 DEF Iota
    <2> QED  BY <2>2, <2>5, <2>6, <1>3
  <1>7. ASSUME o = "past" PROVE Len(all) = n /\ { all[k] : k \in DOMAIN all } = 1 .. n
    <2>1. Complete(g, p, b, n)
      BY <1>7 DEF Ordered
    <2>2. { all[k] : k \in DOMAIN all } = Rng(all)
      BY <1>4 DEF Rng
    <2> QED  BY <2>1, <2>2, <1>2, <1>3 DEF Complete
  <1> QED  BY Zenon, <1>6, <1>7 DEF all, gp
----------------------------------------------------------------------------
(* What the steps do to the streams.                                       *)

\* A call is idle or holds what its kind holds.
LEMMA CallKinds ==
  ASSUME TypeOK
  PROVE  /\ call.op \in {"none", "accept", "send", "recv"}
         /\ call.op = "none" => call = Idle
         /\ call.op = "accept" => call \in [op : {"accept"}, s : Sock, held : Text]
         /\ call.op = "send" =>
               call \in [op : {"send"}, s : Sock, held : Nat \X Nat, was : BOOLEAN]
         /\ call.op = "recv" =>
               call \in [op : {"recv"}, s : Sock, held : Nat \X Nat, was : BOOLEAN,
                         peek : BOOLEAN, n : Nat]
  BY DEF TypeOK, Calls, Idle

\* Every end a socket or a backlog names is a pair, and NoEnd is never live.
LEMMA EndTypes ==
  ASSUME TypeOK
  PROVE  /\ \A s \in DOMAIN sock : EndOf(s) \in Nat \X Nat
         /\ \A l \in DOMAIN backlog : \A k \in 1 .. Len(backlog[l]) :
               backlog[l][k] \in Nat \X Nat
         /\ ~Live(conn, NoEnd)
  <1>1. \A s \in DOMAIN sock : sock[s].stream \in Nat \X Nat
    BY DEF TypeOK, Inner
  <1>2. call.op \in {"send", "recv"} => call.held \in Nat \X Nat
    BY CallKinds
  <1>3. NoEnd \in Nat \X Nat
    BY DEF NoEnd
  <1>4. \A l \in DOMAIN backlog : backlog[l] \in Seq(Nat \X Nat)
    BY DEF TypeOK
  <1>5. ~Live(conn, NoEnd)
    BY SocketsAssumption DEF TypeOK, Live, NoEnd
  <1> QED  BY <1>1, <1>2, <1>3, <1>4, <1>5 DEF EndOf

SameBytes(r, q) == r.order = q.order /\ r.got = q.got /\ r.box = q.box /\ r.sent = q.sent
\* A step that leaves the open ends of the guest but those of E as they are.
Keeps(E) ==
    \A e \in Nat \X Nat :
        Live(conn, e) /\ e \notin E =>
            /\ Live(conn', e) /\ SameBytes(conn'[e[1]][e[2]], conn[e[1]][e[2]])
            /\ conn'[e[1]][Other(e[2])].addr = conn[e[1]][Other(e[2])].addr
\* Every socket has the end and the bytes it had, or none.
SocksKeep(E) ==
    \A s \in DOMAIN sock' :
        \/ /\ s \in DOMAIN sock /\ EndOf(s)' = EndOf(s)
           /\ EndOf(s) \in E => EndOf(s) = NoEnd
           /\ EndOf(s) # NoEnd => sock'[s].peek = sock[s].peek
           /\ sock'[s].peer = sock[s].peer /\ sock[s].shut \subseteq sock'[s].shut
        \/ EndOf(s)' = NoEnd /\ (sock'[s].peer = None \/ "WR" \in sock'[s].shut)
\* Every listener has the queue it had, or none.
QueuesKeep(E) ==
    \A l \in DOMAIN backlog' :
        \/ /\ l \in DOMAIN backlog /\ backlog'[l] = backlog[l]
           /\ \A k \in 1 .. Len(backlog[l]) : backlog[l][k] \notin E
        \/ backlog'[l] = << >>

\* A step that keeps every end outside E, and whose sockets and queues keep theirs,
\* keeps the ownership of ends.
LEMMA OwnersKeep ==
  ASSUME TypeOK, Streams, Waiting, Apart, Peered, UNCHANGED program,
         NEW E, Keeps(E), SocksKeep(E), QueuesKeep(E)
  PROVE  Streams' /\ Waiting' /\ Apart' /\ Peered'
  <1>1. /\ \A s \in DOMAIN sock : EndOf(s) \in Nat \X Nat
        /\ \A l \in DOMAIN backlog : \A k \in 1 .. Len(backlog[l]) :
               backlog[l][k] \in Nat \X Nat
        /\ ~Live(conn, NoEnd)
    BY EndTypes
  <1>2. Streams'
    BY ZenonT(60), <1>1 DEF Streams, Keeps, SocksKeep, Kept, SameBytes, Holds
  <1>3. Waiting'
    <2> SUFFICES ASSUME NEW l \in DOMAIN backlog', NEW k \in 1 .. Len(backlog'[l])
                 PROVE  Live(conn', backlog'[l][k]) /\ Kept(conn', backlog'[l][k], << >>)
      BY DEF Waiting
    <2>1. /\ l \in DOMAIN backlog /\ backlog'[l] = backlog[l] /\ backlog[l][k] \notin E
          /\ backlog[l][k] \in Nat \X Nat
      BY <1>1 DEF QueuesKeep
    <2>2. Live(conn, backlog[l][k]) /\ Kept(conn, backlog[l][k], << >>)
      BY <2>1 DEF Waiting
    <2> QED  BY ZenonT(30), <2>1, <2>2 DEF Keeps, Kept, SameBytes, Holds
  <1>4. Apart'
    <2>1. \A s, t \in DOMAIN sock' : s # t /\ EndOf(s)' = EndOf(t)' => EndOf(s)' = NoEnd
      BY DEF Apart, SocksKeep
    <2>2. \A l \in DOMAIN backlog' : \A k \in 1 .. Len(backlog'[l]) :
             l \in DOMAIN backlog /\ backlog'[l] = backlog[l]
      BY DEF QueuesKeep
    <2>3. \A s \in DOMAIN sock' : \A l \in DOMAIN backlog' : \A k \in 1 .. Len(backlog'[l]) :
             EndOf(s)' # backlog'[l][k]
      BY <2>2, <1>1 DEF Apart, Waiting, SocksKeep
    <2>4. \A l, m \in DOMAIN backlog' :
             \A k \in 1 .. Len(backlog'[l]), j \in 1 .. Len(backlog'[m]) :
                backlog'[l][k] = backlog'[m][j] => l = m /\ k = j
      BY <2>2 DEF Apart
    <2> QED  BY <2>1, <2>3, <2>4 DEF Apart
  <1>5. Peered'
    BY <1>1 DEF Streams, Peered, Keeps, SocksKeep, Unix, Family
  <1> QED  BY <1>2, <1>3, <1>4, <1>5

\* A step that leaves the connections alone keeps every end.
LEMMA SameConns == ASSUME conn' = conn, NEW E PROVE Keeps(E)
  BY DEF Keeps, SameBytes

\* Putting bytes in the box of an end leaves it an end.
LEMMA EndRecTypes ==
  ASSUME NEW q \in EndRec, NEW b \in Seq(Nat), NEW n \in Nat
  PROVE  [q EXCEPT !.box = b, !.sent = n] \in EndRec
  BY Zenon DEF EndRec

\* Handing the stream back to the socket leaves it a socket.
LEMMA ReturnTypes ==
  ASSUME NEW q \in Inner, NEW h \in Nat \X Nat, NEW w \in BOOLEAN
  PROVE  [q EXCEPT !.stream = h, !.nonblock = w] \in Inner
  BY Zenon DEF Inner

\* Closing an end changes nothing else of it.
LEMMA ClosedEnd ==
  ASSUME NEW r \in EndRec, NEW x \in BOOLEAN
  PROVE  LET q == [r EXCEPT !.open = @ /\ x]
         IN  /\ q \in EndRec /\ q.addr = r.addr /\ q.who = r.who
             /\ SameBytes(q, r) /\ q.open = (r.open /\ x)
  BY Zenon DEF EndRec, SameBytes

\* A connection with an open end stays.
LEMMA ClosedEnds ==
  ASSUME TypeOK, NEW E, conn' = CloseEnds(conn, E)
  PROVE  /\ conn' \in [DOMAIN conn' -> [{1, 2} -> EndRec]] /\ DOMAIN conn' \subseteq DOMAIN conn
         /\ Keeps(E)
  <1> DEFINE cut == [c \in DOMAIN conn |->
                [i \in {1, 2} |-> [conn[c][i] EXCEPT !.open = @ /\ <<c, i>> \notin E]]]
             left == { c \in DOMAIN conn : cut[c][1].open \/ cut[c][2].open }
  <1>1. conn' = [c \in left |-> cut[c]]
    BY Zenon DEF CloseEnds
  <1>2. \A c \in DOMAIN conn : \A i \in {1, 2} : conn[c][i] \in EndRec
    BY DEF TypeOK
  <1>3. \A c \in DOMAIN conn : \A i \in {1, 2} :
           /\ cut[c][i] = [conn[c][i] EXCEPT !.open = @ /\ <<c, i>> \notin E]
           /\ cut[c] \in [{1, 2} -> EndRec]
    <2>1. \A c \in DOMAIN conn : \A i \in {1, 2} :
             [conn[c][i] EXCEPT !.open = @ /\ <<c, i>> \notin E] \in EndRec
      BY ZenonT(30), <1>2 DEF EndRec
    <2> QED  BY <2>1
  <1> HIDE DEF cut
  <1>4. DOMAIN conn' = left /\ \A c \in left : conn'[c] = cut[c]
    BY <1>1
  <1>5. \A c \in DOMAIN conn : \A i \in {1, 2} :
           /\ cut[c][i].addr = conn[c][i].addr /\ cut[c][i].who = conn[c][i].who
           /\ SameBytes(cut[c][i], conn[c][i])
           /\ cut[c][i].open = (conn[c][i].open /\ <<c, i>> \notin E)
    <2> TAKE c \in DOMAIN conn
    <2> TAKE i \in {1, 2}
    <2> DEFINE x == <<c, i>> \notin E
               r == conn[c][i]
    <2>1. x \in BOOLEAN /\ r \in EndRec /\ cut[c][i] = [r EXCEPT !.open = @ /\ x]
      BY Zenon, <1>2, <1>3
    <2> HIDE DEF x, r
    <2>2. LET q == [r EXCEPT !.open = @ /\ x]
          IN  /\ q.addr = r.addr /\ q.who = r.who
              /\ SameBytes(q, r) /\ q.open = (r.open /\ x)
      BY <2>1, ClosedEnd
    <2> QED  BY <2>1, <2>2 DEF x, r
  <1>6. ASSUME NEW e \in Nat \X Nat, Live(conn, e), e \notin E
        PROVE  /\ Live(conn', e) /\ SameBytes(conn'[e[1]][e[2]], conn[e[1]][e[2]])
               /\ conn'[e[1]][Other(e[2])].addr = conn[e[1]][Other(e[2])].addr
    <2>1. /\ e[1] \in DOMAIN conn /\ e[2] \in {1, 2} /\ conn[e[1]][e[2]].open
          /\ conn[e[1]][e[2]].who = "guest" /\ <<e[1], e[2]>> \notin E
      BY <1>6 DEF Live
    <2>2. cut[e[1]][e[2]].open /\ cut[e[1]][e[2]].who = "guest"
      BY Zenon, <1>5, <2>1
    <2>3. e[1] \in left /\ conn'[e[1]] = cut[e[1]]
      BY <2>1, <2>2, <1>4
    <2>4. Other(e[2]) \in {1, 2}
      BY <2>1 DEF Other
    <2>5. Live(conn', e)
      BY <2>1, <2>2, <2>3, <1>4 DEF Live
    <2>6. SameBytes(cut[e[1]][e[2]], conn[e[1]][e[2]])
      BY Zenon, <2>1, <1>5
    <2>7. cut[e[1]][Other(e[2])].addr = conn[e[1]][Other(e[2])].addr
      BY ZenonT(30), <2>1, <2>4, <1>5
    <2> QED  BY <2>3, <2>5, <2>6, <2>7
  <1> QED  BY Zenon, <1>1, <1>3, <1>4, <1>6 DEF Keeps

\* One socket is updated.
LEMMA Updates ==
  ASSUME TypeOK, NEW s \in DOMAIN sock, NEW r \in Inner, Update(s, r)
  PROVE  /\ sock' \in [DOMAIN sock' -> Inner] /\ DOMAIN sock' = DOMAIN sock
         /\ sock'[s] = r /\ \A t \in DOMAIN sock : t # s => sock'[t] = sock[t]
  BY DEF TypeOK, Update
----------------------------------------------------------------------------
(* What most steps do not touch.                                           *)

\* Every socket has the listener it had, or is a new one without.
ListenersKeep ==
    \A s \in DOMAIN sock' :
        \/ /\ s \in DOMAIN sock /\ sock'[s].listener = sock[s].listener
           /\ sock'[s].acceptor = sock[s].acceptor /\ sock'[s].path = sock[s].path
           /\ s \in DOMAIN backlog => s \in DOMAIN backlog'
           /\ s \in lost => s \in lost'
        \/ sock'[s].listener = None /\ ~sock'[s].acceptor /\ ~sock'[s].path

\* A step that keeps the listeners, and starts no accept, keeps their invariant.
LEMMA ListenersStay ==
  ASSUME Listeners, UNCHANGED program, ListenersKeep,
         \/ call' = call /\ (call.op = "accept" => call.s \in DOMAIN backlog')
         \/ call.op # "accept" /\ call'.op # "accept"
  PROVE  Listeners'
  <1>1. None # AnyPort
    BY DEF None, AnyPort
  <1> QED  BY <1>1 DEF Listeners, ListenersKeep, Unix, Family

\* Every socket has the UDP state it had, or none.
UdpKeeps ==
    \A s \in DOMAIN sock' :
        \/ sock'[s].udp = NoUdp
        \/ /\ s \in DOMAIN sock /\ sock'[s].udp = sock[s].udp
           /\ sock[s].opts \subseteq sock'[s].opts
           /\ Family = "udp" => sock'[s].bound = sock[s].bound

\* A step that touches no datagram socket keeps their invariant.
LEMMA UdpStays ==
  ASSUME Udp, UNCHANGED program, UdpKeeps
  PROVE  Udp'
  BY DEF Udp, UdpKeeps, NoUdp, Family

\* The image is made by Freeze and used by Restore.
LEMMA ImageStays ==
  ASSUME Image, phase = "running", UNCHANGED frozen
  PROVE  Image' /\ ListenersSurvive'
  BY DEF Image, frozen, ListenersSurvive

\* A call that changes one socket, and neither its stream nor its listener.
LEMMA MinorUpdate ==
  ASSUME IInv, Free, NEW s \in DOMAIN sock, NEW r \in Inner, Update(s, r),
         UNCHANGED <<program, host, call, lost, frozen>>,
         /\ r.listener = sock[s].listener /\ r.acceptor = sock[s].acceptor
         /\ r.path = sock[s].path /\ r.stream = sock[s].stream /\ r.peer = sock[s].peer
         /\ r.peek = sock[s].peek /\ sock[s].shut \subseteq r.shut,
         Udp'
  PROVE  IInv'
  <1>1. /\ TypeOK /\ Streams /\ Waiting /\ Apart /\ Parked /\ Peered
        /\ Listeners /\ Udp /\ Image /\ ListenersSurvive
    BY DEF IInv
  <1>2. /\ sock' \in [DOMAIN sock' -> Inner] /\ DOMAIN sock' = DOMAIN sock
        /\ sock'[s] = r /\ \A t \in DOMAIN sock : t # s => sock'[t] = sock[t]
    BY <1>1, Updates
  <1>3. /\ phase' = phase /\ conn' = conn /\ backlog' = backlog /\ call' = call
        /\ lost' = lost /\ UNCHANGED frozen /\ call.op = "none" /\ phase = "running"
    BY DEF host, frozen, Free
  <1>4. TypeOK'
    BY <1>1, <1>2, <1>3 DEF TypeOK
  <1>5. \A t \in DOMAIN sock : sock'[t].stream = sock[t].stream
    BY <1>2
  <1>6. SocksKeep({})
    BY <1>2, <1>3, <1>5 DEF SocksKeep, EndOf
  <1>7. QueuesKeep({})
    BY <1>3 DEF QueuesKeep
  <1>8. Streams' /\ Waiting' /\ Apart' /\ Peered'
    BY <1>1, <1>3, <1>6, <1>7, SameConns, OwnersKeep
  <1>9. Parked'
    BY <1>3 DEF Parked
  <1>10. Listeners'
    BY <1>1, <1>2, <1>3, ListenersStay DEF ListenersKeep
  <1>11. Image' /\ ListenersSurvive'
    BY <1>1, <1>3, ImageStays
  <1> QED  BY Zenon, <1>4, <1>8, <1>9, <1>10, <1>11 DEF IInv

----------------------------------------------------------------------------
(* Every step preserves IInv.                                              *)

\* A step that changes only the host keeps the invariant.
LEMMA NothingSeen ==
  ASSUME IInv, UNCHANGED <<program, sock, conn, backlog, call, lost, frozen>>
  PROVE  IInv'
  <1>2. \A s : EndOf(s)' = EndOf(s)
    BY DEF EndOf
  <1>3. Unix' = Unix /\ Family' = Family
    BY DEF Unix, Family
  <1>4. phase' = phase /\ image' = image /\ before' = before
    BY DEF frozen
  <1>5. TypeOK' /\ Streams' /\ Waiting' /\ Apart' /\ Parked'
    BY <1>2, <1>4 DEF IInv, TypeOK, Streams, Waiting, Apart, Parked
  <1>6. Peered' /\ Listeners' /\ Udp' /\ Image'
    BY ZenonT(30), <1>2, <1>3, <1>4 DEF IInv, Peered, Listeners, Udp, Image
  <1>7. ListenersSurvive'
    BY <1>4 DEF IInv, ListenersSurvive, Serves
  <1> QED  BY <1>5, <1>6, <1>7 DEF IInv

\* A call that rewrites only the flags and the address of one socket keeps the
\* invariant.
LEMMA PlainUpdate ==
  ASSUME IInv, Free, NEW s \in DOMAIN sock, NEW r \in Inner, Update(s, r),
         UNCHANGED <<program, host, call, lost, frozen>>,
         /\ r.listener = sock[s].listener /\ r.acceptor = sock[s].acceptor
         /\ r.path = sock[s].path /\ r.stream = sock[s].stream /\ r.peer = sock[s].peer
         /\ r.peek = sock[s].peek /\ sock[s].shut \subseteq r.shut,
         /\ r.udp = sock[s].udp /\ sock[s].opts \subseteq r.opts
         /\ Family = "udp" => r.bound = sock[s].bound
  PROVE  IInv'
  <1>1. /\ DOMAIN sock' = DOMAIN sock /\ sock'[s] = r
        /\ \A t \in DOMAIN sock : t # s => sock'[t] = sock[t]
    BY Updates DEF IInv
  <1>2. UdpKeeps
    BY <1>1 DEF UdpKeeps
  <1>3. Udp'
    BY <1>2, UdpStays DEF IInv
  <1> QED  BY <1>3, MinorUpdate

\* bind of a TCP socket keeps the invariant.
LEMMA BindTcpStep ==
  ASSUME IInv, NEW s, NEW a, BindTcp(s, a) PROVE IInv'
  <1> DEFINE r == [sock[s] EXCEPT !.bound = a]
  <1>1. s \in DOMAIN sock /\ sock[s] \in Inner
    BY DEF IInv, TypeOK, BindTcp
  <1>2. a \in Text
    BY DEF BindTcp, AnyPort, V6, Text, Addr, Fixed
  <1>3. r \in Inner
    BY Zenon, <1>1, <1>2 DEF Inner
  <1>4. /\ Update(s, r) /\ UNCHANGED <<program, host, call, lost, frozen>> /\ Free
        /\ Family # "udp"
    BY DEF BindTcp
  <1> QED  BY Zenon, <1>1, <1>3, <1>4, PlainUpdate DEF Inner

\* listen keeps the invariant.
LEMMA ListenStep ==
  ASSUME IInv, NEW s, Listen(s) PROVE IInv'
  <1> DEFINE r == [sock[s] EXCEPT !.listening = TRUE]
  <1>1. s \in DOMAIN sock /\ sock[s] \in Inner
    BY DEF IInv, TypeOK, Listen
  <1>2. r \in Inner
    BY Zenon, <1>1 DEF Inner
  <1>3. Update(s, r) /\ UNCHANGED <<program, host, call, lost, frozen>> /\ Free
    BY DEF Listen
  <1> QED  BY Zenon, <1>1, <1>2, <1>3, PlainUpdate DEF Inner

\* setsockopt(SO_REUSEADDR) keeps the invariant.
LEMMA SetsockoptStep ==
  ASSUME IInv, NEW s, Setsockopt(s, "REUSEADDR") PROVE IInv'
  <1> DEFINE r == [sock[s] EXCEPT !.opts = @ \cup {"REUSEADDR"}]
  <1>1. s \in DOMAIN sock /\ sock[s] \in Inner
    BY DEF IInv, TypeOK, Setsockopt
  <1>2. r \in Inner
    BY Zenon, <1>1 DEF Inner
  <1>3. Update(s, r) /\ UNCHANGED <<program, host, call, lost, frozen>> /\ Free
    BY DEF Setsockopt
  <1> QED  BY <1>1, <1>2, <1>3, PlainUpdate DEF Inner

\* getsockopt(SO_ERROR) keeps the invariant.
LEMMA GetsockoptErrorStep ==
  ASSUME IInv, NEW s, GetsockoptError(s) PROVE IInv'
  <1> DEFINE r == [sock[s] EXCEPT !.error = FALSE]
  <1>1. s \in DOMAIN sock /\ sock[s] \in Inner
    BY DEF IInv, TypeOK, GetsockoptError
  <1>2. r \in Inner
    BY Zenon, <1>1 DEF Inner
  <1>3. Update(s, r) /\ UNCHANGED <<program, host, call, lost, frozen>> /\ Free
    BY DEF GetsockoptError
  <1> QED  BY Zenon, <1>1, <1>2, <1>3, PlainUpdate DEF Inner

\* A refused connect keeps the invariant.
LEMMA ConnectRefusedStep ==
  ASSUME IInv, NEW s, ConnectRefused(s) PROVE IInv'
  <1> DEFINE r == [sock[s] EXCEPT !.error = TRUE]
  <1>1. s \in DOMAIN sock /\ sock[s] \in Inner
    BY DEF IInv, TypeOK, ConnectRefused
  <1>2. r \in Inner
    BY Zenon, <1>1 DEF Inner
  <1>3. Update(s, r) /\ UNCHANGED <<program, host, call, lost, frozen>> /\ Free
    BY DEF ConnectRefused
  <1> QED  BY Zenon, <1>1, <1>2, <1>3, PlainUpdate DEF Inner

\* A sendmsg or recvmsg that returns before it does anything keeps the invariant.
LEMMA MsgLeavesEarlyStep ==
  ASSUME IInv, NEW s, NEW flag, MsgLeavesEarly(s, flag) PROVE IInv'
  <1> DEFINE r == [sock[s] EXCEPT !.nonblock = TRUE]
  <1>1. s \in DOMAIN sock /\ sock[s] \in Inner
    BY DEF IInv, TypeOK, MsgLeavesEarly
  <1>2. r \in Inner
    BY Zenon, <1>1 DEF Inner
  <1>3. Update(s, r) /\ UNCHANGED <<program, host, call, lost, frozen>> /\ Free
    BY DEF MsgLeavesEarly
  <1> QED  BY Zenon, <1>1, <1>2, <1>3, PlainUpdate DEF Inner

\* The address a UDP socket gets is free, or shared with consent.
LEMMA BindUdpStep ==
  ASSUME IInv, NEW s, NEW a, BindUdp(s, a) PROVE IInv'
  <1> DEFINE u == UdpState(s)
             granted == Grants(a, UdpInUse(s, u.reuse))
  <1>1. /\ s \in DOMAIN sock /\ sock[s] \in Inner /\ Udp /\ TypeOK /\ Family = "udp"
        /\ a \in {"a", "b", AnyPort} /\ Free
        /\ UNCHANGED <<program, host, call, lost, frozen>>
    BY Zenon DEF IInv, TypeOK, BindUdp
  <1>2. /\ u \in [made : BOOLEAN, reuse : BOOLEAN, local : Text]
        /\ u.reuse => "REUSEADDR" \in sock[s].opts
        /\ u.made
        /\ u.local = sock[s].udp.local
    BY <1>1 DEF UdpState, Inner, Udp, Text
  <1>3. granted \subseteq Text /\ None \notin granted
    BY <1>1 DEF Grants, Text, Addr, Fixed, Picked, AnyPort, None
  <1>4. CASE u.local # None /\ Update(s, [sock[s] EXCEPT !.bound = u.local])
    <2> DEFINE r == [sock[s] EXCEPT !.bound = u.local]
    <2>1. sock[s].bound = u.local
      BY <1>1, <1>2, <1>4 DEF Udp
    <2>2. r \in Inner
      BY Zenon, <1>1, <1>2 DEF Inner
    <2> HIDE DEF u
    <2> QED  BY Zenon, <1>1, <1>4, <2>1, <2>2, PlainUpdate DEF Inner
  <1>5. ASSUME u.local = None, NEW p \in granted,
               Update(s, [sock[s] EXCEPT !.bound = p, !.udp = [u EXCEPT !.local = p]])
        PROVE  IInv'
    <2> DEFINE v == [u EXCEPT !.local = p]
               r == [sock[s] EXCEPT !.bound = p, !.udp = v]
    <2>1. p \in Text /\ p # None
      BY <1>3, <1>5
    <2>2. /\ v \in [made : BOOLEAN, reuse : BOOLEAN, local : Text]
          /\ v.made /\ v.local = p /\ v.reuse = u.reuse
      BY <1>2, <2>1
    <2>3. \A t \in DOMAIN sock \ {s} : sock[t].udp.local = p => u.reuse /\ sock[t].udp.reuse
      BY <1>5 DEF Grants, UdpInUse
    <2> HIDE DEF v, u
    <2>4. r \in Inner
      BY Zenon, <1>1, <2>1, <2>2 DEF Inner
    <2>5. /\ r.udp = v /\ r.bound = p /\ r.opts = sock[s].opts
      BY <1>1 DEF Inner
    <2>6. /\ DOMAIN sock' = DOMAIN sock /\ sock'[s] = r
          /\ \A t \in DOMAIN sock : t # s => sock'[t] = sock[t]
      BY <1>1, <1>5, <2>4, Updates DEF v
    <2>7. Family' = Family
      BY <1>1 DEF Family
    <2>8. Udp'
      <3> HIDE DEF r
      <3>1. /\ sock'[s].udp.made /\ sock'[s].udp.local = p /\ sock'[s].udp.reuse = u.reuse
            /\ sock'[s].bound = p /\ sock'[s].opts = sock[s].opts
        BY Zenon, <2>2, <2>5, <2>6
      <3>2. \A t \in DOMAIN sock' \ {s} :
               sock'[t].udp.local = p => sock'[s].udp.reuse /\ sock'[t].udp.reuse
        BY <2>3, <2>6, <3>1
      <3> QED  BY <1>1, <1>2, <2>1, <2>6, <2>7, <3>1, <3>2 DEF Udp
    <2>9. /\ r.listener = sock[s].listener /\ r.acceptor = sock[s].acceptor
          /\ r.path = sock[s].path /\ r.stream = sock[s].stream /\ r.peer = sock[s].peer
          /\ r.peek = sock[s].peek /\ r.shut = sock[s].shut
      BY <1>1 DEF Inner
    <2>10. Update(s, r)
      BY <1>5 DEF v
    <2> HIDE DEF r
    <2> QED  BY Zenon, <1>1, <2>4, <2>8, <2>9, <2>10, MinorUpdate
  <1>6. CASE u.local = None /\ Update(s, [sock[s] EXCEPT !.udp = u])
    <2> DEFINE r == [sock[s] EXCEPT !.udp = u]
    <2> HIDE DEF u
    <2>1. r \in Inner /\ r.udp = u /\ r.bound = sock[s].bound /\ r.opts = sock[s].opts
      BY Zenon, <1>1, <1>2 DEF Inner
    <2>2. /\ DOMAIN sock' = DOMAIN sock /\ sock'[s] = r
          /\ \A t \in DOMAIN sock : t # s => sock'[t] = sock[t]
      BY <1>1, <1>6, <2>1, Updates
    <2>3. Family' = Family
      BY <1>1 DEF Family
    <2>4. Udp'
      <3> HIDE DEF r
      <3>1. /\ sock'[s].udp.made /\ sock'[s].udp.local = None /\ sock'[s].udp.reuse = u.reuse
            /\ sock'[s].opts = sock[s].opts
        BY <1>2, <1>6, <2>1, <2>2
      <3> QED  BY <1>1, <1>2, <2>2, <2>3, <3>1 DEF Udp
    <2>5. /\ r.listener = sock[s].listener /\ r.acceptor = sock[s].acceptor
          /\ r.path = sock[s].path /\ r.stream = sock[s].stream /\ r.peer = sock[s].peer
          /\ r.peek = sock[s].peek /\ r.shut = sock[s].shut
      BY <1>1 DEF Inner
    <2>6. Update(s, r)
      BY SMTT(30), <1>6
    <2> HIDE DEF r
    <2> QED  BY Zenon, <1>1, <2>1, <2>4, <2>5, <2>6, MinorUpdate
  <1> QED  BY Zenon, <1>4, <1>5, <1>6 DEF BindUdp

\* A new socket owns nothing.
LEMMA NewTypes ==
  ASSUME NEW nb \in BOOLEAN
  PROVE  /\ New(nb) \in Inner /\ New(nb).stream = NoEnd /\ New(nb).peer = None
         /\ New(nb).listener = None /\ ~New(nb).acceptor /\ ~New(nb).path
         /\ New(nb).udp = NoUdp /\ New(nb).peek = << >>
  <1>1. NoEnd \in Nat \X Nat /\ << >> \in Seq(Nat)
    BY DEF NoEnd
  <1>2. NoUdp \in [made : BOOLEAN, reuse : BOOLEAN, local : Text] /\ None \in Text
    BY Zenon DEF NoUdp, Text
  <1>3. New(nb) \in Inner
    BY Zenon, <1>1, <1>2 DEF New, Inner
  <1>4. /\ New(nb).stream = NoEnd /\ New(nb).peer = None
        /\ New(nb).listener = None /\ New(nb).acceptor = FALSE /\ New(nb).path = FALSE
        /\ New(nb).udp = NoUdp /\ New(nb).peek = << >>
    BY Zenon DEF New
  <1> QED  BY Zenon, <1>3, <1>4

\* What a call can rely on when no other is parked.
LEMMA FreeFacts ==
  ASSUME IInv, Free
  PROVE  /\ TypeOK /\ Streams /\ Waiting /\ Apart /\ Parked /\ Peered /\ Listeners
         /\ Udp /\ Image /\ ListenersSurvive
         /\ phase = "running" /\ call.op = "none"
         /\ \A s \in DOMAIN sock : EndOf(s) = sock[s].stream
  BY DEF IInv, Free, EndOf

\* socket keeps the invariant.
LEMMA SocketStep ==
  ASSUME IInv, NEW s \in Sock, NEW nb \in BOOLEAN, Socket(s, nb) PROVE IInv'
  <1>1. /\ Free /\ s \in Sock \ DOMAIN sock /\ sock' = Put(sock, s, New(nb))
        /\ UNCHANGED <<program, conn, backlog, call, lost, frozen>>
    BY DEF Socket, Unused, host
  <1>2. /\ DOMAIN sock' = DOMAIN sock \cup {s} /\ sock'[s] = New(nb)
        /\ \A t \in DOMAIN sock : sock'[t] = sock[t]
    BY <1>1 DEF Put
  <1>3. /\ TypeOK /\ Streams /\ Waiting /\ Apart /\ Parked /\ Peered /\ Listeners
        /\ Udp /\ Image /\ ListenersSurvive /\ phase = "running" /\ call.op = "none"
    BY <1>1, FreeFacts
  <1>4. sock' \in [DOMAIN sock' -> Inner]
    BY <1>1, <1>2, <1>3, NewTypes DEF TypeOK, Put
  <1>5. TypeOK'
    BY <1>1, <1>2, <1>3, <1>4 DEF TypeOK, frozen
  <1>6. SocksKeep({})
    BY ZenonT(60), <1>1, <1>2, <1>3, NewTypes DEF SocksKeep, EndOf
  <1>7. QueuesKeep({})
    BY <1>1 DEF QueuesKeep
  <1>8. Streams' /\ Waiting' /\ Apart' /\ Peered'
    BY <1>1, <1>3, <1>6, <1>7, SameConns, OwnersKeep
  <1>9. Parked'
    BY Zenon, <1>1, <1>3 DEF Parked
  <1>10. ListenersKeep
    BY ZenonT(30), <1>1, <1>2, NewTypes DEF ListenersKeep
  <1>11. Listeners'
    BY Zenon, <1>1, <1>3, <1>10, ListenersStay
  <1>12. UdpKeeps
    BY <1>2, NewTypes DEF UdpKeeps
  <1>13. Udp' /\ Image' /\ ListenersSurvive'
    BY <1>1, <1>3, <1>12, UdpStays, ImageStays
  <1> QED  BY <1>5, <1>8, <1>9, <1>11, <1>13 DEF IInv

\* The remote peer closing its end keeps the invariant.
LEMMA RemoteCloseStep ==
  ASSUME IInv, NEW c \in DOMAIN conn, NEW i \in {1, 2}, RemoteClose(c, i) PROVE IInv'
  <1> DEFINE E == {<<c, i>>}
  <1>1. /\ phase = "running" /\ conn[c][i].who = "remote" /\ conn' = CloseEnds(conn, E)
        /\ UNCHANGED <<program, sock, backlog, call, lost, frozen>>
    BY Zenon DEF RemoteClose
  <1>2. /\ TypeOK /\ Streams /\ Waiting /\ Apart /\ Parked /\ Peered /\ Listeners
        /\ Udp /\ Image /\ ListenersSurvive
    BY DEF IInv
  <1>3. /\ conn' \in [DOMAIN conn' -> [{1, 2} -> EndRec]] /\ DOMAIN conn' \subseteq DOMAIN conn
        /\ Keeps(E)
    BY <1>1, <1>2, ClosedEnds
  <1>4. TypeOK'
    BY Zenon, <1>1, <1>2, <1>3 DEF TypeOK, frozen
  <1>5. \A e \in E : ~Live(conn, e)
    BY <1>1 DEF Live
  <1>6. /\ \A s \in DOMAIN sock : EndOf(s)' = EndOf(s)
        /\ \A s \in DOMAIN sock : EndOf(s) \notin E \/ EndOf(s) = NoEnd
        /\ \A s \in DOMAIN sock : sock'[s] = sock[s]
    BY Zenon, <1>1, <1>2, <1>5 DEF EndOf, Streams
  <1>7. c # 0
    BY <1>2, SocketsAssumption DEF TypeOK
  <1>8. NoEnd \notin E
    BY <1>7 DEF NoEnd
  <1>9. SocksKeep(E)
    BY Zenon, <1>1, <1>6, <1>8 DEF SocksKeep
  <1>10. QueuesKeep(E)
    BY Zenon, <1>1, <1>2, <1>5 DEF QueuesKeep, Waiting
  <1>11. Streams' /\ Waiting' /\ Apart' /\ Peered'
    BY SMTT(30), <1>1, <1>2, <1>3, <1>9, <1>10, OwnersKeep
  <1>12. Parked'
    <2>1. ASSUME call.op = "recv"
          PROVE  conn'[call.held[1]][call.held[2]].order = conn[call.held[1]][call.held[2]].order
      <3>1. /\ call.held \in Nat \X Nat /\ call.held # NoEnd /\ call.s \in DOMAIN sock
            /\ EndOf(call.s) = call.held
        BY Zenon, <2>1, <1>2, CallKinds DEF Parked, EndOf, TypeOK
      <3>2. Live(conn, call.held)
        BY Zenon, <3>1, <1>2 DEF Streams
      <3> QED  BY Zenon, <3>1, <3>2, <1>3, <1>5 DEF Keeps, SameBytes
    <2> QED  BY Zenon, <2>1, <1>1, <1>2 DEF Parked
  <1>13. Listeners' /\ Udp' /\ Image' /\ ListenersSurvive'
    BY Zenon, <1>1, <1>2, ListenersStay, UdpStays, ImageStays DEF ListenersKeep, UdpKeeps, Listeners
  <1> QED  BY <1>4, <1>11, <1>12, <1>13 DEF IInv

\* What waits at one listener is neither in a socket nor at another listener.
LEMMA QueuedApart ==
  ASSUME TypeOK, Apart, NEW s
  PROVE  /\ \A t \in DOMAIN sock : EndOf(t) \notin Queued(s)
         /\ \A l \in DOMAIN backlog : l # s =>
               \A k \in 1 .. Len(backlog[l]) : backlog[l][k] \notin Queued(s)
  <1>1. s \in DOMAIN backlog => DOMAIN backlog[s] = 1 .. Len(backlog[s])
    BY DEF TypeOK
  <1> QED  BY <1>1 DEF Apart, Queued

\* bind of a Unix socket keeps the invariant.
LEMMA BindUnixStep ==
  ASSUME IInv, NEW s, BindUnix(s) PROVE IInv'
  <1> DEFINE E == Queued(s)
             r == [sock[s] EXCEPT !.bound = Path, !.path = TRUE, !.listener = Path]
  <1>1. /\ Free /\ Unix /\ s \in DOMAIN sock /\ conn' = CloseEnds(conn, E)
        /\ backlog' = Put(backlog, s, << >>) /\ Update(s, r) /\ lost' = lost \ {s}
        /\ UNCHANGED <<program, call, frozen>>
    BY DEF BindUnix
  <1>2. /\ TypeOK /\ Streams /\ Waiting /\ Apart /\ Parked /\ Peered /\ Listeners
        /\ Udp /\ Image /\ ListenersSurvive /\ phase = "running" /\ call.op = "none"
    BY <1>1, FreeFacts
  <1>3. /\ conn' \in [DOMAIN conn' -> [{1, 2} -> EndRec]] /\ DOMAIN conn' \subseteq DOMAIN conn
        /\ Keeps(E)
    BY <1>1, <1>2, ClosedEnds
  <1>4. sock[s] \in Inner
    BY <1>1, <1>2 DEF TypeOK
  <1>5. r \in Inner
    BY ZenonT(30), <1>4 DEF Inner, Text, Addr
  <1>6. /\ r.stream = sock[s].stream /\ r.peek = sock[s].peek /\ r.peer = sock[s].peer
        /\ r.shut = sock[s].shut /\ r.udp = sock[s].udp /\ r.opts = sock[s].opts
        /\ r.listener = Path
    BY <1>4 DEF Inner
  <1> HIDE DEF r, E
  <1>7. /\ sock' \in [DOMAIN sock' -> Inner] /\ DOMAIN sock' = DOMAIN sock
        /\ sock'[s] = r /\ \A t \in DOMAIN sock : t # s => sock'[t] = sock[t]
    BY Zenon, <1>1, <1>2, <1>5, Updates
  <1>8. /\ DOMAIN backlog' = DOMAIN backlog \cup {s} /\ backlog'[s] = << >>
        /\ \A l \in DOMAIN backlog : l # s => backlog'[l] = backlog[l]
        /\ backlog' \in [DOMAIN backlog' -> Seq(Nat \X Nat)]
    BY <1>1, <1>2 DEF Put, TypeOK
  <1>9. TypeOK'
    BY Zenon, <1>1, <1>2, <1>3, <1>7, <1>8 DEF TypeOK, frozen
  <1>10. SocksKeep(E)
    BY ZenonT(30), <1>1, <1>2, <1>6, <1>7, QueuedApart DEF SocksKeep, EndOf, E
  <1>11. QueuesKeep(E)
    BY Zenon, <1>1, <1>2, <1>8, QueuedApart DEF QueuesKeep, E
  <1>12. Streams' /\ Waiting' /\ Apart' /\ Peered'
    BY Zenon, <1>1, <1>2, <1>3, <1>10, <1>11, OwnersKeep
  <1>13. Parked'
    BY Zenon, <1>1, <1>2 DEF Parked
  <1>14. Listeners'
    BY ZenonT(60), <1>1, <1>2, <1>6, <1>7, <1>8 DEF Listeners, Path, None, AnyPort, Unix, Family
  <1>15. Family # "udp"
    BY <1>1 DEF Unix
  <1>16. Udp' /\ Image' /\ ListenersSurvive'
    BY Zenon, <1>1, <1>2, <1>6, <1>7, <1>15, UdpStays, ImageStays DEF UdpKeeps
  <1> QED  BY <1>9, <1>12, <1>13, <1>14, <1>16 DEF IInv

\* accept4 fails and drops a listener.
LEMMA DropListenerStep ==
  ASSUME IInv, NEW s \in DOMAIN sock, DropListener(s), phase = "running",
         call.op = "none" \/ (call.op = "accept" /\ call.s = s), call' = Idle,
         UNCHANGED <<program, frozen>>
  PROVE  IInv'
  <1> DEFINE E == Queued(s)
             r == [sock[s] EXCEPT !.listener = None]
  <1>1. /\ conn' = CloseEnds(conn, E) /\ backlog' = Del(backlog, s)
        /\ Update(s, r) /\ lost' = lost \cup {s}
    BY DEF DropListener
  <1>2. /\ TypeOK /\ Streams /\ Waiting /\ Apart /\ Parked /\ Peered /\ Listeners
        /\ Udp /\ Image /\ ListenersSurvive
    BY DEF IInv
  <1>3. /\ conn' \in [DOMAIN conn' -> [{1, 2} -> EndRec]] /\ DOMAIN conn' \subseteq DOMAIN conn
        /\ Keeps(E)
    BY <1>1, <1>2, ClosedEnds
  <1>4. sock[s] \in Inner
    BY <1>1, <1>2 DEF TypeOK
  <1>5. r \in Inner
    BY <1>4 DEF Inner, Text
  <1>6. /\ r.stream = sock[s].stream /\ r.peek = sock[s].peek /\ r.peer = sock[s].peer
        /\ r.shut = sock[s].shut /\ r.udp = sock[s].udp /\ r.opts = sock[s].opts
        /\ r.listener = None /\ r.bound = sock[s].bound
    BY <1>4 DEF Inner
  <1> HIDE DEF r, E
  <1>7. /\ sock' \in [DOMAIN sock' -> Inner] /\ DOMAIN sock' = DOMAIN sock
        /\ sock'[s] = r /\ \A t \in DOMAIN sock : t # s => sock'[t] = sock[t]
    BY Zenon, <1>1, <1>2, <1>5, Updates
  <1>8. /\ DOMAIN backlog' = DOMAIN backlog \ {s}
        /\ \A l \in DOMAIN backlog : l # s => backlog'[l] = backlog[l]
        /\ backlog' \in [DOMAIN backlog' -> Seq(Nat \X Nat)]
    BY Zenon, <1>1, <1>2 DEF Del, TypeOK
  <1>9. call'.op = "none" /\ call' \in Calls
    BY DEF Idle, Calls
  <1>10. TypeOK'
    BY Zenon, <1>2, <1>3, <1>7, <1>8, <1>9 DEF TypeOK, frozen
  <1>11. SocksKeep(E)
    BY ZenonT(60), <1>2, <1>6, <1>7, <1>9, QueuedApart DEF SocksKeep, EndOf, E
  <1>12. QueuesKeep(E)
    BY Zenon, <1>2, <1>8, QueuedApart DEF QueuesKeep, E
  <1>13. Streams' /\ Waiting' /\ Apart' /\ Peered'
    BY <1>2, <1>3, <1>11, <1>12, OwnersKeep
  <1>14. Parked'
    BY Zenon, <1>9 DEF Parked
  <1>15. Listeners'
    BY <1>1, <1>2, <1>6, <1>7, <1>8, <1>9 DEF Listeners, None, AnyPort, Unix, Family
  <1>16. Udp' /\ Image' /\ ListenersSurvive'
    BY Zenon, <1>2, <1>6, <1>7, UdpStays, ImageStays DEF UdpKeeps
  <1> QED  BY Zenon, <1>10, <1>13, <1>14, <1>15, <1>16 DEF IInv

\* An accept that ends without a connection keeps the invariant.
LEMMA AcceptFailsStep ==
  ASSUME IInv, AcceptFails PROVE IInv'
  <1>1. /\ phase = "running" /\ call.op = "accept" /\ call' = Idle
        /\ UNCHANGED <<program, frozen>> /\ TypeOK
    BY DEF AcceptFails, IInv
  <1>2. CASE ~Unix
    <2>1. DropListener(call.s) /\ call.s \in DOMAIN sock
      BY Zenon, <1>1, <1>2 DEF AcceptFails, TypeOK
    <2> QED  BY Zenon, <1>1, <2>1, DropListenerStep
  <1>3. CASE Unix
    <2>1. UNCHANGED <<sock, conn, backlog, lost>>
      BY <1>3 DEF AcceptFails
    <2>2. /\ TypeOK /\ Streams /\ Waiting /\ Apart /\ Parked /\ Peered /\ Listeners
          /\ Udp /\ Image /\ ListenersSurvive
      BY DEF IInv
    <2>3. call'.op = "none" /\ call' \in Calls
      BY <1>1 DEF Idle, Calls
    <2>4. TypeOK'
      BY Zenon, <1>1, <2>1, <2>2, <2>3 DEF TypeOK, frozen
    <2>5. SocksKeep({}) /\ QueuesKeep({})
      BY Zenon, <1>1, <2>1, <2>3 DEF SocksKeep, QueuesKeep, EndOf
    <2>6. Streams' /\ Waiting' /\ Apart' /\ Peered'
      BY <1>1, <2>1, <2>2, <2>5, SameConns, OwnersKeep
    <2>7. Parked' /\ Listeners'
      BY Zenon, <1>1, <1>3, <2>1, <2>2, <2>3 DEF Parked, Listeners, Unix, Family
    <2>8. Udp' /\ Image' /\ ListenersSurvive'
      BY Zenon, <1>1, <2>1, <2>2, UdpStays, ImageStays DEF UdpKeeps
    <2> QED  BY <2>4, <2>6, <2>7, <2>8 DEF IInv
  <1> QED  BY <1>2, <1>3

\* An AF_UNIX accept that cannot clone its listener, and drops it, keeps the invariant.
LEMMA AcceptUnixNoMemStep ==
  ASSUME IInv, NEW s, AcceptUnixNoMem(s) PROVE IInv'
  <1>1. /\ Free /\ s \in DOMAIN sock /\ DropListener(s) /\ UNCHANGED <<program, call, frozen>>
    BY DEF AcceptUnixNoMem
  <1>2. phase = "running" /\ call.op = "none" /\ call = Idle
    BY Zenon, <1>1, FreeFacts, CallKinds
  <1> QED  BY <1>1, <1>2, DropListenerStep

\* shutdown keeps the invariant.
LEMMA ShutdownStep ==
  ASSUME IInv, NEW s, NEW how \in SUBSET {"RD", "WR"}, Shutdown(s, how) PROVE IInv'
  <1> DEFINE gone == ~Unix /\ "WR" \in how
             E == IF gone THEN {sock[s].stream} ELSE {}
             r == [sock[s] EXCEPT !.shut = @ \cup how, !.stream = IF gone THEN NoEnd ELSE @]
  <1>1. /\ Free /\ s \in DOMAIN sock /\ Update(s, r)
        /\ conn' = IF gone THEN CloseEnds(conn, {sock[s].stream}) ELSE conn
        /\ UNCHANGED <<program, backlog, call, lost, frozen>>
    BY DEF Shutdown
  <1>2. /\ TypeOK /\ Streams /\ Waiting /\ Apart /\ Parked /\ Peered /\ Listeners
        /\ Udp /\ Image /\ ListenersSurvive /\ phase = "running" /\ call.op = "none"
        /\ \A t \in DOMAIN sock : EndOf(t) = sock[t].stream
    BY <1>1, FreeFacts
  <1>3. /\ conn' \in [DOMAIN conn' -> [{1, 2} -> EndRec]] /\ DOMAIN conn' \subseteq DOMAIN conn
        /\ Keeps(E)
    <2>1. CASE gone
      BY Zenon, <1>1, <1>2, <2>1, ClosedEnds
    <2>2. CASE ~gone
      <3>1. conn' = conn
        BY <1>1, <2>2
      <3> QED  BY Zenon, <3>1, <1>2, SameConns DEF TypeOK
    <2> QED  BY <2>1, <2>2
  <1>4. sock[s] \in Inner /\ NoEnd \in Nat \X Nat
    BY <1>1, <1>2 DEF TypeOK, NoEnd
  <1>5. r \in Inner
    BY ZenonT(30), <1>4 DEF Inner
  <1>6. /\ r.stream = (IF gone THEN NoEnd ELSE sock[s].stream) /\ r.peek = sock[s].peek
        /\ r.peer = sock[s].peer /\ r.shut = sock[s].shut \cup how /\ r.udp = sock[s].udp
        /\ r.opts = sock[s].opts /\ r.listener = sock[s].listener /\ r.bound = sock[s].bound
        /\ r.acceptor = sock[s].acceptor /\ r.path = sock[s].path
    BY <1>4 DEF Inner
  <1> HIDE DEF r
  <1>7. /\ sock' \in [DOMAIN sock' -> Inner] /\ DOMAIN sock' = DOMAIN sock
        /\ sock'[s] = r /\ \A t \in DOMAIN sock : t # s => sock'[t] = sock[t]
    BY <1>1, <1>2, <1>5, Updates
  <1>8. TypeOK'
    BY Zenon, <1>1, <1>2, <1>3, <1>7 DEF TypeOK, frozen
  <1>9. \A t \in DOMAIN sock : EndOf(t)' = sock'[t].stream
    BY Zenon, <1>1, <1>2 DEF EndOf
  <1>10. SocksKeep(E)
    <2>1. ASSUME NEW t \in DOMAIN sock, t # s PROVE EndOf(t) \in E => EndOf(t) = NoEnd
      BY Zenon, <1>1, <1>2, <2>1 DEF Apart
    <2> QED  BY <2>1, <1>2, <1>6, <1>7, <1>9 DEF SocksKeep
  <1>11. QueuesKeep(E)
    BY <1>1, <1>2 DEF QueuesKeep, Apart
  <1>12. Streams' /\ Waiting' /\ Apart' /\ Peered'
    BY Zenon, <1>1, <1>2, <1>3, <1>10, <1>11, OwnersKeep
  <1>13. Parked'
    BY Zenon, <1>1, <1>2 DEF Parked
  <1>14. Listeners'
    BY Zenon, <1>1, <1>2, <1>6, <1>7, ListenersStay DEF ListenersKeep
  <1>15. Udp' /\ Image' /\ ListenersSurvive'
    BY Zenon, <1>1, <1>2, <1>6, <1>7, UdpStays, ImageStays DEF UdpKeeps
  <1> QED  BY <1>8, <1>12, <1>13, <1>14, <1>15 DEF IInv

\* close keeps the invariant.
LEMMA CloseStep ==
  ASSUME IInv, NEW s, Close(s) PROVE IInv'
  <1> DEFINE E == Queued(s) \cup {sock[s].stream}
  <1>1. /\ Free /\ s \in DOMAIN sock /\ sock' = Del(sock, s)
        /\ conn' = CloseEnds(conn, E) /\ backlog' = Del(backlog, s)
        /\ lost' = lost \ {s} /\ UNCHANGED <<program, call, frozen>>
    BY Zenon DEF Close
  <1>2. /\ TypeOK /\ Streams /\ Waiting /\ Apart /\ Parked /\ Peered /\ Listeners
        /\ Udp /\ Image /\ ListenersSurvive /\ phase = "running" /\ call.op = "none"
        /\ \A t \in DOMAIN sock : EndOf(t) = sock[t].stream
    BY Zenon, <1>1, FreeFacts
  <1>3. /\ conn' \in [DOMAIN conn' -> [{1, 2} -> EndRec]] /\ DOMAIN conn' \subseteq DOMAIN conn
        /\ Keeps(E)
    BY Zenon, <1>1, <1>2, ClosedEnds
  <1>4. /\ DOMAIN sock' = DOMAIN sock \ {s} /\ \A t \in DOMAIN sock' : sock'[t] = sock[t]
        /\ sock' \in [DOMAIN sock' -> Inner]
    BY Zenon, <1>1, <1>2 DEF Del, TypeOK
  <1>5. /\ DOMAIN backlog' = DOMAIN backlog \ {s}
        /\ \A l \in DOMAIN backlog' : backlog'[l] = backlog[l]
        /\ backlog' \in [DOMAIN backlog' -> Seq(Nat \X Nat)]
    BY Zenon, <1>1, <1>2 DEF Del, TypeOK
  <1>6. TypeOK'
    BY Zenon, <1>1, <1>2, <1>3, <1>4, <1>5 DEF TypeOK, frozen
  <1>7. SocksKeep(E)
    <2>1. ASSUME NEW t \in DOMAIN sock, t # s PROVE EndOf(t) \in E => EndOf(t) = NoEnd
      BY Zenon, <1>1, <1>2, <2>1, QueuedApart DEF Apart
    <2>2. \A t \in DOMAIN sock' : EndOf(t)' = EndOf(t)
      BY Zenon, <1>1, <1>2, <1>4 DEF EndOf
    <2> QED  BY Zenon, <2>1, <2>2, <1>4 DEF SocksKeep
  <1>8. QueuesKeep(E)
    BY <1>1, <1>2, <1>5, QueuedApart DEF QueuesKeep, Apart
  <1>9. Streams' /\ Waiting' /\ Apart' /\ Peered'
    BY Zenon, <1>1, <1>2, <1>3, <1>7, <1>8, OwnersKeep
  <1>10. Parked'
    BY Zenon, <1>1, <1>2 DEF Parked
  <1>11. Listeners'
    BY Zenon, <1>1, <1>2, <1>4, <1>5, ListenersStay DEF ListenersKeep
  <1>12. Udp' /\ Image' /\ ListenersSurvive'
    BY Zenon, <1>1, <1>2, <1>4, UdpStays, ImageStays DEF UdpKeeps
  <1> QED  BY <1>6, <1>9, <1>10, <1>11, <1>12 DEF IInv

\* The port the host grants is a definite address.
LEMMA GrantsText ==
  ASSUME NEW a \in Text, NEW used, NEW p \in Grants(a, used), a # None
  PROVE  p \in Text /\ p \notin {None, AnyPort}
  BY DEF Grants, Text, Addr, Fixed, Picked, AnyPort, None

\* accept4 takes the listener, or a clone of it.
LEMMA Accept4Step ==
  ASSUME IInv, NEW s, Accept4(s) PROVE IInv'
  <1>1. /\ Free /\ s \in DOMAIN sock /\ sock[s].bound # None
        /\ UNCHANGED <<program, conn, frozen>>
    BY DEF Accept4
  <1>2. /\ TypeOK /\ Streams /\ Waiting /\ Apart /\ Parked /\ Peered /\ Listeners
        /\ Udp /\ Image /\ ListenersSurvive /\ phase = "running" /\ call.op = "none"
        /\ \A t \in DOMAIN sock : EndOf(t) = sock[t].stream
    BY <1>1, FreeFacts
  <1>3. sock[s] \in Inner /\ s \in Sock
    BY Zenon, <1>1, <1>2 DEF TypeOK
  <1>4. /\ call' \in [op : {"accept"}, s : {s}, held : Text \ {None, AnyPort}]
        /\ s \in DOMAIN backlog'
        /\ DOMAIN backlog' = DOMAIN backlog \cup {s}
        /\ \A l \in DOMAIN backlog' : \/ l \in DOMAIN backlog /\ backlog'[l] = backlog[l]
                                      \/ backlog'[l] = << >>
        /\ backlog' \in [DOMAIN backlog' -> Seq(Nat \X Nat)]
        /\ lost' = lost \/ (~Unix /\ lost' = lost \ {s})
    <2>1. CASE Unix
      <3>1. /\ sock[s].listener # None /\ call' = [op |-> "accept", s |-> s, held |-> Path]
            /\ UNCHANGED <<sock, backlog, lost>>
        BY <2>1 DEF Accept4
      <3>2. s \in DOMAIN backlog /\ backlog \in [DOMAIN backlog -> Seq(Nat \X Nat)]
        BY Zenon, <3>1, <1>1, <1>2 DEF Listeners, TypeOK
      <3> QED  BY Zenon, <3>1, <3>2 DEF Path, Text, Addr, None, AnyPort
    <2>2. CASE ~Unix
      <3>1. PICK p \in IF sock[s].listener # None THEN {sock[s].listener}
                       ELSE Grants(sock[s].bound, PortsInUse) :
                 call' = [op |-> "accept", s |-> s, held |-> p]
        BY <2>2 DEF Accept4
      <3>2. p \in Text \ {None, AnyPort}
        <4>1. CASE sock[s].listener # None
          BY ZenonT(30), <3>1, <4>1, <1>1, <1>2, <1>3 DEF Listeners, Inner
        <4>2. CASE sock[s].listener = None
          <5>1. p \in Grants(sock[s].bound, PortsInUse) /\ sock[s].bound \in Text
            BY Zenon, <3>1, <4>2, <1>3 DEF Inner
          <5> QED  BY Zenon, <5>1, <1>1, GrantsText
        <4> QED  BY Zenon, <4>1, <4>2
      <3>3. /\ backlog' = IF s \in DOMAIN backlog THEN backlog ELSE Put(backlog, s, << >>)
            /\ lost' = lost \ {s}
        BY <2>2 DEF Accept4
      <3>4. backlog \in [DOMAIN backlog -> Seq(Nat \X Nat)]
        BY Zenon, <1>2 DEF TypeOK
      <3> QED  BY <2>2, <3>1, <3>2, <3>3, <3>4 DEF Put
    <2> QED  BY Zenon, <2>1, <2>2
  <1>5. /\ sock' \in [DOMAIN sock' -> Inner] /\ DOMAIN sock' = DOMAIN sock
        /\ \A t \in DOMAIN sock : t # s => sock'[t] = sock[t]
        /\ sock'[s].stream = sock[s].stream /\ sock'[s].peek = sock[s].peek
        /\ sock'[s].peer = sock[s].peer /\ sock'[s].shut = sock[s].shut
        /\ sock'[s].udp = sock[s].udp /\ sock'[s].opts = sock[s].opts
        /\ sock'[s].bound = sock[s].bound
        /\ sock'[s].listener \in {None, sock[s].listener}
        /\ Unix => sock' = sock
    <2>1. CASE Unix
      <3>1. sock' = sock
        BY <2>1 DEF Accept4
      <3> QED  BY Zenon, <3>1, <1>2 DEF TypeOK
    <2>2. CASE ~Unix
      <3> DEFINE r == [sock[s] EXCEPT !.listener = None, !.acceptor = TRUE]
      <3>1. Update(s, r)
        BY <2>2 DEF Accept4
      <3>2. r \in Inner
        BY ZenonT(30), <1>3 DEF Inner, Text
      <3>3. /\ r.stream = sock[s].stream /\ r.peek = sock[s].peek
            /\ r.peer = sock[s].peer /\ r.shut = sock[s].shut
            /\ r.udp = sock[s].udp /\ r.opts = sock[s].opts
            /\ r.bound = sock[s].bound /\ r.listener = None
        BY <1>3 DEF Inner
      <3> HIDE DEF r
      <3> QED  BY Zenon, <1>1, <1>2, <2>2, <3>1, <3>2, <3>3, Updates
    <2> QED  BY Zenon, <2>1, <2>2
  <1>6. call' \in Calls /\ call'.op = "accept" /\ call'.s = s /\ call'.held \notin {None, AnyPort}
    <2>1. [op : {"accept"}, s : {s}, held : Text \ {None, AnyPort}]
             \subseteq [op : {"accept"}, s : Sock, held : Text]
      BY <1>3
    <2> QED  BY Zenon, <1>4, <2>1 DEF Calls
  <1>7. TypeOK'
    BY Zenon, <1>1, <1>2, <1>4, <1>5, <1>6 DEF TypeOK, frozen
  <1>8. SocksKeep({})
    BY <1>2, <1>5, <1>6 DEF SocksKeep, EndOf
  <1>9. QueuesKeep({})
    BY Zenon, <1>4 DEF QueuesKeep
  <1>10. Streams' /\ Waiting' /\ Apart' /\ Peered'
    BY Zenon, <1>1, <1>2, <1>8, <1>9, SameConns, OwnersKeep
  <1>11. Parked'
    BY Zenon, <1>6 DEF Parked
  <1>12. Unix' = Unix
    BY Zenon, <1>1 DEF Unix, Family
  <1>13. Listeners'
    BY <1>1, <1>2, <1>4, <1>5, <1>6, <1>12 DEF Listeners, None, AnyPort
  <1>14. Udp' /\ Image' /\ ListenersSurvive'
    BY Zenon, <1>1, <1>2, <1>5, UdpStays, ImageStays DEF UdpKeeps
  <1> QED  BY <1>7, <1>10, <1>11, <1>13, <1>14 DEF IInv
============================================================================
