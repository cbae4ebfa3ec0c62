-------------------------- MODULE ReadinessProofs --------------------------
(* Proofs about Readiness: pipes and event counters lose nothing, and a    *)
(* waiting call neither sleeps over a ready pipe nor reports an idle one.  *)

EXTENDS Readiness, SequenceTheorems, TLAPS

\* One pipe, with q buffered, s bytes written and g read: byte number i is the
\* i-th one to be read.
Flows(q, s, g) ==
    /\ q \in Seq(Nat) /\ s \in Nat /\ g \in Seq(Nat)
    /\ s = Len(g) + Len(q)
    /\ \A i \in 1 .. Len(g) : g[i] = i
    /\ \A i \in 1 .. Len(q) : q[i] = Len(g) + i
Streams(pp, s, g) ==
    /\ DOMAIN s = DOMAIN pp /\ DOMAIN g = DOMAIN pp
    /\ pp \in [DOMAIN pp -> [buf : Seq(Nat), closed : BOOLEAN]]
    /\ \A p \in DOMAIN pp : Flows(pp[p].buf, s[p], g[p])

Conserved(c, a, t) ==
    /\ c \in Nat /\ a \in Nat /\ t \in Nat
    /\ t + c <= a
    /\ a <= MaxCounter => t + c = a

\* NeverSleepsReady and ReportsActionable of a call c and a report r: no system
\* call runs while one is parked or a report is out, so they need no more.
Parked(c) ==
    c.op \in {"poll", "epoll"} =>
        \A fd \in DOMAIN fds :
            (/\ fd \in DOMAIN c.want /\ "IN" \in c.want[fd]
             /\ Is(fd, "PipeRead") \/ (c.op = "epoll" /\ Is(fd, "Stdin")))
            => ReadResult(fd) = "EAGAIN"
Actionable(r) ==
    r.op # "none" =>
        \A fd \in Readable(r) : Is(fd, "PipeRead") => ReadResult(fd) # "EAGAIN"

Inv ==
    /\ Streams(pipe, sent, got) /\ Conserved(counter, added, taken)
    /\ Parked(call) /\ Actionable(ret)
----------------------------------------------------------------------------
\* A write goes behind everything that is on its way.
LEMMA WriteFlows ==
  ASSUME NEW q, NEW s, NEW g, Flows(q, s, g)
  PROVE  Flows(Append(q, s + 1), s + 1, g)
  <1> DEFINE new == Append(q, s + 1)
  <1>1. /\ s \in Nat /\ g \in Seq(Nat) /\ q \in Seq(Nat) /\ s + 1 \in Nat
        /\ Len(g) \in Nat /\ Len(q) \in Nat
    BY DEF Flows
  <1>2. /\ new \in Seq(Nat) /\ Len(new) = Len(q) + 1
        /\ \A i \in 1 .. Len(q) : new[i] = q[i]
        /\ new[Len(q) + 1] = s + 1
    BY <1>1, AppendProperties
  <1> HIDE DEF new
  <1>3. s = Len(g) + Len(q) /\ \A i \in 1 .. Len(q) : q[i] = Len(g) + i
    BY DEF Flows
  <1>4. \A i \in 1 .. Len(q) + 1 : new[i] = Len(g) + i
    <2> TAKE i \in 1 .. Len(q) + 1
    <2>1. CASE i \in 1 .. Len(q)
      BY <2>1, <1>2, <1>3
    <2>2. CASE i = Len(q) + 1
      BY <2>2, <1>1, <1>2, <1>3
    <2> QED  BY <2>1, <2>2, <1>1
  <1>5. s + 1 = Len(g) + (Len(q) + 1)
    BY <1>1, <1>3
  <1>6. Flows(new, s + 1, g)
    BY <1>1, <1>2, <1>4, <1>5 DEF Flows
  <1> QED  BY <1>6 DEF new

\* A read takes from the front what it gives to the guest.
LEMMA ReadFlows ==
  ASSUME NEW q, NEW s, NEW g, Flows(q, s, g), NEW k \in Nat, k <= Len(q)
  PROVE  Flows(SubSeq(q, k + 1, Len(q)), s, g \o SubSeq(q, 1, k))
  <1> DEFINE head == SubSeq(q, 1, k)
             tail == SubSeq(q, k + 1, Len(q))
             read == g \o head
  <1>1. /\ s \in Nat /\ g \in Seq(Nat) /\ q \in Seq(Nat)
        /\ Len(g) \in Nat /\ Len(q) \in Nat
    BY DEF Flows
  <1>2. \A i \in 1 .. Len(q) : q[i] \in Nat
    BY <1>1
  <1>3. head \in Seq(Nat) /\ Len(head) = k /\ \A i \in 1 .. k : head[i] = q[i]
    BY <1>1, <1>2
  <1>4. /\ tail \in Seq(Nat) /\ Len(tail) = Len(q) - k
        /\ \A i \in 1 .. Len(q) - k : tail[i] = q[k + i]
    BY <1>1, <1>2
  <1> HIDE DEF head, tail
  <1>5. /\ read \in Seq(Nat) /\ Len(read) = Len(g) + k
        /\ \A i \in 1 .. Len(g) + k : read[i] =
              IF i <= Len(g) THEN g[i] ELSE head[i - Len(g)]
    BY Zenon, <1>1, <1>3, ConcatProperties
  <1> HIDE DEF read
  <1>6. \A i \in 1 .. Len(g) + k : read[i] = i
    <2> TAKE i \in 1 .. Len(g) + k
    <2>1. CASE i <= Len(g)
      <3>1. i \in 1 .. Len(g) /\ read[i] = g[i]
        BY <2>1, <1>1, <1>5
      <3>2. g[i] = i
        BY <3>1 DEF Flows
      <3> QED  BY <3>1, <3>2
    <2>2. CASE i > Len(g)
      <3>1. i - Len(g) \in 1 .. k /\ i - Len(g) \in 1 .. Len(q)
        BY <2>2, <1>1
      <3>2. read[i] = q[i - Len(g)]
        BY SMTT(30), <2>2, <3>1, <1>3, <1>5
      <3>3. q[i - Len(g)] = Len(g) + (i - Len(g))
        BY Zenon, <3>1 DEF Flows
      <3> QED  BY <3>2, <3>3, <1>1
    <2> QED  BY <2>1, <2>2, <1>1
  <1>7. \A i \in 1 .. Len(tail) : tail[i] = Len(read) + i
    BY SMTT(60), <1>1, <1>4, <1>5 DEF Flows
  <1>8. Flows(tail, s, read)
    BY <1>1, <1>4, <1>5, <1>6, <1>7 DEF Flows
  <1> QED  BY <1>8 DEF head, tail, read

\* So what was written is what was read and then what is buffered.
LEMMA FlowsFifo ==
  ASSUME NEW q, NEW s, NEW g, Flows(q, s, g)
  PROVE  [i \in 1 .. s |-> i] = g \o q
  <1>1. /\ s \in Nat /\ g \in Seq(Nat) /\ q \in Seq(Nat)
        /\ Len(g) \in Nat /\ Len(q) \in Nat
    BY DEF Flows
  <1>2. /\ g \o q \in Seq(Nat) /\ Len(g \o q) = Len(g) + Len(q)
        /\ \A i \in 1 .. Len(g) + Len(q) : (g \o q)[i] =
              IF i <= Len(g) THEN g[i] ELSE q[i - Len(g)]
    BY <1>1, ConcatProperties
  <1>3. \A i \in 1 .. s : (g \o q)[i] = i
    BY <1>1, <1>2 DEF Flows
  <1> DEFINE all == g \o q
             num == [i \in 1 .. s |-> i]
  <1>4. num \in Seq(Nat) /\ Len(num) = s
    BY <1>1
  <1>5. Len(all) = s /\ all \in Seq(Nat) /\ \A i \in 1 .. s : all[i] = num[i]
    BY <1>1, <1>2, <1>3 DEF Flows
  <1> HIDE DEF all, num
  <1>6. all = num
    BY <1>4, <1>5, SeqEqual
  <1> QED  BY <1>6 DEF all, num
----------------------------------------------------------------------------
\* poll and epoll call a read end readable exactly when read has an answer.
LEMMA PollReads ==
  ASSUME NEW fd, NEW ev, Is(fd, "PipeRead")
  PROVE  "IN" \in PollOne(fd, ev) <=> "IN" \in ev /\ ReadResult(fd) # "EAGAIN"
  <1>1. PollOne(fd, ev) =
            ReadyPipeRead(ev, Behind(fd).closed \/ Behind(fd).buf # << >>)
    BY DEF PollOne, Is
  <1> QED  BY <1>1 DEF ReadyPipeRead, ReadResult

\* compute_revents answers the same for stdin.
LEMMA EpollReads ==
  ASSUME NEW fd, NEW ev, IsReader(fd)
  PROVE  "IN" \in ComputeRevents(fd, ev) <=> "IN" \in ev /\ ReadResult(fd) # "EAGAIN"
  <1>1. ComputeRevents(fd, ev) =
            IF Behind(fd).closed \/ Behind(fd).buf # << >> THEN ev \cap {"IN"} ELSE {}
    BY DEF ComputeRevents, Is, IsReader
  <1> QED  BY <1>1 DEF ReadResult

\* So a call that found nothing ready may park,
LEMMA PollParks ==
  ASSUME NEW want, Ready(PollAll(want)) = {}, NEW b
  PROVE  Parked([op |-> "poll", want |-> want, timed |-> b])
  <1> SUFFICES ASSUME NEW fd \in DOMAIN fds, fd \in DOMAIN want, "IN" \in want[fd],
                      Is(fd, "PipeRead")
               PROVE  ReadResult(fd) = "EAGAIN"
    BY DEF Parked
  <1>1. PollOne(fd, want[fd]) = {}
    BY DEF Ready, PollAll
  <1> QED  BY <1>1, PollReads

\* in epoll_wait as in poll,
LEMMA EpollParks ==
  ASSUME NEW want, Ready(EpollAll(want)) = {}, NEW m, NEW b
  PROVE  Parked([op |-> "epoll", want |-> want, max |-> m, timed |-> b])
  <1> SUFFICES ASSUME NEW fd \in DOMAIN fds, fd \in DOMAIN want, "IN" \in want[fd],
                      IsReader(fd)
               PROVE  ReadResult(fd) = "EAGAIN"
    BY DEF Parked, IsReader
  <1>1. ComputeRevents(fd, want[fd]) = {}
    BY DEF Ready, EpollAll
  <1> QED  BY <1>1, EpollReads

\* and what a call reports can be acted on.
LEMMA PollReports ==
  ASSUME NEW want
  PROVE  Actionable(Report(want, PollAll(want)))
  <1> DEFINE r == Report(want, PollAll(want))
  <1> SUFFICES ASSUME NEW fd \in Readable(r), Is(fd, "PipeRead")
               PROVE  ReadResult(fd) # "EAGAIN"
    BY DEF Actionable
  <1>1. fd \in DOMAIN want /\ "IN" \in PollOne(fd, want[fd])
    BY DEF Readable, Report, SelectSets, Ready, PollAll
  <1> QED  BY <1>1, PollReads

\* pack_events reports a part of what is ready.
LEMMA EpollReports ==
  ASSUME NEW want, NEW m, NEW r \in PackedReports(EpollAll(want), m)
  PROVE  Actionable(r)
  <1> SUFFICES ASSUME NEW fd \in Readable(r), Is(fd, "PipeRead")
               PROVE  ReadResult(fd) # "EAGAIN"
    BY DEF Actionable
  <1>1. PICK s \in SUBSET Ready(EpollAll(want)) :
            r = [op |-> "epoll", n |-> Cardinality(s),
                 revents |-> [f \in s |-> EpollAll(want)[f]]]
    BY DEF PackedReports
  <1>2. fd \in s /\ "IN" \in EpollAll(want)[fd]
    BY <1>1 DEF Readable
  <1>3. fd \in DOMAIN want /\ "IN" \in ComputeRevents(fd, want[fd])
    BY <1>2 DEF Ready, EpollAll
  <1> QED  BY <1>3, EpollReads DEF IsReader

\* An empty report, and no report at all, claim nothing.
LEMMA NothingReported ==
  /\ Actionable([op |-> "epoll", n |-> 0, revents |-> EmptyMap])
  /\ Actionable(None) /\ Parked(None)
  /\ Parked([op |-> "sleep", timed |-> TRUE])
  BY DEF Actionable, Parked, Readable, EmptyMap, None

\* The waiting calls change nothing that they look at.
LEMMA QuietKeeps ==
  ASSUME UNCHANGED quiet, Parked(call'), Actionable(ret'),
         Streams(pipe, sent, got), Conserved(counter, added, taken)
  PROVE  Inv'
  <1>1. fds' = fds /\ pipe' = pipe /\ UNCHANGED ghosts /\ counter' = counter
    BY DEF quiet
  <1>2. (Parked(call))'
    BY <1>1 DEF Parked, Is, ReadResult, Behind
  <1>3. (Actionable(ret))'
    BY <1>1 DEF Actionable, Is, ReadResult, Behind, Readable
  <1> QED  BY <1>1, <1>2, <1>3 DEF Inv, ghosts, Streams, Conserved

\* The other ones run while no call is parked and no report is out.
LEMMA IdleKeeps ==
  ASSUME Idle, UNCHANGED <<call, ret>>,
         Streams(pipe', sent', got'), Conserved(counter', added', taken')
  PROVE  Inv'
  <1>1. call' = [op |-> "none"] /\ ret' = [op |-> "none"]
    BY DEF Idle, None
  <1> QED  BY <1>1 DEF Inv, Parked, Actionable
----------------------------------------------------------------------------
\* A new kernel has delivered what it was given.
LEMMA InitEstablishes == Init => Inv
  <1> SUFFICES ASSUME Init PROVE Inv
    OBVIOUS
  <1>1. Parked(call) /\ Actionable(ret)
    BY NothingReported DEF Init
  <1>2. Conserved(counter, added, taken)
    BY DEF Init, Conserved
  <1>3. << >> \in Seq(Nat) /\ <<1>> \in Seq(Nat)
    OBVIOUS
  <1>4. \/ pipe = EmptyMap
        \/ \E pre \in {<< >>, <<1>>}, shut \in BOOLEAN :
               pipe = [p \in {Stdio} |-> [buf |-> pre, closed |-> shut]]
    BY Zenon DEF Init
  <1>5. pipe \in [DOMAIN pipe -> [buf : Seq(Nat), closed : BOOLEAN]]
    <2>1. CASE pipe = EmptyMap
      BY <2>1 DEF EmptyMap
    <2>2. CASE \E pre \in {<< >>, <<1>>}, shut \in BOOLEAN :
                   pipe = [p \in {Stdio} |-> [buf |-> pre, closed |-> shut]]
      <3>1. PICK pre \in {<< >>, <<1>>}, shut \in BOOLEAN :
                pipe = [p \in {Stdio} |-> [buf |-> pre, closed |-> shut]]
        BY <2>2
      <3>2. [buf |-> pre, closed |-> shut] \in [buf : Seq(Nat), closed : BOOLEAN]
        BY Zenon, <1>3
      <3> QED  BY <3>1, <3>2
    <2> QED  BY Zenon, <1>4, <2>1, <2>2
  <1>6. ASSUME NEW p \in DOMAIN pipe PROVE pipe[p].buf \in {<< >>, <<1>>}
    BY <1>4 DEF EmptyMap
  <1>7. Flows(<< >>, Len(<< >>), << >>) /\ Flows(<<1>>, Len(<<1>>), << >>)
    <2>1. /\ Len(<< >>) = 0 /\ Len(<<1>>) = 1
          /\ \A i \in 1 .. 0 : FALSE
          /\ \A i \in 1 .. 1 : <<1>>[i] = i
      OBVIOUS
    <2> QED  BY <2>1, <1>3 DEF Flows
  <1>8. Streams(pipe, sent, got)
    BY Zenon, <1>5, <1>6, <1>7 DEF Init, Streams
  <1> QED  BY <1>1, <1>2, <1>8 DEF Inv

\* Pipes come, go, fill and drain; nothing else touches their bytes.
LEMMA PipeSteps ==
  ASSUME Streams(pipe, sent, got)
  PROVE  /\ \A p \in Pipe : Pipe2(p) => Streams(pipe', sent', got')
         /\ \A fd \in DOMAIN fds : Close(fd) => Streams(pipe', sent', got')
         /\ \A fd : \A n \in Nat : ReadPipe(fd, n) => Streams(pipe', sent', got')
         /\ \A fd : WritePipe(fd) => Streams(pipe', sent', got')
  <1> DEFINE Record == [buf : Seq(Nat), closed : BOOLEAN]
  <1>1. /\ DOMAIN sent = DOMAIN pipe /\ DOMAIN got = DOMAIN pipe
        /\ pipe \in [DOMAIN pipe -> Record]
        /\ \A p \in DOMAIN pipe : Flows(pipe[p].buf, sent[p], got[p])
    BY DEF Streams
  <1>2. ASSUME NEW p \in Pipe, Pipe2(p) PROVE Streams(pipe', sent', got')
    <2>1. Flows(<< >>, 0, << >>)
      <3>1. Len(<< >>) = 0 /\ << >> \in Seq(Nat) /\ \A i \in 1 .. 0 : FALSE
        OBVIOUS
      <3> QED  BY <3>1 DEF Flows
    <2>2. /\ pipe' = Put(pipe, p, [buf |-> << >>, closed |-> FALSE])
          /\ sent' = Put(sent, p, 0) /\ got' = Put(got, p, << >>)
      BY <1>2 DEF Pipe2
    <2>3. [buf |-> << >>, closed |-> FALSE] \in Record
      OBVIOUS
    <2>4. pipe' \in [DOMAIN pipe' -> Record]
      BY <1>1, <2>2, <2>3 DEF Put
    <2>5. \A q \in DOMAIN pipe' : Flows(pipe'[q].buf, sent'[q], got'[q])
      BY <1>1, <2>1, <2>2 DEF Put
    <2> QED  BY Zenon, <1>1, <2>2, <2>4, <2>5 DEF Streams, Put
  <1>3. ASSUME NEW fd \in DOMAIN fds, Close(fd) PROVE Streams(pipe', sent', got')
    <2>1. PICK pipes \in SUBSET DOMAIN pipe :
              /\ pipe' = [p \in pipes |-> pipe[p]]
              /\ sent' = [p \in pipes |-> sent[p]] /\ got' = [p \in pipes |-> got[p]]
      BY Zenon, <1>3 DEF Close
    <2> QED  BY <1>1, <2>1 DEF Streams
  <1>4. ASSUME NEW fd, NEW n \in Nat, ReadPipe(fd, n) PROVE Streams(pipe', sent', got')
    <2> DEFINE p == fds[fd].pipe
               k == IF n < Len(pipe[p].buf) THEN n ELSE Len(pipe[p].buf)
    <2>1. /\ pipe' = [pipe EXCEPT ![p].buf = SubSeq(pipe[p].buf, k + 1, Len(pipe[p].buf))]
          /\ got' = [got EXCEPT ![p] = got[p] \o SubSeq(pipe[p].buf, 1, k)]
          /\ sent' = sent
      BY Zenon, <1>4 DEF ReadPipe, Rest
    <2>2. CASE p \in DOMAIN pipe
      <3>1. pipe[p].buf \in Seq(Nat) /\ k \in Nat /\ k <= Len(pipe[p].buf)
        BY <1>1, <2>2
      <3> DEFINE tail == SubSeq(pipe[p].buf, k + 1, Len(pipe[p].buf))
                 read == got[p] \o SubSeq(pipe[p].buf, 1, k)
      <3>2. Flows(tail, sent[p], read)
        BY SMTT(30), <1>1, <2>2, <3>1, ReadFlows
      <3>3. pipe' = [pipe EXCEPT ![p].buf = tail] /\ got' = [got EXCEPT ![p] = read]
        BY Zenon, <2>1
      <3>4. tail \in Seq(Nat)
        BY Zenon, <3>2 DEF Flows
      <3> HIDE DEF tail, read, k, p
      <3>5. /\ DOMAIN pipe' = DOMAIN pipe /\ DOMAIN got' = DOMAIN got
            /\ pipe' \in [DOMAIN pipe -> Record]
        BY Zenon, <1>1, <2>2, <3>3, <3>4
      <3>6. \A q \in DOMAIN pipe : Flows(pipe'[q].buf, sent[q], got'[q])
        BY <1>1, <2>2, <3>2, <3>3
      <3> QED  BY <1>1, <2>1, <3>5, <3>6 DEF Streams
    <2>3. CASE p \notin DOMAIN pipe
      <3> HIDE DEF p, k
      <3>1. /\ DOMAIN pipe' = DOMAIN pipe /\ DOMAIN got' = DOMAIN got
            /\ \A q \in DOMAIN pipe : pipe'[q] = pipe[q] /\ got'[q] = got[q]
            /\ pipe' = [q \in DOMAIN pipe |-> pipe'[q]]
        BY Zenon, <1>1, <2>1, <2>3
      <3> QED  BY Zenon, <1>1, <2>1, <3>1 DEF Streams
    <2> QED  BY <2>2, <2>3
  <1>5. ASSUME NEW fd, WritePipe(fd) PROVE Streams(pipe', sent', got')
    <2> DEFINE p == fds[fd].pipe
               longer == Append(pipe[p].buf, sent[p] + 1)
               more == sent[p] + 1
    <2>1. /\ pipe' = [pipe EXCEPT ![p].buf = longer]
          /\ sent' = [sent EXCEPT ![p] = more]
          /\ got' = got
      BY <1>5 DEF WritePipe
    <2>2. CASE p \in DOMAIN pipe
      <3>1. Flows(longer, more, got[p])
        BY <1>1, <2>2, WriteFlows
      <3>2. longer \in Seq(Nat)
        BY <3>1 DEF Flows
      <3> HIDE DEF longer, more, p
      <3> QED  BY Zenon, <1>1, <2>1, <2>2, <3>1, <3>2 DEF Streams
    <2>3. CASE p \notin DOMAIN pipe
      <3> HIDE DEF longer, more, p
      <3>1. /\ DOMAIN pipe' = DOMAIN pipe /\ DOMAIN sent' = DOMAIN sent
            /\ \A q \in DOMAIN pipe : pipe'[q] = pipe[q] /\ sent'[q] = sent[q]
            /\ pipe' = [q \in DOMAIN pipe |-> pipe'[q]]
        BY Zenon, <1>1, <2>1, <2>3
      <3> QED  BY Zenon, <1>1, <2>1, <3>1 DEF Streams
    <2> QED  BY <2>2, <2>3
  <1> QED  BY <1>2, <1>3, <1>4, <1>5

\* The counter gains what is added, up to its limit, and loses what is taken.
LEMMA CounterSteps ==
  ASSUME Conserved(counter, added, taken)
  PROVE  /\ \A i \in Nat : Eventfd2(i) => Conserved(counter', added', taken')
         /\ \A fd : Close(fd) => Conserved(counter', added', taken')
         /\ \A fd : EventRead(fd) => Conserved(counter', added', taken')
         /\ \A fd : \A n \in Nat : EventWrite(fd, n) => Conserved(counter', added', taken')
  <1>1. ASSUME NEW i \in Nat, Eventfd2(i) PROVE Conserved(counter', added', taken')
    BY <1>1 DEF Eventfd2, Conserved
  <1>2. ASSUME NEW fd, Close(fd) PROVE Conserved(counter', added', taken')
    <2>1. \/ counter' = counter /\ added' = added /\ taken' = taken
          \/ counter' = 0 /\ added' = 0 /\ taken' = 0
      BY <1>2 DEF Close
    <2> QED  BY <2>1 DEF Conserved
  <1>3. ASSUME NEW fd, EventRead(fd) PROVE Conserved(counter', added', taken')
    BY <1>3 DEF EventRead, Conserved
  <1>4. ASSUME NEW fd, NEW n \in Nat, EventWrite(fd, n)
        PROVE  Conserved(counter', added', taken')
    BY <1>4, ReadinessAssumption DEF EventWrite, Saturated, Conserved
  <1> QED  BY <1>1, <1>2, <1>3, <1>4

\* Every system call and every timer keeps the invariant.
LEMMA NextPreserves == Inv /\ [Next]_vars => Inv'
  <1> SUFFICES ASSUME Inv, [Next]_vars PROVE Inv'
    OBVIOUS
  <1> USE DEF ghosts
  <1>0. /\ Streams(pipe, sent, got) /\ Conserved(counter, added, taken)
        /\ Parked(call) /\ Actionable(ret)
    BY DEF Inv
  <1>1. ASSUME NEW p \in Pipe, Pipe2(p) PROVE Inv'
    <2>1. Idle /\ UNCHANGED <<call, ret, counter, added, taken>>
      BY <1>1 DEF Pipe2
    <2> QED  BY <1>0, <1>1, <2>1, PipeSteps, IdleKeeps
  <1>2. CASE OpenFile \/ OpenSocket \/ EpollCreate1
    <2>1. Idle /\ UNCHANGED <<call, ret, pipe, sent, got, counter, added, taken>>
      BY <1>2 DEF OpenFile, OpenSocket, EpollCreate1, Bind
    <2> QED  BY <1>0, <2>1, IdleKeeps
  <1>3. ASSUME NEW i \in 0 .. 1, Eventfd2(i) PROVE Inv'
    <2>1. Idle /\ UNCHANGED <<call, ret, pipe, sent, got>> /\ i \in Nat
      BY <1>3 DEF Eventfd2, Bind
    <2> QED  BY <1>0, <1>3, <2>1, CounterSteps, IdleKeeps
  <1>4. ASSUME NEW fd \in DOMAIN fds, Close(fd) PROVE Inv'
    <2>1. Idle /\ UNCHANGED <<call, ret>>
      BY <1>4 DEF Close
    <2> QED  BY <1>0, <1>4, <2>1, PipeSteps, CounterSteps, IdleKeeps
  <1>5. ASSUME NEW fd \in DOMAIN fds, EventRead(fd) PROVE Inv'
    <2>1. Idle /\ UNCHANGED <<call, ret, pipe, sent, got>>
      BY <1>5 DEF EventRead
    <2> QED  BY <1>0, <1>5, <2>1, CounterSteps, IdleKeeps
  <1>6. ASSUME NEW fd \in DOMAIN fds, WritePipe(fd) PROVE Inv'
    <2>1. Idle /\ UNCHANGED <<call, ret, counter, added, taken>>
      BY <1>6 DEF WritePipe
    <2> QED  BY <1>0, <1>6, <2>1, PipeSteps, IdleKeeps
  <1>7. ASSUME NEW fd \in DOMAIN fds, NEW n \in 1 .. 2, ReadPipe(fd, n) PROVE Inv'
    <2>1. Idle /\ UNCHANGED <<call, ret, counter, added, taken>>
      BY Zenon, <1>7 DEF ReadPipe
    <2>2. n \in Nat
      BY <1>7
    <2> QED  BY <1>0, <1>7, <2>1, <2>2, PipeSteps, IdleKeeps
  <1>8. ASSUME NEW fd \in DOMAIN fds, NEW n \in 1 .. 2, EventWrite(fd, n) PROVE Inv'
    <2>1. Idle /\ UNCHANGED <<call, ret, pipe, sent, got>> /\ n \in Nat
      BY <1>8 DEF EventWrite
    <2> QED  BY <1>0, <1>8, <2>1, CounterSteps, IdleKeeps
  <1>9. ASSUME NEW old, NEW new, Dup2(old, new) PROVE Inv'
    <2>1. Idle /\ UNCHANGED <<call, ret, pipe, sent, got, counter, added, taken>>
      BY <1>9 DEF Dup2
    <2> QED  BY <1>0, <2>1, IdleKeeps
  <1>10. ASSUME NEW want, NEW t, Poll(want, t) PROVE Inv'
    <2>1. UNCHANGED quiet /\ Idle
      BY <1>10 DEF Poll
    <2>2. CASE Answers(PollAll(want), t)
      BY <1>0, <1>10, <2>1, <2>2, PollReports, QuietKeeps DEF Poll
    <2>3. CASE ~Answers(PollAll(want), t)
      <3>1. /\ Ready(PollAll(want)) = {} /\ ret' = None
            /\ call' = [op |-> "poll", want |-> want, timed |-> t = "some"]
        BY <1>10, <2>3 DEF Poll, Answers
      <3>2. Parked(call')
        BY <3>1, PollParks
      <3> QED  BY <1>0, <2>1, <3>1, <3>2, NothingReported, QuietKeeps
    <2> QED  BY <2>2, <2>3
  <1>11. ASSUME NEW ep, NEW op, NEW fd, NEW ev, EpollCtl(ep, op, fd, ev) PROVE Inv'
    <2>1. Idle /\ UNCHANGED <<call, ret, pipe, sent, got, counter, added, taken>>
      BY <1>11 DEF EpollCtl
    <2> QED  BY <1>0, <2>1, IdleKeeps
  <1>12. ASSUME NEW ep, NEW max, NEW t, EpollWait(ep, max, t) PROVE Inv'
    <2>1. UNCHANGED quiet
      BY <1>12 DEF EpollWait
    <2>2. CASE entries = EmptyMap
      <3>1. /\ call' \in {None, [op |-> "sleep", timed |-> TRUE]}
            /\ ret' \in {None, [op |-> "epoll", n |-> 0, revents |-> EmptyMap]}
        BY <1>12, <2>2 DEF EpollWait
      <3> QED  BY Zenon, <1>0, <2>1, <3>1, NothingReported, QuietKeeps
    <2>3. CASE entries # EmptyMap /\ Ready(EpollAll(entries)) # {}
      <3>1. ret' \in PackedReports(EpollAll(entries), max) /\ call' = call
        BY <1>12, <2>3 DEF EpollWait
      <3> QED  BY <1>0, <2>1, <3>1, EpollReports, QuietKeeps
    <2>4. CASE entries # EmptyMap /\ Ready(EpollAll(entries)) = {}
      <3>1. /\ call' = [op |-> "epoll", want |-> entries, max |-> max,
                        timed |-> t # "never"]
            /\ ret' = None
        BY <1>12, <2>4 DEF EpollWait
      <3>2. Parked(call')
        BY <2>4, <3>1, EpollParks
      <3> QED  BY <1>0, <2>1, <3>1, <3>2, NothingReported, QuietKeeps
    <2> QED  BY <2>2, <2>3, <2>4
  <1>13. CASE PollTimeout
    <2>1. UNCHANGED quiet /\ call' = None
          /\ ret' = Report(call.want, PollAll(call.want))
      BY <1>13 DEF PollTimeout
    <2> QED  BY Zenon, <1>0, <2>1, PollReports, NothingReported, QuietKeeps
  <1>14. CASE EpollTimeout
    <2>1. UNCHANGED quiet /\ call' = None
          /\ ret' \in PackedReports(EpollAll(call.want), call.max)
      BY <1>14 DEF EpollTimeout
    <2> QED  BY <1>0, <2>1, EpollReports, NothingReported, QuietKeeps
  <1>15. CASE SleepTimeout
    <2>1. UNCHANGED quiet /\ call' = None
          /\ ret' = [op |-> "epoll", n |-> 0, revents |-> EmptyMap]
      BY <1>15 DEF SleepTimeout
    <2> QED  BY <1>0, <2>1, NothingReported, QuietKeeps
  <1>16. CASE Resume
    <2>1. UNCHANGED <<quiet, call>> /\ ret' = None
      BY <1>16 DEF Resume
    <2> QED  BY Zenon, <1>0, <2>1, NothingReported, QuietKeeps
  <1>17. CASE UNCHANGED vars
    <2>1. UNCHANGED quiet /\ UNCHANGED <<call, ret>>
      BY <1>17 DEF vars, quiet
    <2> QED  BY <1>0, <2>1, QuietKeeps
  <1> QED
    BY <1>1, <1>2, <1>3, <1>4, <1>5, <1>6, <1>7, <1>8, <1>9, <1>10, <1>11, <1>12,
       <1>13, <1>14, <1>15, <1>16, <1>17 DEF Next

\* The invariant behind the four theorems.
LEMMA InvHolds == Spec => []Inv
  BY InitEstablishes, NextPreserves, PTL DEF Spec
----------------------------------------------------------------------------
\* For any pipes, descriptors and event masks, every pipe hands out its bytes
\* once and in order, through all its duplicates (file.rs, internal_dup).
THEOREM PipesLoseNothing == Spec => []StreamFifo
  <1>1. Inv => StreamFifo
    BY Zenon, FlowsFifo DEF Inv, Streams, StreamFifo
  <1> QED  BY <1>1, InvHolds, PTL

\* For any u64 bound, the event counter reports no more than was added, and all
\* of it until it saturates (eventfd_read, eventfd_write).
THEOREM CountersLoseNothing == Spec => []EventConserved
  <1>1. Inv => EventConserved
    BY DEF Inv, Conserved, EventConserved
  <1> QED  BY <1>1, InvHolds, PTL

\* No poll, select or epoll_wait stays parked over a pipe that a read would find
\* ready, however many descriptors and registrations there are.
THEOREM WaitsOnlyWhenIdle == Spec => []NeverSleepsReady
  <1>1. Inv => NeverSleepsReady
    BY DEF Inv, Parked, NeverSleepsReady, WantsIn
  <1> QED  BY <1>1, InvHolds, PTL

\* What poll, select and epoll_wait call readable is readable when the guest
\* gets the answer, for every set of descriptors they were asked about.
THEOREM ReportsHold == Spec => []ReportsActionable
  <1>1. Inv => ReportsActionable
    BY DEF Inv, Actionable, ReportsActionable
  <1> QED  BY <1>1, InvHolds, PTL
=============================================================================
