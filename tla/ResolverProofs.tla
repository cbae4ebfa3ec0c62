--------------------------- MODULE ResolverProofs ---------------------------
(***************************************************************************)
(* How old an answer can be, for every number of threads and names, every  *)
(* time to live and time-out, and every size of the cache; and the layout  *)
(* of the list the guest gets, for answers of every length.                *)
(***************************************************************************)
EXTENDS Resolver, WellFoundedInduction, TLAPS

\* Oldest, for a time to live T.
Limit(T) == IF T = 0 THEN 0 ELSE T + Timeout + 1

\* An answer is at most the time-out older than its entry: it was given while
\* its lookup waited.  Ages stop at Oldest.
EntryOK(e, T) ==
    /\ e = [addrs |-> e.addrs, age |-> e.age, old |-> e.old]
    /\ e.age \in 0 .. Limit(T) /\ e.old \in 0 .. Limit(T)
    /\ e.old <= e.age + Timeout
    /\ e.addrs \in Seq(V4 \cup V6)

\* A lookup waits no longer than the time-out, and its answer came meanwhile.
LookupOK(th, T) ==
    /\ th = [at |-> th.at, name |-> th.name, family |-> th.family,
             waited |-> th.waited, answer |-> th.answer, old |-> th.old]
    /\ th.waited \in 0 .. Timeout /\ th.old \in 0 .. Limit(T)
    /\ th.old <= th.waited
    /\ th.answer # << >> => th.answer[1] \in Seq(V4 \cup V6)

\* What the guest got.
BackOK(th, T) == th.n > 0 /\ T > 0 => th.old <= T - 1 + Timeout

ThreadOK(th, T) ==
    /\ th.at = "lookup" => LookupOK(th, T)
    /\ th.at = "back" => BackOK(th, T)

IInv ==
    /\ ttl \in Nat
    /\ \A n \in DOMAIN cache : EntryOK(cache[n], ttl)
    /\ thread = [t \in Thread |-> thread[t]]
    /\ \A t \in Thread : ThreadOK(thread[t], ttl)

\* A tick ages by at most one, and no further than Oldest.
LEMMA OlderStep ==
    ASSUME ttl \in Nat, NEW n \in 0 .. Limit(ttl)
    PROVE  /\ Limit(ttl) \in Nat
           /\ Older(n) \in 0 .. Limit(ttl)
           /\ n <= Older(n) /\ Older(n) <= n + 1
           /\ Older(n) = n => n = Limit(ttl)
BY ResolverAssumption DEF Older, Oldest, Limit

\* An empty cache holds no old answer.
LEMMA InitEstablishes == Init => IInv
BY ResolverAssumption DEF Init, IInv, ThreadOK, Idle, EmptyMap

\* A step that leaves the settings alone and moves one thread to a good state.
LEMMA OneThread ==
    ASSUME IInv, NEW t \in Thread, NEW th,
           ttl' = ttl, thread' = [thread EXCEPT ![t] = th], ThreadOK(th, ttl)
    PROVE  /\ thread' = [u \in Thread |-> thread'[u]]
           /\ \A u \in Thread : ThreadOK(thread'[u], ttl')
<1>1. ASSUME NEW u \in Thread PROVE ThreadOK(thread'[u], ttl')
  <2>1. thread'[u] = IF u = t THEN th ELSE thread[u]
    BY DEF IInv
  <2>2. ThreadOK(thread[u], ttl)
    BY DEF IInv
  <2> QED BY <2>1, <2>2
<1>2. thread' = [u \in Thread |-> thread'[u]]
  BY DEF IInv
<1> QED BY <1>1, <1>2

\* An error is a good state to come back in.
LEMMA ErrorGood ==
    ASSUME IInv, NEW t \in Thread, ttl' = ttl, Error(t)
    PROVE  /\ thread' = [u \in Thread |-> thread'[u]]
           /\ \A u \in Thread : ThreadOK(thread'[u], ttl')
<1> DEFINE th == [at |-> "back", n |-> 0, family |-> "UNSPEC", old |-> 0]
<1>1. thread' = [thread EXCEPT ![t] = th]
  BY DEF Error
<1>2. ThreadOK(th, ttl)
  BY DEF ThreadOK, BackOK
<1> HIDE DEF th
<1> QED BY Zenon, <1>1, <1>2, OneThread

\* So is an answer that is young enough.
LEMMA ReturnGood ==
    ASSUME IInv, NEW t \in Thread, NEW addrs, NEW family, NEW old,
           ttl' = ttl, ttl > 0 => old <= ttl - 1 + Timeout,
           marshal_and_return(t, addrs, family, old)
    PROVE  /\ thread' = [u \in Thread |-> thread'[u]]
           /\ \A u \in Thread : ThreadOK(thread'[u], ttl')
<1> DEFINE num == Len(filter_addrs(addrs, family))
           th == [at |-> "back", n |-> num, family |-> family, old |-> old]
<1>1. Error(t) \/ thread' = [thread EXCEPT ![t] = th]
  BY DEF marshal_and_return
<1>2. ThreadOK(th, ttl)
  BY DEF ThreadOK, BackOK
<1> HIDE DEF th
<1> QED BY <1>1, <1>2, OneThread, ErrorGood

\* Every lookup step and every tick keeps the ages bounded.
LEMMA NextPreserves == IInv /\ [Next]_vars => IInv'
<1> SUFFICES ASSUME IInv, [Next]_vars PROVE IInv'
  OBVIOUS
<1> USE ResolverAssumption
<1> DEFINE Good == /\ thread' = [u \in Thread |-> thread'[u]]
                   /\ \A u \in Thread : ThreadOK(thread'[u], ttl')
<1>a. ASSUME ttl' = ttl, cache' = cache, Good PROVE IInv'
  BY <1>a DEF IInv
<1>1. ASSUME NEW t \in Thread, Reject(t) \/ Fail(t) \/ TimedOut(t) PROVE IInv'
  BY <1>1, <1>a, ErrorGood DEF Reject, Fail, TimedOut
<1>2. ASSUME NEW t \in Thread, NEW name \in Name, NEW family \in Family, Hit(t, name, family)
      PROVE  IInv'
  <2>1. EntryOK(cache[name], ttl) /\ Live(cache[name])
    BY <1>2 DEF Hit, IInv
  <2>2. ttl > 0 => cache[name].old <= ttl - 1 + Timeout
    <3> DEFINE age == cache[name].age
               old == cache[name].old
    <3>1. age \in Nat /\ old \in Nat /\ old <= age + Timeout /\ (ttl = 0 \/ age < ttl)
      BY <2>1 DEF EntryOK, Live, Limit, IInv
    <3>2. ttl \in Nat
      BY DEF IInv
    <3> HIDE DEF age
    <3> QED BY <3>1, <3>2
  <2>3. marshal_and_return(t, cache[name].addrs, family, cache[name].old)
    BY <1>2 DEF Hit
  <2>4. ttl' = ttl /\ cache' = cache
    BY <1>2 DEF Hit
  <2> QED BY <1>a, <2>2, <2>3, <2>4, ReturnGood
<1>3. ASSUME NEW t \in Thread, NEW name \in Name, NEW family \in Family, Miss(t, name, family)
      PROVE  IInv'
  <2> DEFINE th == [at |-> "lookup", name |-> name, family |-> family,
                    waited |-> 0, answer |-> << >>, old |-> 0]
  <2>1. ThreadOK(th, ttl)
    BY DEF ThreadOK, LookupOK, IInv, Limit
  <2>2. thread' = [thread EXCEPT ![t] = th] /\ ttl' = ttl /\ cache' = cache
    BY <1>3 DEF Miss
  <2> HIDE DEF th
  <2> QED BY Zenon, <1>a, <2>1, <2>2, OneThread
<1>4. ASSUME NEW t \in Thread, NEW addrs \in Answers, Answer(t, addrs) PROVE IInv'
  <2> DEFINE th == [thread[t] EXCEPT !.answer = <<addrs>>]
  <2>1. LookupOK(thread[t], ttl) /\ thread[t].at = "lookup"
    BY <1>4 DEF Answer, IInv, ThreadOK
  <2>2. ThreadOK(th, ttl)
    BY <2>1 DEF ThreadOK, LookupOK
  <2>3. thread' = [thread EXCEPT ![t] = th] /\ ttl' = ttl /\ cache' = cache
    BY <1>4 DEF Answer
  <2> HIDE DEF th
  <2> QED BY Zenon, <1>a, <2>2, <2>3, OneThread
<1>5. ASSUME NEW t \in Thread, Resume(t) PROVE IInv'
  <2> DEFINE old == thread[t].old
             name == thread[t].name
             addrs == thread[t].answer[1]
             entry == [addrs |-> addrs, age |-> 0, old |-> old]
  <2>1. LookupOK(thread[t], ttl)
    BY <1>5 DEF Resume, IInv, ThreadOK
  <2>2. old \in Nat /\ old <= Timeout /\ old \in 0 .. Limit(ttl)
    BY <2>1 DEF LookupOK, Limit, IInv
  <2>3. ttl > 0 => old <= ttl - 1 + Timeout
    BY <2>2 DEF IInv
  <2>4. marshal_and_return(t, addrs, thread[t].family, old) /\ ttl' = ttl
    BY <1>5 DEF Resume
  <2>5. Good
    BY <2>3, <2>4, ReturnGood
  <2>a. addrs \in Seq(V4 \cup V6)
    BY <1>5, <2>1 DEF Resume, LookupOK
  <2> HIDE DEF addrs
  <2>6. EntryOK(entry, ttl)
    BY <2>2, <2>a DEF EntryOK, Limit, IInv
  <2>7. cache' = Put(Evicted, name, entry)
    BY <1>5 DEF Resume, Insert, addrs
  <2>8. \A n \in DOMAIN Evicted : EntryOK(Evicted[n], ttl)
    BY DEF Evicted, Del, IInv
  <2> HIDE DEF entry
  <2>9. \A n \in DOMAIN cache' : EntryOK(cache'[n], ttl')
    BY <2>4, <2>6, <2>7, <2>8 DEF Put
  <2> QED BY <2>4, <2>5, <2>9 DEF IInv
<1>6. ASSUME NEW t \in Thread, Copied(t) PROVE IInv'
  <2>1. ThreadOK(Idle, ttl)
    BY DEF ThreadOK, Idle
  <2> QED BY Zenon, <1>6, <1>a, <2>1, OneThread DEF Copied
<1>7. ASSUME Tick PROVE IInv'
  <2>1. ttl' = ttl
    BY Zenon, <1>7 DEF Tick
  <2>2. ASSUME NEW n \in DOMAIN cache' PROVE EntryOK(cache'[n], ttl')
    <3> DEFINE e == cache[n]
    <3>1. EntryOK(e, ttl)
      BY Zenon, <1>7, <2>2 DEF Tick, IInv
    <3>2. cache'[n] = [e EXCEPT !.age = Older(e.age), !.old = Older(e.old)]
      BY Zenon, <1>7, <2>2 DEF Tick
    <3> HIDE DEF e
    <3>3. cache'[n] = [addrs |-> e.addrs, age |-> Older(e.age), old |-> Older(e.old)]
      BY Zenon, <3>1, <3>2 DEF EntryOK
    <3>4. PICK a \in 0 .. Limit(ttl), o \in 0 .. Limit(ttl) :
            a = e.age /\ o = e.old /\ o <= a + Timeout
      BY <3>1 DEF EntryOK
    <3>5. Older(o) <= Older(a) + Timeout
      <4>1. /\ Limit(ttl) \in Nat /\ Older(o) \in 0 .. Limit(ttl) /\ Older(o) <= o + 1
            /\ Older(a) \in Nat /\ a <= Older(a) /\ (Older(a) = a => a = Limit(ttl))
        BY <3>4, OlderStep DEF IInv
      <4>2. Timeout \in Nat /\ a \in Nat /\ o \in Nat /\ o <= a + Timeout
        BY <3>4, ResolverAssumption
      <4> QED
        BY ONLY <4>1, <4>2
    <3>6. Older(a) \in 0 .. Limit(ttl) /\ Older(o) \in 0 .. Limit(ttl)
      BY <3>4, OlderStep DEF IInv
    <3>7. e.addrs \in Seq(V4 \cup V6)
      BY <3>1 DEF EntryOK
    <3> QED BY <2>1, <3>3, <3>4, <3>5, <3>6, <3>7 DEF EntryOK
  <2>3. ASSUME NEW u \in Thread PROVE ThreadOK(thread'[u], ttl')
    <3> DEFINE th == thread[u]
    <3>1. thread'[u] = Ticked(th) /\ ThreadOK(th, ttl)
      BY Zenon, <1>7 DEF Tick, IInv
    <3>2. CASE th.at # "lookup"
      BY <2>1, <3>1, <3>2 DEF Ticked
    <3>3. CASE th.at = "lookup"
      <4> DEFINE o == IF th.answer = << >> THEN 0 ELSE Older(th.old)
      <4>1. LookupOK(th, ttl) /\ th.waited < Timeout
        BY Zenon, <1>7, <3>1, <3>3 DEF Tick, ThreadOK
      <4>2. thread'[u] = [th EXCEPT !.waited = th.waited + 1, !.old = o]
        BY <3>1, <3>3 DEF Ticked
      <4>3. o \in 0 .. Limit(ttl) /\ o <= th.waited + 1 /\ th.waited + 1 \in 0 .. Timeout
        BY <4>1, OlderStep DEF LookupOK, IInv, Limit
      <4> HIDE DEF th, o
      <4>4. thread'[u] = [at |-> th.at, name |-> th.name, family |-> th.family,
                          waited |-> th.waited + 1, answer |-> th.answer, old |-> o]
        BY Zenon, <4>1, <4>2 DEF LookupOK
      <4>5. th.answer # << >> => th.answer[1] \in Seq(V4 \cup V6)
        BY <4>1 DEF LookupOK
      <4> QED BY <2>1, <3>3, <4>3, <4>4, <4>5 DEF ThreadOK, LookupOK
    <3> QED BY <3>2, <3>3
  <2>4. thread' = [u \in Thread |-> thread'[u]]
    BY Zenon, <1>7 DEF Tick
  <2> QED BY <2>1, <2>2, <2>3, <2>4 DEF IInv
<1>8. CASE UNCHANGED vars
  BY <1>8 DEF vars, IInv
<1> QED BY <1>1, <1>2, <1>3, <1>4, <1>5, <1>6, <1>7, <1>8 DEF Next

(***************************************************************************)
(* Every answer resolve hands to the guest was given less than             *)
(* ttl + timeout ticks before, however lookups of a name overlap.          *)
(***************************************************************************)
THEOREM AnswersFresh == Spec => []Fresh
<1>1. IInv => Fresh
  BY DEF IInv, Fresh, ThreadOK, BackOK
<1> QED BY <1>1, InitEstablishes, NextPreserves, PTL DEF Spec

(***************************************************************************)
(* The list in the scratch area.  filter_addrs and NodeOff are recursive   *)
(* functions on an initial segment of Nat: induction shows that a function *)
(* with the equations exists, and then that it has the property needed.    *)
(***************************************************************************)

\* A set of numbers with zero and closed under successor is all of Nat.
LEMMA SetInduction ==
    ASSUME NEW S \in SUBSET Nat, 0 \in S, \A n \in S : n + 1 \in S
    PROVE  S = Nat
<1> SUFFICES ASSUME Nat \ S # {} PROVE FALSE
  BY Zenon
<1> DEFINE R == {p \in Nat \X Nat : p[1] < p[2]}
<1>1. IsWellFoundedOn(R, Nat)
  BY NatLessThanWellFounded DEF OpToRel
<1> HIDE DEF R
<1>2. PICK x \in Nat \ S : \A y \in Nat \ S : <<y, x>> \notin R
  BY Zenon, <1>1, WFMin
<1>3. \A y \in Nat \ S : ~(y < x)
  BY Zenon, <1>2 DEF R
<1> QED BY <1>3

\* The equations of NodeOff, for the first m offsets.
Offsets(addrs, g, m) ==
    g = [i \in 1 .. m |->
           IF i = 1 THEN 0 ELSE g[i - 1] + ADDRINFO_SIZE + SockaddrSize(addrs[i - 1])]

\* They have a solution.
LEMMA OffsetsExist ==
    ASSUME NEW addrs, NEW m \in Nat
    PROVE  \E g \in [1 .. m -> Nat] : Offsets(addrs, g, m)
<1> DEFINE S == { n \in Nat : \E g \in [1 .. n -> Nat] : Offsets(addrs, g, n) }
<1>1. 0 \in S
  <2>1. [i \in 1 .. 0 |-> 0] \in [1 .. 0 -> Nat] /\ Offsets(addrs, [i \in 1 .. 0 |-> 0], 0)
    BY DEF Offsets
  <2> QED BY Zenon, <2>1
<1>2. ASSUME NEW n \in S PROVE n + 1 \in S
  <2>1. PICK g \in [1 .. n -> Nat] : Offsets(addrs, g, n)
    BY <1>2
  <2> DEFINE h == [i \in 1 .. n + 1 |->
                     IF i <= n THEN g[i] ELSE IF i = 1 THEN 0
                     ELSE g[n] + ADDRINFO_SIZE + SockaddrSize(addrs[n])]
  <2>2. h \in [1 .. n + 1 -> Nat]
    BY SMTT(30) DEF ADDRINFO_SIZE, SockaddrSize, SOCKADDR_IN_SIZE, SOCKADDR_IN6_SIZE
  <2>3. Offsets(addrs, h, n + 1)
    BY <2>1 DEF Offsets
  <2>4. n + 1 \in Nat
    OBVIOUS
  <2> HIDE DEF h
  <2> QED BY Zenon, <2>2, <2>3, <2>4
<1>3. S = Nat
  <2> HIDE DEF S
  <2> QED BY Zenon, <1>1, <1>2, SetInduction DEF S
<1> QED BY Zenon, <1>3

\* So NodeOff satisfies them, and its offsets grow by node and sockaddr.
LEMMA OffsetFacts ==
    ASSUME NEW addrs, NEW n \in Nat, Len(addrs) = n
    PROVE  LET off == NodeOff(addrs) IN
           /\ off[1] = 0
           /\ \A i \in 1 .. n + 1 : off[i] \in Nat /\ off[i] <= off[n + 1]
           /\ \A i \in 1 .. n :
                off[i + 1] = off[i] + ADDRINFO_SIZE + SockaddrSize(addrs[i])
<1> DEFINE off == NodeOff(addrs)
<1>1. PICK g \in [1 .. n + 1 -> Nat] : Offsets(addrs, g, n + 1)
  <2>1. n + 1 \in Nat
    OBVIOUS
  <2> QED BY Zenon, <2>1, OffsetsExist
<1>2. Offsets(addrs, off, n + 1)
  BY Zenon, <1>1 DEF NodeOff, Offsets
<1>3. off[1] = 0
  BY <1>2 DEF Offsets
<1>4. \A i \in 1 .. n : off[i + 1] = off[i] + ADDRINFO_SIZE + SockaddrSize(addrs[i])
  BY <1>2 DEF Offsets
<1> HIDE DEF off
<1>5. \A ip : ADDRINFO_SIZE + SockaddrSize(ip) \in Nat
  BY DEF ADDRINFO_SIZE, SockaddrSize, SOCKADDR_IN_SIZE, SOCKADDR_IN6_SIZE
<1> DEFINE S == { k \in Nat : k <= n => /\ off[k + 1] \in Nat
                                        /\ \A i \in 1 .. k + 1 : off[i] <= off[k + 1]
                                        /\ \A i \in 1 .. k + 1 : off[i] \in Nat }
<1>6. 0 \in S
  BY <1>3
<1>7. ASSUME NEW k \in S PROVE k + 1 \in S
  <2>1. SUFFICES ASSUME k + 1 <= n
                 PROVE  /\ off[k + 1 + 1] \in Nat
                        /\ \A i \in 1 .. k + 1 + 1 : off[i] <= off[k + 1 + 1] /\ off[i] \in Nat
    OBVIOUS
  <2>2. off[k + 1] \in Nat /\ \A i \in 1 .. k + 1 : off[i] <= off[k + 1] /\ off[i] \in Nat
    BY <2>1
  <2>3. off[k + 1 + 1] = off[k + 1] + ADDRINFO_SIZE + SockaddrSize(addrs[k + 1])
    BY <1>4, <2>1
  <2>4. ADDRINFO_SIZE \in Nat /\ SockaddrSize(addrs[k + 1]) \in Nat
    BY DEF ADDRINFO_SIZE, SockaddrSize, SOCKADDR_IN_SIZE, SOCKADDR_IN6_SIZE
  <2>5. off[k + 1 + 1] \in Nat /\ off[k + 1] <= off[k + 1 + 1]
    BY SMTT(30), <2>2, <2>3, <2>4
  <2>6. ASSUME NEW i \in 1 .. k + 1 + 1
        PROVE  off[i] <= off[k + 1 + 1] /\ off[i] \in Nat
    <3>1. CASE i = k + 1 + 1
      BY <2>5, <3>1
    <3>2. CASE i \in 1 .. k + 1
      BY <2>2, <2>5, <3>2
    <3> QED BY <3>1, <3>2
  <2> QED BY <2>5, <2>6
<1>8. S = Nat
  <2> HIDE DEF S
  <2> QED BY Zenon, <1>6, <1>7, SetInduction DEF S
<1>9. n \in S
  BY Zenon, <1>8
<1> QED BY <1>3, <1>4, <1>9 DEF off

\* The addresses of a family that are not denied, and the equations of
\* filter_addrs.
Allowed(family) == { ip \in V4 \cup V6 : Wanted(ip, family) }
Grown(addrs, family, kept, i) ==
    IF Wanted(addrs[i], family) THEN Append(kept, addrs[i]) ELSE kept
Filtering(addrs, family, g, m) ==
    g = [i \in 0 .. m |-> IF i = 0 THEN << >> ELSE Grown(addrs, family, g[i - 1], i)]

\* One more address keeps the result allowed.
LEMMA GrownAllowed ==
    ASSUME NEW addrs \in Seq(V4 \cup V6), NEW family, NEW i \in 1 .. Len(addrs),
           NEW kept \in Seq(Allowed(family))
    PROVE  Grown(addrs, family, kept, i) \in Seq(Allowed(family))
<1>1. addrs[i] \in V4 \cup V6
  OBVIOUS
<1>2. CASE Wanted(addrs[i], family)
  <2>1. addrs[i] \in Allowed(family)
    BY <1>1, <1>2 DEF Allowed
  <2> QED BY <1>2, <2>1 DEF Grown
<1> QED BY <1>2 DEF Grown

\* The equations have a solution.
LEMMA FilteringExists ==
    ASSUME NEW addrs, NEW family, NEW m \in Nat
    PROVE  \E g : Filtering(addrs, family, g, m)
<1> DEFINE S == { n \in Nat : \E g : Filtering(addrs, family, g, n) }
<1>1. 0 \in S
  <2> DEFINE h == [i \in 0 .. 0 |-> << >>]
  <2>1. Filtering(addrs, family, h, 0)
    BY DEF Filtering
  <2> HIDE DEF h
  <2> QED BY <2>1
<1>2. ASSUME NEW n \in S PROVE n + 1 \in S
  <2>1. PICK g : Filtering(addrs, family, g, n)
    BY <1>2
  <2> DEFINE last == Grown(addrs, family, g[n], n + 1)
             h == [i \in 0 .. n + 1 |-> IF i <= n THEN g[i] ELSE last]
  <2>2. Filtering(addrs, family, h, n + 1)
    BY <2>1 DEF Filtering
  <2>3. n + 1 \in Nat
    OBVIOUS
  <2> HIDE DEF h
  <2> QED BY <2>2, <2>3
<1>3. S = Nat
  <2> HIDE DEF S
  <2> QED BY Zenon, <1>1, <1>2, SetInduction DEF S
<1> QED BY <1>3

\* What filter_addrs returns: allowed addresses only.
LEMMA FilterFacts ==
    ASSUME NEW addrs \in Seq(V4 \cup V6), NEW family
    PROVE  filter_addrs(addrs, family) \in Seq(Allowed(family))
<1> DEFINE n == Len(addrs)
           kept == CHOOSE g : Filtering(addrs, family, g, n)
           X == Seq(Allowed(family))
<1>1. n \in Nat
  OBVIOUS
<1>2. \E g : Filtering(addrs, family, g, n)
  BY Zenon, <1>1, FilteringExists
<1>3. Filtering(addrs, family, kept, n)
  BY <1>2
<1>4. filter_addrs(addrs, family) = kept[n]
  BY DEF filter_addrs, Filtering, Grown
<1> HIDE DEF kept
<1> DEFINE S == { k \in Nat : k <= n => kept[k] \in X }
<1>5. 0 \in S
  BY <1>1, <1>3 DEF Filtering
<1>6. ASSUME NEW k \in S PROVE k + 1 \in S
  <2>1. SUFFICES ASSUME k + 1 <= n PROVE kept[k + 1] \in X
    OBVIOUS
  <2>2. kept[k] \in X
    BY <1>1, <2>1
  <2>3. kept[k + 1] = Grown(addrs, family, kept[k], k + 1)
    BY <1>1, <1>3, <2>1 DEF Filtering
  <2>4. k + 1 \in 1 .. Len(addrs)
    BY <2>1
  <2> QED BY <2>2, <2>3, <2>4, GrownAllowed
<1>7. S = Nat
  <2> HIDE DEF S
  <2> QED BY Zenon, <1>5, <1>6, SetInduction DEF S
<1>8. kept[n] \in X
  <2> HIDE DEF X, n
  <2> QED BY <1>1, <1>7
<1> QED BY <1>4, <1>8

\* The list laid out for a filtered answer that fits is well formed.
LEMMA MarshalWellFormed ==
    ASSUME NEW family, NEW addrs \in Seq(Allowed(family)), addrs # << >>,
           ~(NodeOff(addrs)[Len(addrs) + 1] > ScratchBytes)
    PROVE  WellFormed(marshal_addrinfo_into_vec(addrs), Len(addrs), family, denylist)
<1> DEFINE n == Len(addrs)
           off == NodeOff(addrs)
           nodes == marshal_addrinfo_into_vec(addrs)
<1>1. n \in Nat /\ n >= 1 /\ DOMAIN addrs = 1 .. n
  OBVIOUS
<1>2. /\ off[1] = 0
      /\ \A i \in 1 .. n + 1 : off[i] \in Nat /\ off[i] <= off[n + 1]
      /\ \A i \in 1 .. n : off[i + 1] = off[i] + ADDRINFO_SIZE + SockaddrSize(addrs[i])
  BY Zenon, <1>1, OffsetFacts
<1>3. off[n + 1] <= ScratchBytes
  <2>1. off[n + 1] \in Nat
    BY <1>1, <1>2
  <2> QED BY <2>1, ResolverAssumption
<1>4. \A i \in 1 .. n : addrs[i] \in Allowed(family)
  OBVIOUS
<1>5. nodes = [i \in 1 .. n |-> [off |-> off[i], ip |-> addrs[i],
                                 ai_next |-> IF i < n THEN off[i + 1] ELSE 0]]
  BY <1>1 DEF marshal_addrinfo_into_vec
<1> HIDE DEF off, nodes, n
<1>6. Len(nodes) = n
  BY <1>1, <1>5
<1>7. \A i \in 1 .. n : /\ nodes[i].off = off[i] /\ nodes[i].ip = addrs[i]
                        /\ nodes[i].ai_next = IF i < n THEN off[i + 1] ELSE 0
  BY <1>1, <1>5
<1>8. nodes[1].off = 0 /\ nodes[n].ai_next = 0
  BY <1>1, <1>2, <1>7
<1>9. \A i \in 1 .. n - 1 : nodes[i].ai_next = nodes[i + 1].off
  BY <1>1, <1>7
<1>10. ASSUME NEW i \in 1 .. n
       PROVE  LET end == nodes[i].off + ADDRINFO_SIZE + SockaddrSize(nodes[i].ip) IN
              /\ end <= ScratchBytes
              /\ i < n => end <= nodes[i + 1].off
  <2>1. nodes[i].off + ADDRINFO_SIZE + SockaddrSize(nodes[i].ip) = off[i + 1]
    BY <1>2, <1>7
  <2>2. i + 1 \in 1 .. n + 1
    BY <1>1
  <2>3. off[i + 1] \in Nat /\ off[i + 1] <= off[n + 1] /\ off[n + 1] \in Nat
    BY <1>1, <1>2, <2>2
  <2>4. i < n => nodes[i + 1].off = off[i + 1]
    BY <1>1, <1>7
  <2> QED BY <1>3, <2>1, <2>3, <2>4, ResolverAssumption
<1>11. \A i \in 1 .. n : /\ nodes[i].ip \notin denylist
                         /\ family = "INET" => nodes[i].ip \in V4
                         /\ family = "INET6" => nodes[i].ip \in V6
  BY <1>4, <1>7 DEF Allowed, Wanted
<1> QED BY <1>6, <1>8, <1>9, <1>10, <1>11 DEF WellFormed, n, nodes

\* What the guest may rely on in one thread's list.
ListOK(t, th, area, denied) ==
    (/\ th.at = "back" /\ th.n > 0
     /\ area # << >> /\ area[1].by = t)
    => WellFormed(area[1].nodes, th.n, th.family, denied)

\* An error promises no list, whether or not the area was written.
LEMMA ErrorList ==
    ASSUME IInv, ListWellFormed, NEW t \in Thread, Error(t), denylist' = denylist,
           scratch' = scratch \/ (scratch' # << >> /\ scratch'[1].by = t)
    PROVE  ListWellFormed'
<1>1. thread'[t].n = 0 /\ ~(thread'[t].n > 0)
  BY DEF Error, IInv
<1>2. \A u \in Thread : u # t => thread'[u] = thread[u]
  BY DEF Error, IInv
<1>3. ASSUME NEW u \in Thread PROVE ListOK(u, thread'[u], scratch', denylist')
  <2>1. ListOK(u, thread[u], scratch, denylist)
    BY DEF ListWellFormed, ListOK
  <2>2. CASE u = t
    BY <1>1, <2>2 DEF ListOK
  <2>3. CASE u # t /\ scratch' = scratch
    BY <1>2, <2>1, <2>3
  <2>4. CASE u # t /\ scratch'[1].by = t
    BY <2>4 DEF ListOK
  <2> QED BY <2>2, <2>3, <2>4
<1> QED BY <1>3 DEF ListWellFormed, ListOK

\* A returned answer: its own list is the one just laid out, and no other
\* thread owns the area any more.
LEMMA ReturnList ==
    ASSUME IInv, ListWellFormed, NEW t \in Thread, NEW addrs \in Seq(V4 \cup V6),
           NEW family, NEW old, denylist' = denylist,
           marshal_and_return(t, addrs, family, old)
    PROVE  ListWellFormed'
<1> DEFINE filtered == filter_addrs(addrs, family)
           nodes == marshal_addrinfo_into_vec(filtered)
           area == <<[by |-> t, nodes |-> nodes]>>
           th == [at |-> "back", n |-> Len(filtered), family |-> family, old |-> old]
<1>1. filtered \in Seq(Allowed(family))
  BY Zenon, FilterFacts
<1>2. area # << >> /\ area[1].by = t /\ area[1].nodes = nodes
  OBVIOUS
<1>3. \/ Error(t) /\ (scratch' = scratch \/ scratch' = area)
      \/ /\ filtered # << >> /\ ~(NodeOff(filtered)[Len(filtered) + 1] > ScratchBytes)
         /\ scratch' = area /\ thread' = [thread EXCEPT ![t] = th]
  BY DEF marshal_and_return
<1>4. th.n = Len(filtered) /\ th.family = family
  OBVIOUS
<1> HIDE DEF area, th, nodes
<1>5. CASE Error(t) /\ (scratch' = scratch \/ scratch' = area)
  BY <1>2, <1>5, ErrorList
<1>6. CASE /\ filtered # << >> /\ ~(NodeOff(filtered)[Len(filtered) + 1] > ScratchBytes)
           /\ scratch' = area /\ thread' = [thread EXCEPT ![t] = th]
  <2>1. WellFormed(nodes, Len(filtered), family, denylist)
    <3> HIDE DEF filtered
    <3> QED BY <1>1, <1>6, MarshalWellFormed DEF nodes
  <2>2. thread'[t] = th
    BY <1>6 DEF IInv
  <2>3. ASSUME NEW u \in Thread PROVE ListOK(u, thread'[u], scratch', denylist')
    <3>1. CASE u = t
      BY <1>2, <1>4, <1>6, <2>1, <2>2, <3>1 DEF ListOK
    <3>2. CASE u # t
      BY <1>2, <1>6, <3>2 DEF ListOK
    <3> QED BY <3>1, <3>2
  <2> QED BY <2>3 DEF ListWellFormed, ListOK
<1> QED BY <1>3, <1>5, <1>6

\* A step of threads that do not come back with a list.
LEMMA OtherList ==
    ASSUME ListWellFormed, denylist' = denylist,
           scratch' = scratch \/ scratch' = << >>,
           \A u \in Thread : thread'[u] = thread[u] \/ thread'[u].at # "back"
    PROVE  ListWellFormed'
<1>1. ASSUME NEW u \in Thread PROVE ListOK(u, thread'[u], scratch', denylist')
  <2>1. ListOK(u, thread[u], scratch, denylist)
    BY DEF ListWellFormed, ListOK
  <2>2. CASE scratch' = << >> \/ thread'[u].at # "back"
    BY <2>2 DEF ListOK
  <2>3. CASE scratch' = scratch /\ thread'[u] = thread[u]
    BY <2>1, <2>3
  <2> QED BY <2>2, <2>3
<1> QED BY <1>1 DEF ListWellFormed, ListOK

\* Every step keeps the lists the threads hold.
LEMMA ListPreserved == IInv /\ ListWellFormed /\ [Next]_vars => ListWellFormed'
<1> SUFFICES ASSUME IInv, ListWellFormed, [Next]_vars PROVE ListWellFormed'
  OBVIOUS
<1>f. thread = [t \in Thread |-> thread[t]]
  BY DEF IInv
<1>1. ASSUME NEW t \in Thread, Reject(t) \/ Fail(t) \/ TimedOut(t) PROVE ListWellFormed'
  BY <1>1, ErrorList DEF Reject, Fail, TimedOut
<1>2. ASSUME NEW t \in Thread, NEW name \in Name, NEW family \in Family, Hit(t, name, family)
      PROVE  ListWellFormed'
  <2>1. cache[name].addrs \in Seq(V4 \cup V6)
    BY <1>2 DEF Hit, IInv, EntryOK
  <2>2. marshal_and_return(t, cache[name].addrs, family, cache[name].old)
        /\ denylist' = denylist
    BY <1>2 DEF Hit
  <2> QED BY Zenon, <2>1, <2>2, ReturnList
<1>3. ASSUME NEW t \in Thread, NEW name \in Name, NEW family \in Family, Miss(t, name, family)
      PROVE  ListWellFormed'
  <2>1. \A u \in Thread : thread'[u] = thread[u] \/ thread'[u].at # "back"
    BY <1>3, <1>f DEF Miss
  <2> QED BY <1>3, <2>1, OtherList DEF Miss
<1>4. ASSUME NEW t \in Thread, NEW addrs \in Answers, Answer(t, addrs) PROVE ListWellFormed'
  <2>1. LookupOK(thread[t], ttl) /\ thread[t].at = "lookup"
    BY <1>4 DEF Answer, IInv, ThreadOK
  <2>2. thread'[t] = [thread[t] EXCEPT !.answer = <<addrs>>]
        /\ \A u \in Thread : u # t => thread'[u] = thread[u]
    BY <1>4, <1>f DEF Answer
  <2>3. thread'[t].at # "back"
    BY <2>1, <2>2 DEF LookupOK
  <2> QED BY <1>4, <2>2, <2>3, OtherList DEF Answer
<1>5. ASSUME NEW t \in Thread, Resume(t) PROVE ListWellFormed'
  <2>1. thread[t].answer[1] \in Seq(V4 \cup V6)
    BY <1>5 DEF Resume, IInv, ThreadOK, LookupOK
  <2>2. marshal_and_return(t, thread[t].answer[1], thread[t].family, thread[t].old)
        /\ denylist' = denylist
    BY <1>5 DEF Resume
  <2> QED BY Zenon, <2>1, <2>2, ReturnList
<1>6. ASSUME NEW t \in Thread, Copied(t) PROVE ListWellFormed'
  <2>1. \A u \in Thread : thread'[u] = thread[u] \/ thread'[u].at # "back"
    BY <1>6, <1>f DEF Copied, Idle
  <2> QED BY <1>6, <2>1, OtherList DEF Copied
<1>7. ASSUME Tick PROVE ListWellFormed'
  <2>1. ASSUME NEW u \in Thread PROVE thread'[u] = thread[u] \/ thread'[u].at # "back"
    <3>1. thread'[u] = Ticked(thread[u]) /\ ThreadOK(thread[u], ttl)
      BY Zenon, <1>7 DEF Tick, IInv
    <3>2. CASE thread[u].at # "lookup"
      BY <3>1, <3>2 DEF Ticked
    <3>3. CASE thread[u].at = "lookup"
      BY <3>1, <3>3 DEF Ticked, ThreadOK, LookupOK
    <3> QED BY <3>2, <3>3
  <2> QED BY Zenon, <1>7, <2>1, OtherList DEF Tick
<1>8. CASE UNCHANGED vars
  BY <1>8, OtherList DEF vars
<1> QED BY <1>1, <1>2, <1>3, <1>4, <1>5, <1>6, <1>7, <1>8 DEF Next

(***************************************************************************)
(* The list resolve leaves in the scratch area for a thread is well        *)
(* formed until another thread's answer overwrites it: for every answer of *)
(* the backend, denylist and size of the area, its nodes are linked, apart *)
(* and inside the area, and hold only addresses of the family asked for.   *)
(***************************************************************************)
THEOREM ListsWellFormed == Spec => []ListWellFormed
<1>1. Init => ListWellFormed
  BY DEF Init, ListWellFormed
<1> QED BY <1>1, InitEstablishes, NextPreserves, ListPreserved, PTL DEF Spec
=============================================================================
