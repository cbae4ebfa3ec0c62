---------------------------- MODULE MemoryProofs ----------------------------
(***************************************************************************)
(* The guest's memory, for every value of the constants.  The free list:   *)
(* for an arena of any size, any alignment and any sequence of alloc and   *)
(* free, the Vec of holes implements the arena that LinearAllocator is     *)
(* built from.  The image of a guest: what freeze writes and serve reads   *)
(* back.                                                                   *)
(***************************************************************************)
EXTENDS FreeList, Snapshot, WellFoundedInduction, TLAPS

(***************************************************************************)
(* The free list of an arena.                                              *)
(***************************************************************************)
\* An entry lies in the arena and is not empty.
Hole == { h \in [off : Offset, len : 1 .. ARENA_SIZE] : h.off + h.len <= ARENA_SIZE }
Covers(h, b) == h.off <= b /\ b < h.off + h.len
Cover(s) == UNION { EntryOf(s[i]) : i \in DOMAIN s }

\* Entries that share no byte, and entries with a byte between any two.
Clear(g, h) == g.off + g.len <= h.off
Gap(g, h) == g.off + g.len < h.off
Disjoint(s) == \A i, j \in DOMAIN s : i /= j => Clear(s[i], s[j]) \/ Clear(s[j], s[i])
Spaced(s) == \A i, j \in DOMAIN s : i /= j => Gap(s[i], s[j]) \/ Gap(s[j], s[i])

\* The inductive invariant.
ListInv ==
    /\ used \in 0 .. ARENA_SIZE
    /\ free_list \in Seq(Hole)
    /\ Spaced(free_list)
    /\ allocated \subseteq 0 .. used - 1
    /\ Cover(free_list) \subseteq (0 .. used - 1) \ allocated

\* Induction over the natural numbers, for a set of them.
LEMMA SetInduction ==
    ASSUME NEW S \in SUBSET Nat, 0 \in S, \A n \in S : n + 1 \in S
    PROVE  S = Nat
<1> SUFFICES ASSUME Nat \ S # {} PROVE FALSE
  BY Zenon
<1> DEFINE R == {p \in Nat \X Nat : p[1] < p[2]}
<1>1. IsWellFoundedOn(R, Nat)
  BY NatLessThanWellFounded DEF OpToRel
<1> HIDE DEF R
<1>2. PICK x \in Nat \ S : \A y \in Nat \ S : <<y, x>> \notin R
  BY Zenon, <1>1, WFMin
<1>3. \A y \in Nat \ S : ~(y < x)
  BY Zenon, <1>2 DEF R
<1> QED BY <1>3

\* A set of natural numbers that is not empty has a least element.
LEMMA LeastNat ==
    ASSUME NEW S \in SUBSET Nat, S /= {}
    PROVE  \E m \in S : \A n \in S : m <= n
<1> DEFINE R == {p \in Nat \X Nat : p[1] < p[2]}
<1>1. IsWellFoundedOn(R, Nat)
  BY NatLessThanWellFounded DEF OpToRel
<1> HIDE DEF R
<1>2. PICK x \in S : \A y \in S : <<y, x>> \notin R
  BY Zenon, <1>1, WFMin
<1>3. \A y \in S : ~(y < x)
  BY Zenon, <1>2 DEF R
<1> QED BY <1>3

\* The fields of an entry.
LEMMA HoleFacts ==
    ASSUME NEW h \in Hole
    PROVE  /\ h.off \in Nat /\ h.len \in Nat /\ h.len >= 1
           /\ h.off + h.len <= ARENA_SIZE /\ h.off < ARENA_SIZE
           /\ h = [off |-> h.off, len |-> h.len]
BY ArenaAssumption DEF Hole, Offset

\* An entry made from two numbers.
LEMMA MakeHole ==
    ASSUME NEW off \in Nat, NEW len \in Nat, len >= 1, off + len <= ARENA_SIZE
    PROVE  /\ Entry(off, len) \in Hole
           /\ Entry(off, len).off = off /\ Entry(off, len).len = len
BY ArenaAssumption DEF Hole, Offset, Entry

\* The bytes a list covers.
LEMMA CoverFacts ==
    ASSUME NEW s \in Seq(Hole)
    PROVE  /\ \A b \in Cover(s) : b \in Nat /\ b < ARENA_SIZE
           /\ \A b \in Nat : b \in Cover(s) <=> \E i \in DOMAIN s : Covers(s[i], b)
<1>1. \A i \in DOMAIN s : s[i] \in Hole
  OBVIOUS
<1>2. \A i \in DOMAIN s : \A b : b \in EntryOf(s[i]) <=> b \in Nat /\ Covers(s[i], b)
  BY <1>1, HoleFacts DEF EntryOf, Bytes, Covers
<1>3. \A b : b \in Cover(s) <=> \E i \in DOMAIN s : b \in EntryOf(s[i])
  BY Zenon DEF Cover
<1>4. \A i \in DOMAIN s, b \in Nat : Covers(s[i], b) => b < ARENA_SIZE
  BY <1>1, HoleFacts, ArenaAssumption DEF Covers
<1> QED BY Zenon, <1>2, <1>3, <1>4

\* Two entries with a byte between them: neither covers a byte next to the
\* other.
LEMMA GapFacts ==
    ASSUME NEW g \in Hole, NEW h \in Hole, Gap(g, h) \/ Gap(h, g)
    PROVE  /\ g /= h
           /\ ~Covers(g, h.off - 1) /\ ~Covers(g, h.off + h.len)
<1>1. g.off \in Nat /\ g.len \in Nat /\ g.len >= 1
  BY HoleFacts
<1>2. h.off \in Nat /\ h.len \in Nat /\ h.len >= 1
  BY HoleFacts
<1> QED BY <1>1, <1>2 DEF Gap, Covers

\* An entry does not cover the bytes next to it.
LEMMA SelfFacts ==
    ASSUME NEW h \in Hole
    PROVE  ~Covers(h, h.off - 1) /\ ~Covers(h, h.off + h.len)
<1>1. h.off \in Nat /\ h.len \in Nat /\ h.len >= 1
  BY HoleFacts
<1> QED BY <1>1 DEF Covers

\* A list whose entries are apart has each run of the bytes it covers, once.
LEMMA SpacedRuns ==
    ASSUME NEW s \in Seq(Hole), Spaced(s)
    PROVE  IsInjective(s) /\ Range(s) = Holes(Cover(s))
<1>1. \A i \in DOMAIN s : s[i] \in Hole
  OBVIOUS
<1>2. IsInjective(s)
  BY Zenon, <1>1, GapFacts DEF IsInjective, Spaced
<1>3. ASSUME NEW i \in DOMAIN s PROVE s[i] \in Holes(Cover(s))
  <2>1. s[i] \in [off : Offset, len : 1 .. ARENA_SIZE]
    BY <1>1 DEF Hole
  <2>2. Bytes(s[i].off, s[i].len) \subseteq Cover(s)
    BY Zenon DEF Cover, EntryOf
  <2>3. ASSUME s[i].off /= 0 PROVE s[i].off - 1 \notin Cover(s)
    <3>1. s[i].off - 1 \in Nat
      BY <1>1, <2>3, HoleFacts
    <3>2. ASSUME NEW j \in DOMAIN s PROVE ~Covers(s[j], s[i].off - 1)
      BY Zenon, <1>1, GapFacts, SelfFacts DEF Spaced
    <3> QED BY Zenon, <3>1, <3>2, CoverFacts
  <2>4. s[i].off + s[i].len \notin Cover(s)
    <3>1. s[i].off + s[i].len \in Nat
      BY <1>1, HoleFacts
    <3>2. ASSUME NEW j \in DOMAIN s PROVE ~Covers(s[j], s[i].off + s[i].len)
      BY Zenon, <1>1, GapFacts, SelfFacts DEF Spaced
    <3> QED BY Zenon, <3>1, <3>2, CoverFacts
  <2> QED BY Zenon, <2>1, <2>2, <2>3, <2>4 DEF Holes
<1>4. ASSUME NEW h \in Holes(Cover(s)) PROVE \E i \in DOMAIN s : h = s[i]
  <2>1. /\ h \in [off : Offset, len : 1 .. ARENA_SIZE]
        /\ Bytes(h.off, h.len) \subseteq Cover(s)
        /\ h.off = 0 \/ h.off - 1 \notin Cover(s)
        /\ h.off + h.len \notin Cover(s)
    BY Zenon DEF Holes
  <2>2. h.off \in Nat /\ h.len \in Nat /\ h.len >= 1 /\ h = [off |-> h.off, len |-> h.len]
    BY <2>1, ArenaAssumption DEF Offset
  <2>3. h.off \in Cover(s)
    BY <2>1, <2>2 DEF Bytes
  <2>4. PICK i \in DOMAIN s : Covers(s[i], h.off)
    BY Zenon, <2>2, <2>3, CoverFacts
  <2>5. /\ s[i].off \in Nat /\ s[i].len \in Nat /\ s[i].len >= 1
        /\ s[i] = [off |-> s[i].off, len |-> s[i].len]
    BY <1>1, HoleFacts
  <2>6. s[i].off = h.off
    <3>1. ASSUME s[i].off < h.off PROVE FALSE
      <4>1. h.off - 1 \in Nat /\ Covers(s[i], h.off - 1)
        BY <2>2, <2>4, <2>5, <3>1 DEF Covers
      <4>2. h.off - 1 \in Cover(s)
        BY Zenon, <4>1, CoverFacts
      <4> QED BY <2>1, <2>2, <2>5, <3>1, <4>2
    <3> QED BY <2>2, <2>4, <2>5, <3>1 DEF Covers
  <2>7. ~(h.len < s[i].len)
    <3>1. ASSUME h.len < s[i].len PROVE FALSE
      <4>1. h.off + h.len \in Nat /\ Covers(s[i], h.off + h.len)
        BY <2>2, <2>5, <2>6, <3>1 DEF Covers
      <4> QED BY Zenon, <4>1, <2>1, CoverFacts
    <3> QED BY Zenon, <3>1
  <2>8. ~(s[i].len < h.len)
    <3>1. SUFFICES ASSUME s[i].len < h.len PROVE FALSE
      BY Zenon
    <3>2. s[i].off + s[i].len \in Nat /\ s[i].off + s[i].len \in Bytes(h.off, h.len)
      BY <2>2, <2>5, <2>6, <3>1 DEF Bytes
    <3>3. PICK j \in DOMAIN s : Covers(s[j], s[i].off + s[i].len)
      BY Zenon, <2>1, <3>2, CoverFacts
    <3> QED BY Zenon, <1>1, <3>3, GapFacts, SelfFacts DEF Spaced
  <2>9. s[i].len = h.len
    BY <2>2, <2>5, <2>7, <2>8
  <2> QED BY Zenon, <2>2, <2>5, <2>6, <2>9
<1>5. \A h : h \in Range(s) <=> \E i \in DOMAIN s : h = s[i]
  BY Zenon DEF Range
<1> QED BY Zenon, <1>2, <1>3, <1>4, <1>5
LEMMA AlignUpFacts == \A x \in Nat : AlignUp(x) \in Nat /\ AlignUp(x) >= x
<1> SUFFICES ASSUME NEW x \in Nat PROVE AlignUp(x) \in Nat /\ AlignUp(x) >= x
  OBVIOUS
<1>1. x % Align \in 0 .. Align - 1
  BY ArenaAssumption
<1>2. Align - (x % Align) \in Nat
  BY <1>1, ArenaAssumption
<1>3. (Align - (x % Align)) % Align \in Nat
  BY <1>2, ArenaAssumption
<1> QED
  BY <1>3 DEF AlignUp

\* alloc takes bytes that were free or above the bump pointer.

\* What the search finds: an entry that fits, and none wastes less.
LEMMA BestFacts ==
    ASSUME free_list \in Seq(Hole), NEW len \in Nat, Candidates(len) /= {}
    PROVE  /\ Best(len) \in Candidates(len)
           /\ \A j \in Candidates(len) :
                 Waste(free_list[Best(len)], len) <= Waste(free_list[j], len)
<1> DEFINE C == Candidates(len)
           w(i) == Waste(free_list[i], len)
           W == { w(i) : i \in C }
<1>1. \A i \in C : i \in Nat /\ w(i) \in Nat
  <2>1. SUFFICES ASSUME NEW i \in C PROVE i \in Nat /\ w(i) \in Nat
    BY Zenon
  <2>2. i \in DOMAIN free_list /\ Slack(free_list[i]) + len <= free_list[i].len
    BY DEF Candidates
  <2>3. free_list[i] \in Hole /\ i \in Nat
    BY <2>2
  <2>4. free_list[i].off \in Nat /\ free_list[i].len \in Nat
    BY Zenon, <2>3, HoleFacts
  <2>5. AlignUp(free_list[i].off) \in Nat /\ AlignUp(free_list[i].off) >= free_list[i].off
    BY Zenon, <2>4, AlignUpFacts
  <2> QED BY <2>2, <2>3, <2>4, <2>5 DEF Slack, Waste
<1>2. W \in SUBSET Nat /\ W /= {}
  BY Zenon, <1>1
<1>3. PICK m \in W : \A n \in W : m <= n
  BY Zenon, <1>2, LeastNat
<1> DEFINE I == { i \in C : w(i) = m }
<1>4. I \in SUBSET Nat /\ I /= {}
  BY Zenon, <1>1, <1>3
<1>5. PICK i \in I : \A j \in I : i <= j
  BY Zenon, <1>4, LeastNat
<1>6. \A j \in C : w(i) < w(j) \/ (w(i) = w(j) /\ i <= j)
  <2>1. SUFFICES ASSUME NEW j \in C PROVE w(i) < w(j) \/ (w(i) = w(j) /\ i <= j)
    BY Zenon
  <2>2. m <= w(j) /\ w(i) = m /\ i \in C
    BY Zenon, <1>3, <1>5
  <2>3. m \in Nat /\ w(j) \in Nat
    BY Zenon, <1>1, <1>2, <2>1
  <2>4. w(j) = m => i <= j
    BY Zenon, <1>5
  <2> HIDE DEF w
  <2> QED BY <2>2, <2>3, <2>4
<1>7. /\ Best(len) \in C
      /\ \A j \in C : w(Best(len)) < w(j) \/ (w(Best(len)) = w(j) /\ Best(len) <= j)
  BY Zenon, <1>5, <1>6 DEF Best
<1>8. ASSUME NEW j \in C PROVE w(Best(len)) <= w(j)
  <2>1. w(Best(len)) \in Nat /\ w(j) \in Nat
    BY Zenon, <1>1, <1>7
  <2>2. w(Best(len)) < w(j) \/ w(Best(len)) = w(j)
    BY Zenon, <1>7
  <2> HIDE DEF w
  <2> QED BY <2>1, <2>2
<1> QED BY Zenon, <1>7, <1>8

\* Replacing entry i by a part of it keeps the entries apart.
LEMMA ShrinkFacts ==
    ASSUME NEW g \in Hole, NEW h \in Hole, NEW k \in Hole, Gap(g, h) \/ Gap(h, g),
           g.off <= k.off, k.off + k.len <= g.off + g.len
    PROVE  Gap(k, h) \/ Gap(h, k)
<1>1. g.off \in Nat /\ g.len \in Nat /\ g.len >= 1
  BY HoleFacts
<1>2. h.off \in Nat /\ h.len \in Nat /\ h.len >= 1
  BY HoleFacts
<1>3. k.off \in Nat /\ k.len \in Nat /\ k.len >= 1
  BY HoleFacts
<1> QED BY <1>1, <1>2, <1>3 DEF Gap

\* Entries that share no byte cover no byte together.
LEMMA ClearFacts ==
    ASSUME NEW g \in Hole, NEW h \in Hole, Clear(g, h) \/ Clear(h, g), NEW b \in Nat
    PROVE  ~(Covers(g, b) /\ Covers(h, b))
<1>1. g.off \in Nat /\ g.len \in Nat /\ g.len >= 1
  BY HoleFacts
<1>2. h.off \in Nat /\ h.len \in Nat /\ h.len >= 1
  BY HoleFacts
<1> QED BY <1>1, <1>2 DEF Clear, Covers

\* Entries with a gap between them share no byte.
LEMMA GapClear ==
    ASSUME NEW g \in Hole, NEW h \in Hole, Gap(g, h)
    PROVE  Clear(g, h)
<1>1. g.off \in Nat /\ g.len \in Nat /\ g.len >= 1
  BY HoleFacts
<1>2. h.off \in Nat /\ h.len \in Nat /\ h.len >= 1
  BY HoleFacts
<1> QED BY <1>1, <1>2 DEF Clear, Gap

\* A byte is covered by one entry of a list whose entries are apart.
LEMMA OneCover ==
    ASSUME NEW s \in Seq(Hole), Spaced(s), NEW i \in DOMAIN s, NEW j \in DOMAIN s, i /= j,
           NEW b \in Nat, Covers(s[j], b)
    PROVE  ~Covers(s[i], b)
<1>1. s[i] \in Hole /\ s[j] \in Hole
  OBVIOUS
<1>2. Gap(s[i], s[j]) \/ Gap(s[j], s[i])
  BY Zenon DEF Spaced
<1> QED BY Zenon, <1>1, <1>2, GapClear, ClearFacts

\* free_list[i] = a part of the entry.
LEMMA ReplaceEntry ==
    ASSUME NEW s \in Seq(Hole), Spaced(s), NEW i \in DOMAIN s, NEW k \in Hole,
           s[i].off <= k.off, k.off + k.len <= s[i].off + s[i].len,
           NEW t, t = [s EXCEPT ![i] = k]
    PROVE  /\ t \in Seq(Hole) /\ DOMAIN t = DOMAIN s /\ Spaced(t)
           /\ \A j \in DOMAIN t : t[j] = IF j = i THEN k ELSE s[j]
           /\ \A b \in Nat : b \in Cover(t) <=>
                Covers(k, b) \/ (b \in Cover(s) /\ ~Covers(s[i], b))
<1>1. \A j \in DOMAIN s : s[j] \in Hole
  OBVIOUS
<1>2. t \in Seq(Hole) /\ DOMAIN t = DOMAIN s
  OBVIOUS
<1>3. \A j \in DOMAIN t : t[j] = IF j = i THEN k ELSE s[j]
  BY Zenon, <1>2
<1>4. ASSUME NEW j \in DOMAIN t, NEW m \in DOMAIN t, j /= m
      PROVE  Gap(t[j], t[m]) \/ Gap(t[m], t[j])
  <2>1. Gap(s[j], s[m]) \/ Gap(s[m], s[j])
    BY Zenon, <1>2, <1>4 DEF Spaced
  <2> QED BY Zenon, <1>1, <1>2, <1>3, <1>4, <2>1, ShrinkFacts
<1>5. ASSUME NEW b \in Nat
      PROVE  b \in Cover(t) <=> Covers(k, b) \/ (b \in Cover(s) /\ ~Covers(s[i], b))
  <2>1. b \in Cover(t) <=> \E j \in DOMAIN s : Covers(t[j], b)
    BY Zenon, <1>2, CoverFacts
  <2>2. b \in Cover(s) <=> \E j \in DOMAIN s : Covers(s[j], b)
    BY Zenon, CoverFacts
  <2>3. \A j \in DOMAIN s : j /= i /\ Covers(s[j], b) => ~Covers(s[i], b)
    BY Zenon, OneCover
  <2> QED BY Zenon, <1>2, <1>3, <2>1, <2>2, <2>3
<1> QED BY Zenon, <1>2, <1>3, <1>4, <1>5 DEF Spaced

\* free_list.push of an entry apart from all.
LEMMA PushEntry ==
    ASSUME NEW s \in Seq(Hole), Spaced(s), NEW k \in Hole,
           \A i \in DOMAIN s : Gap(s[i], k) \/ Gap(k, s[i]),
           NEW t, t = Append(s, k)
    PROVE  /\ t \in Seq(Hole) /\ Spaced(t)
           /\ \A b \in Nat : b \in Cover(t) <=> b \in Cover(s) \/ Covers(k, b)
<1> DEFINE n == Len(s)
<1>1. n \in Nat /\ DOMAIN s = 1 .. n
  OBVIOUS
<1>2. t \in Seq(Hole) /\ DOMAIN t = 1 .. n + 1
  OBVIOUS
<1>3. \A j \in DOMAIN s : j \in DOMAIN t /\ t[j] = s[j] /\ j /= n + 1
  BY <1>1, <1>2
<1>4. n + 1 \in DOMAIN t /\ t[n + 1] = k
  BY <1>1, <1>2
<1>5. \A j \in DOMAIN t : j \in DOMAIN s \/ j = n + 1
  BY <1>1, <1>2
<1>6. ASSUME NEW j \in DOMAIN t, NEW m \in DOMAIN t, j /= m
      PROVE  Gap(t[j], t[m]) \/ Gap(t[m], t[j])
  BY Zenon, <1>3, <1>4, <1>5, <1>6 DEF Spaced
<1>7. ASSUME NEW b \in Nat
      PROVE  b \in Cover(t) <=> b \in Cover(s) \/ Covers(k, b)
  <2>1. b \in Cover(t) <=> \E j \in DOMAIN t : Covers(t[j], b)
    BY Zenon, <1>2, CoverFacts
  <2>2. b \in Cover(s) <=> \E j \in DOMAIN s : Covers(s[j], b)
    BY Zenon, CoverFacts
  <2> QED BY Zenon, <1>3, <1>4, <1>5, <2>1, <2>2
<1> QED BY Zenon, <1>2, <1>6, <1>7 DEF Spaced

\* free_list.swap_remove.
LEMMA DropEntry ==
    ASSUME NEW s \in Seq(Hole), Spaced(s), NEW i \in DOMAIN s,
           NEW t, t = SwapRemove(s, i)
    PROVE  /\ t \in Seq(Hole) /\ Spaced(t)
           /\ \A b \in Nat : b \in Cover(t) <=> b \in Cover(s) /\ ~Covers(s[i], b)
<1> DEFINE n == Len(s)
           at(j) == IF j = i THEN n ELSE j
<1>1. n \in Nat /\ n >= 1 /\ DOMAIN s = 1 .. n /\ i \in 1 .. n
  OBVIOUS
<1>2. /\ t \in Seq(Hole) /\ DOMAIN t = 1 .. n - 1
      /\ \A j \in 1 .. n - 1 : t[j] = s[at(j)]
  <2> DEFINE u == [s EXCEPT ![i] = s[n]]
  <2>1. u \in Seq(Hole) /\ Len(u) = n /\ \A j \in 1 .. n : u[j] = s[at(j)]
    BY <1>1
  <2>2. t = SubSeq(u, 1, n - 1)
    BY Zenon DEF SwapRemove
  <2> HIDE DEF u
  <2> QED BY <1>1, <2>1, <2>2
<1>3. \A j \in 1 .. n - 1 : at(j) \in DOMAIN s /\ at(j) /= i
  BY <1>1
<1>4. \A j, m \in 1 .. n - 1 : j /= m => at(j) /= at(m)
  BY <1>1
<1>5. \A m \in DOMAIN s : m /= i => \E j \in 1 .. n - 1 : at(j) = m
  <2>1. SUFFICES ASSUME NEW m \in 1 .. n, m /= i PROVE \E j \in 1 .. n - 1 : at(j) = m
    BY Zenon, <1>1
  <2>2. \A k \in 1 .. n : k /= n => k \in 1 .. n - 1
    <3> HIDE DEF n
    <3> QED BY ONLY <1>1
  <2>3. CASE m = n
    <3>1. i \in 1 .. n - 1
      BY Zenon, <1>1, <2>1, <2>2, <2>3
    <3> QED BY Zenon, <2>3, <3>1
  <2>4. CASE m /= n
    <3>1. m \in 1 .. n - 1
      BY Zenon, <2>2, <2>4
    <3> QED BY Zenon, <2>1, <3>1
  <2> QED BY Zenon, <2>3, <2>4
<1> HIDE DEF at
<1>6. ASSUME NEW j \in DOMAIN t, NEW m \in DOMAIN t, j /= m
      PROVE  Gap(t[j], t[m]) \/ Gap(t[m], t[j])
  BY Zenon, <1>2, <1>3, <1>4, <1>6 DEF Spaced
<1>7. ASSUME NEW b \in Nat
      PROVE  b \in Cover(t) <=> b \in Cover(s) /\ ~Covers(s[i], b)
  <2>1. b \in Cover(t) <=> \E j \in DOMAIN t : Covers(t[j], b)
    BY Zenon, <1>2, CoverFacts
  <2>2. b \in Cover(s) <=> \E j \in DOMAIN s : Covers(s[j], b)
    BY Zenon, CoverFacts
  <2>3. \A j \in DOMAIN s : j /= i /\ Covers(s[j], b) => ~Covers(s[i], b)
    BY Zenon, OneCover
  <2> QED BY Zenon, <1>2, <1>3, <1>5, <2>1, <2>2, <2>3
<1> QED BY Zenon, <1>2, <1>6, <1>7 DEF Spaced

\* The carving: the entries stay apart, and lose exactly the bytes allocated.
LEMMA CutFacts ==
    ASSUME free_list \in Seq(Hole), Spaced(free_list), NEW i \in DOMAIN free_list,
           NEW off \in Nat, NEW end \in Nat, free_list[i].off <= off, off < end,
           end <= free_list[i].off + free_list[i].len,
           NEW t, t = CutOut(i, off, end)
    PROVE  /\ t \in Seq(Hole) /\ Spaced(t)
           /\ \A b \in Nat : b \in Cover(t) <=> b \in Cover(free_list) /\ ~(off <= b /\ b < end)
<1> DEFINE s == free_list
           h == s[i]
           h_end == h.off + h.len
           before == Entry(h.off, off - h.off)
           after == Entry(end, h_end - end)
<1>1. h \in Hole /\ h.off \in Nat /\ h.len \in Nat /\ h.len >= 1 /\ h_end <= ARENA_SIZE
  BY HoleFacts
<1>2. \A b \in Nat : Covers(h, b) => b \in Cover(s)
  BY Zenon, CoverFacts
<1>3. off /= h.off => /\ before \in Hole /\ before.off = h.off /\ before.len = off - h.off
                      /\ before.off + before.len = off
  <2>1. ASSUME off /= h.off
        PROVE  h.off \in Nat /\ off - h.off \in Nat /\ off - h.off >= 1 /\ h.off + (off - h.off) <= ARENA_SIZE
               /\ h.off + (off - h.off) = off
    BY <1>1, <2>1, ArenaAssumption
  <2> HIDE DEF h
  <2> QED BY <2>1, MakeHole
<1>4. end /= h_end => /\ after \in Hole /\ after.off = end /\ after.len = h_end - end
                      /\ after.off + after.len = h_end
  <2>1. ASSUME end /= h_end
        PROVE  h_end - end \in Nat /\ h_end - end >= 1 /\ end + (h_end - end) <= ARENA_SIZE
               /\ end + (h_end - end) = h_end
    <3>1. h_end \in Nat /\ end <= h_end
      BY <1>1
    <3> HIDE DEF h_end
    <3> QED BY ONLY <1>1, <2>1, <3>1, ArenaAssumption, end \in Nat
  <2> HIDE DEF h, h_end
  <2> QED BY <2>1, MakeHole
<1>5. t = CASE off = h.off /\ end = h_end -> SwapRemove(s, i)
            [] off = h.off /\ end /= h_end -> [s EXCEPT ![i] = after]
            [] off /= h.off /\ end = h_end -> [s EXCEPT ![i] = before]
            [] OTHER -> Append([s EXCEPT ![i] = before], after)
  BY Zenon DEF CutOut
<1>6. s \in Seq(Hole) /\ Spaced(s) /\ i \in DOMAIN s
  BY Zenon
<1>7. h.off <= off /\ off < end /\ end <= h_end
  BY Zenon
<1>8. h = s[i]
  BY Zenon
<1> HIDE DEF s, h, h_end, before, after
<1>9. CASE off = h.off /\ end = h_end
  <2>1. t = SwapRemove(s, i)
    BY <1>5, <1>9
  <2>2. /\ t \in Seq(Hole) /\ Spaced(t)
        /\ \A b \in Nat : b \in Cover(t) <=> b \in Cover(s) /\ ~Covers(h, b)
    BY Zenon, <1>6, <1>8, <2>1, DropEntry
  <2>3. \A b \in Nat : Covers(h, b) <=> off <= b /\ b < end
    BY Zenon, <1>9 DEF Covers, h_end
  <2> QED BY Zenon, <2>2, <2>3 DEF s
<1>10. CASE off = h.off /\ end /= h_end
  <2>1. t = [s EXCEPT ![i] = after]
    BY <1>5, <1>10
  <2>2. after \in Hole /\ s[i].off <= after.off /\ after.off + after.len <= s[i].off + s[i].len
    BY <1>1, <1>8, <1>4, <1>7, <1>10 DEF h_end
  <2>3. /\ t \in Seq(Hole) /\ Spaced(t)
        /\ \A b \in Nat : b \in Cover(t) <=> Covers(after, b) \/ (b \in Cover(s) /\ ~Covers(h, b))
    <3> DEFINE u == [s EXCEPT ![i] = after]
    <3>1. /\ u \in Seq(Hole) /\ Spaced(u)
          /\ \A b \in Nat : b \in Cover(u) <=> Covers(after, b) \/ (b \in Cover(s) /\ ~Covers(s[i], b))
      BY Zenon, <1>6, <2>2, ReplaceEntry
    <3> HIDE DEF u
    <3>2. t = u
      BY Zenon, <2>1 DEF u
    <3> QED BY Zenon, <1>8, <3>1, <3>2
  <2>4. \A b \in Nat : Covers(h, b) <=> Covers(after, b) \/ (off <= b /\ b < end)
    BY <1>1, <1>4, <1>7, <1>10 DEF Covers, h_end
  <2>5. \A b \in Nat : Covers(after, b) => ~(off <= b /\ b < end)
    BY <1>4, <1>10 DEF Covers
  <2> QED BY Zenon, <1>2, <2>3, <2>4, <2>5 DEF s
<1>11. CASE off /= h.off /\ end = h_end
  <2>1. t = [s EXCEPT ![i] = before]
    BY <1>5, <1>11
  <2>2. before \in Hole /\ s[i].off <= before.off /\ before.off + before.len <= s[i].off + s[i].len
    BY <1>1, <1>8, <1>3, <1>7, <1>11 DEF h_end
  <2>3. /\ t \in Seq(Hole) /\ Spaced(t)
        /\ \A b \in Nat : b \in Cover(t) <=> Covers(before, b) \/ (b \in Cover(s) /\ ~Covers(h, b))
    <3> DEFINE u == [s EXCEPT ![i] = before]
    <3>1. /\ u \in Seq(Hole) /\ Spaced(u)
          /\ \A b \in Nat : b \in Cover(u) <=> Covers(before, b) \/ (b \in Cover(s) /\ ~Covers(s[i], b))
      BY Zenon, <1>6, <2>2, ReplaceEntry
    <3> HIDE DEF u
    <3>2. t = u
      BY Zenon, <2>1 DEF u
    <3> QED BY Zenon, <1>8, <3>1, <3>2
  <2>4. \A b \in Nat : Covers(h, b) <=> Covers(before, b) \/ (off <= b /\ b < end)
    BY <1>1, <1>3, <1>7, <1>11 DEF Covers, h_end
  <2>5. \A b \in Nat : Covers(before, b) => ~(off <= b /\ b < end)
    BY <1>3, <1>11 DEF Covers
  <2> QED BY Zenon, <1>2, <2>3, <2>4, <2>5 DEF s
<1>12. CASE off /= h.off /\ end /= h_end
  <2> DEFINE u == [s EXCEPT ![i] = before]
  <2>1. t = Append(u, after)
    BY <1>5, <1>12
  <2>2. /\ before \in Hole /\ h.off <= before.off /\ before.off + before.len <= h.off + h.len
        /\ after \in Hole /\ h.off <= after.off /\ after.off + after.len <= h.off + h.len
    BY <1>1, <1>3, <1>4, <1>7, <1>12 DEF h_end
  <2>3. /\ u \in Seq(Hole) /\ Spaced(u) /\ DOMAIN u = DOMAIN s
        /\ \A j \in DOMAIN u : u[j] = IF j = i THEN before ELSE s[j]
        /\ \A b \in Nat : b \in Cover(u) <=> Covers(before, b) \/ (b \in Cover(s) /\ ~Covers(h, b))
    BY Zenon, <1>6, <1>8, <2>2, ReplaceEntry
  <2> HIDE DEF u
  <2>4. Gap(before, after)
    BY <1>3, <1>4, <1>7, <1>12 DEF Gap
  <2>5. ASSUME NEW j \in DOMAIN u PROVE Gap(u[j], after) \/ Gap(after, u[j])
    <3>1. CASE j = i
      BY Zenon, <2>3, <2>4, <3>1
    <3>2. CASE j /= i
      <4>1. u[j] = s[j] /\ s[j] \in Hole
        BY <1>6, <2>3, <3>2
      <4>2. Gap(h, s[j]) \/ Gap(s[j], h)
        BY Zenon, <1>6, <1>8, <2>3, <3>2 DEF Spaced
      <4> QED BY Zenon, <1>1, <2>2, <4>1, <4>2, ShrinkFacts
    <3> QED BY Zenon, <3>1, <3>2
  <2>6. /\ t \in Seq(Hole) /\ Spaced(t)
        /\ \A b \in Nat : b \in Cover(t) <=> b \in Cover(u) \/ Covers(after, b)
    BY Zenon, <2>1, <2>2, <2>3, <2>5, PushEntry
  <2>7. \A b \in Nat : Covers(h, b) <=> Covers(before, b) \/ Covers(after, b) \/ (off <= b /\ b < end)
    BY <1>1, <1>3, <1>4, <1>7, <1>12 DEF Covers, h_end
  <2>8. \A b \in Nat : Covers(before, b) \/ Covers(after, b) => ~(off <= b /\ b < end)
    BY <1>3, <1>4, <1>7, <1>12 DEF Covers
  <2> QED BY Zenon, <1>2, <2>3, <2>6, <2>7, <2>8 DEF s
<1> QED BY Zenon, <1>9, <1>10, <1>11, <1>12

\* The order of the sort: by offset, then by position.
Lex(s, a, b) ==
    \/ s[a].off < s[b].off
    \/ s[a].off = s[b].off /\ a < b

\* p sorts the first n entries of s.
Sorting(s, n, p) ==
    /\ p \in [1 .. n -> 1 .. n]
    /\ \A i, j \in 1 .. n : i < j => Lex(s, p[i], p[j])
    /\ \A m \in 1 .. n : \E i \in 1 .. n : p[i] = m

\* Inserting one more entry behind those with no greater offset.
LEMMA SortInsert ==
    ASSUME NEW s \in Seq(Hole), NEW n \in Nat, n + 1 <= Len(s), NEW p, Sorting(s, n, p)
    PROVE  \E q : Sorting(s, n + 1, q)
<1> DEFINE x == s[n + 1].off
           K == { i \in 1 .. n + 1 : i = n + 1 \/ x < s[p[i]].off }
<1>1. \A a \in 1 .. n + 1 : s[a] \in Hole /\ s[a].off \in Nat
  <2>1. SUFFICES ASSUME NEW a \in 1 .. n + 1 PROVE s[a] \in Hole /\ s[a].off \in Nat
    BY Zenon
  <2>2. s[a] \in Hole
    OBVIOUS
  <2> QED BY Zenon, <2>2, HoleFacts
<1>2. /\ p \in [1 .. n -> 1 .. n]
      /\ \A i, j \in 1 .. n : i < j => Lex(s, p[i], p[j])
      /\ \A m \in 1 .. n : \E i \in 1 .. n : p[i] = m
  BY Zenon DEF Sorting
<1>3. x \in Nat
  BY <1>1
<1>4. \A i \in 1 .. n : s[p[i]].off \in Nat /\ p[i] \in 1 .. n
  <2>1. \A a \in 1 .. n : a \in 1 .. n + 1
    OBVIOUS
  <2>2. \A i \in 1 .. n : p[i] \in 1 .. n
    BY Zenon, <1>2
  <2> QED BY Zenon, <1>1, <2>1, <2>2
<1>num. /\ \A a, b \in Nat : ~(a < b) => b < a \/ b = a
        /\ \A a, b, c \in Nat : a < b /\ (b < c \/ b = c) => a < c
  OBVIOUS
<1>5. PICK k \in K : \A i \in K : k <= i
  <2>1. K \in SUBSET Nat /\ K /= {}
    <3>1. n + 1 \in 1 .. n + 1 /\ 1 .. n + 1 \subseteq Nat
      OBVIOUS
    <3> QED BY Zenon, <3>1
  <2> QED BY Zenon, <2>1, LeastNat
<1>6. k \in 1 .. n + 1
  BY Zenon
<1>7. \A i \in 1 .. n : i < k => Lex(s, p[i], n + 1)
  <2>1. SUFFICES ASSUME NEW i \in 1 .. n, i < k PROVE Lex(s, p[i], n + 1)
    BY Zenon
  <2>2. i \notin K
    BY <1>5, <1>6, <2>1
  <2>3. ~(x < s[p[i]].off)
    BY <2>2
  <2>5. s[p[i]].off < x \/ s[p[i]].off = x
    BY Zenon, <1>3, <1>4, <1>num, <2>3
  <2>6. p[i] < n + 1
    BY <1>4
  <2> QED BY Zenon, <2>5, <2>6 DEF Lex
<1>8. \A i \in 1 .. n : k <= i => Lex(s, n + 1, p[i])
  <2>1. SUFFICES ASSUME NEW i \in 1 .. n, k <= i PROVE Lex(s, n + 1, p[i])
    BY Zenon
  <2>2. k \in 1 .. n /\ k /= n + 1
    BY <1>6, <2>1
  <2>3. x < s[p[k]].off
    BY Zenon, <2>2
  <2>4. CASE i = k
    BY Zenon, <2>3, <2>4 DEF Lex
  <2>5. CASE i /= k
    <3>1. k < i
      BY <2>1, <2>2, <2>5
    <3>2. Lex(s, p[k], p[i])
      BY Zenon, <1>2, <2>2, <3>1
    <3>3. s[p[k]].off < s[p[i]].off \/ s[p[k]].off = s[p[i]].off
      BY Zenon, <3>2 DEF Lex
    <3>4. x < s[p[i]].off
      <4>1. s[p[k]].off \in Nat /\ s[p[i]].off \in Nat
        BY Zenon, <1>4, <2>2
      <4> QED BY ONLY <1>3, <2>3, <3>3, <4>1
    <3> QED BY Zenon, <3>4 DEF Lex
  <2> QED BY Zenon, <2>4, <2>5
<1> HIDE DEF K, x
<1> DEFINE q == [i \in 1 .. n + 1 |-> IF i < k THEN p[i] ELSE IF i = k THEN n + 1 ELSE p[i - 1]]
<1>9. /\ \A i \in 1 .. n + 1 : i < k => i \in 1 .. n /\ q[i] = p[i]
      /\ \A i \in 1 .. n + 1 : k < i => i - 1 \in 1 .. n /\ q[i] = p[i - 1]
      /\ q[k] = n + 1
  BY <1>6
<1>10. q \in [1 .. n + 1 -> 1 .. n + 1]
  BY <1>4, <1>6
<1> HIDE DEF q
<1>11. ASSUME NEW i \in 1 .. n + 1, NEW j \in 1 .. n + 1, i < j PROVE Lex(s, q[i], q[j])
  <2>1. CASE j < k
    <3>1. i < k
      BY <1>6, <1>11, <2>1
    <3> QED BY Zenon, <1>2, <1>9, <1>11, <2>1, <3>1
  <2>2. CASE j = k
    <3>1. i < k
      BY <1>6, <1>11, <2>2
    <3> QED BY Zenon, <1>7, <1>9, <2>2, <3>1
  <2>3. CASE k < j /\ i < k
    <3>1. i < j - 1
      BY <1>6, <2>3
    <3> QED BY Zenon, <1>2, <1>9, <2>3, <3>1
  <2>4. CASE k < j /\ i = k
    <3>1. k <= j - 1
      BY <1>6, <2>4
    <3> QED BY Zenon, <1>8, <1>9, <2>4, <3>1
  <2>5. CASE k < j /\ k < i
    <3>1. i - 1 < j - 1
      BY <1>11
    <3> QED BY Zenon, <1>2, <1>9, <2>5, <3>1
  <2> QED BY <1>6, <2>1, <2>2, <2>3, <2>4, <2>5
<1>12. ASSUME NEW m \in 1 .. n + 1 PROVE \E i \in 1 .. n + 1 : q[i] = m
  <2>1. CASE m = n + 1
    BY Zenon, <1>6, <1>9, <2>1
  <2>2. CASE m \in 1 .. n
    <3>1. PICK i \in 1 .. n : p[i] = m
      BY Zenon, <1>2, <2>2
    <3>2. CASE i < k
      <4>1. i \in 1 .. n + 1
        OBVIOUS
      <4> QED BY Zenon, <1>9, <3>1, <3>2, <4>1
    <3>3. CASE ~(i < k)
      <4>1. i + 1 \in 1 .. n + 1 /\ k < i + 1 /\ (i + 1) - 1 = i
        BY <1>6, <3>3
      <4> QED BY Zenon, <1>9, <3>1, <4>1
    <3> QED BY Zenon, <3>2, <3>3
  <2> QED BY <2>1, <2>2
<1>13. Sorting(s, n + 1, q)
  BY Zenon, <1>10, <1>11, <1>12 DEF Sorting
<1> QED BY Zenon, <1>13

\* Every list can be sorted.
LEMMA SortExists ==
    ASSUME NEW s \in Seq(Hole)
    PROVE  \E p : Sorting(s, Len(s), p)
<1> DEFINE S == { n \in Nat : n <= Len(s) => \E p : Sorting(s, n, p) }
<1>1. 0 \in S
  <2>1. Sorting(s, 0, <<>>)
    BY DEF Sorting
  <2> QED BY Zenon, <2>1
<1>2. \A n \in S : n + 1 \in S
  <2>1. SUFFICES ASSUME NEW n \in Nat, n \in S, n + 1 <= Len(s)
                 PROVE  \E p : Sorting(s, n + 1, p)
    OBVIOUS
  <2>2. n <= Len(s)
    BY <2>1
  <2> QED BY Zenon, <2>1, <2>2, SortInsert
<1>3. S = Nat
  BY Zenon, <1>1, <1>2, SetInduction
<1>4. Len(s) \in Nat /\ Len(s) <= Len(s)
  OBVIOUS
<1> QED BY Zenon, <1>3, <1>4

\* What the sort makes of entries that share no byte: the same entries, each
\* one ending before the next begins.
LEMMA SortedFacts ==
    ASSUME NEW s \in Seq(Hole), Disjoint(s), NEW t, t = Sorted(s)
    PROVE  /\ t \in Seq(Hole) /\ Len(t) = Len(s)
           /\ \A i, j \in 1 .. Len(t) : i < j => Clear(t[i], t[j])
           /\ Cover(t) = Cover(s)
<1> DEFINE n == Len(s)
           ok(p) == InOrder(s, p) /\ Range(p) = DOMAIN s
           c == CHOOSE p \in [DOMAIN s -> DOMAIN s] : ok(p)
<1>1. n \in Nat /\ DOMAIN s = 1 .. n
  OBVIOUS
<1>2. PICK r : Sorting(s, n, r)
  BY Zenon, SortExists
<1>3. r \in [DOMAIN s -> DOMAIN s] /\ ok(r)
  <2>1. r \in [DOMAIN s -> DOMAIN s]
    BY Zenon, <1>1, <1>2 DEF Sorting
  <2>2. InOrder(s, r)
    BY Zenon, <1>1, <1>2 DEF Sorting, Lex, InOrder
  <2>3. Range(r) = DOMAIN s
    BY Zenon, <1>1, <1>2, <2>1 DEF Sorting, Range
  <2> QED BY Zenon, <2>1, <2>2, <2>3
<1>4. c \in [DOMAIN s -> DOMAIN s] /\ ok(c)
  BY Zenon, <1>3
<1>5. t = [i \in DOMAIN s |-> s[c[i]]]
  BY Zenon DEF Sorted
<1> HIDE DEF c
<1>6. t \in Seq(Hole) /\ Len(t) = n /\ DOMAIN t = 1 .. n
  BY <1>1, <1>4, <1>5
<1>7. \A i \in 1 .. n : c[i] \in 1 .. n /\ t[i] = s[c[i]]
  BY Zenon, <1>1, <1>4, <1>5
<1>8. ASSUME NEW i \in 1 .. n, NEW j \in 1 .. n, i < j PROVE Clear(t[i], t[j])
  <2>1. s[c[i]].off < s[c[j]].off \/ (s[c[i]].off = s[c[j]].off /\ c[i] < c[j])
    BY Zenon, <1>1, <1>4, <1>8 DEF InOrder
  <2>2. s[c[i]] \in Hole /\ s[c[j]] \in Hole /\ c[i] \in Nat /\ c[j] \in Nat
    BY <1>1, <1>7
  <2>3. /\ s[c[i]].off \in Nat /\ s[c[i]].len \in Nat /\ s[c[i]].len >= 1
        /\ s[c[j]].off \in Nat /\ s[c[j]].len \in Nat /\ s[c[j]].len >= 1
    BY Zenon, <2>2, HoleFacts
  <2>4. c[i] /= c[j]
    BY ONLY <2>1, <2>2, <2>3
  <2>5. Clear(s[c[i]], s[c[j]]) \/ Clear(s[c[j]], s[c[i]])
    BY Zenon, <1>1, <1>7, <2>4 DEF Disjoint
  <2>6. Clear(s[c[i]], s[c[j]])
    BY ONLY <2>1, <2>3, <2>5 DEF Clear
  <2> QED BY Zenon, <1>7, <2>6
<1>9. Cover(t) = Cover(s)
  <2>1. \A b : b \in Cover(t) <=> \E i \in 1 .. n : b \in EntryOf(t[i])
    BY Zenon, <1>6 DEF Cover
  <2>2. \A b : b \in Cover(s) <=> \E i \in 1 .. n : b \in EntryOf(s[i])
    BY Zenon, <1>1 DEF Cover
  <2>3. \A m \in 1 .. n : \E i \in 1 .. n : c[i] = m
    BY Zenon, <1>1, <1>4 DEF Range
  <2>4. \A b : b \in Cover(t) => b \in Cover(s)
    BY Zenon, <1>7, <2>1, <2>2
  <2>5. \A b : b \in Cover(s) => b \in Cover(t)
    <3>1. SUFFICES ASSUME NEW b, b \in Cover(s) PROVE b \in Cover(t)
      BY Zenon
    <3>2. PICK m \in 1 .. n : b \in EntryOf(s[m])
      BY Zenon, <2>2, <3>1
    <3>3. PICK i \in 1 .. n : c[i] = m
      BY Zenon, <2>3
    <3>4. b \in EntryOf(t[i])
      BY Zenon, <1>7, <3>2, <3>3
    <3> QED BY Zenon, <2>1, <3>4
  <2> QED BY Zenon, <2>4, <2>5
<1> QED BY Zenon, <1>6, <1>8, <1>9

\* The equation that Merged's recursive function solves.
Merging(s, m, f) ==
    f = [n \in 0 .. m |-> IF n = 0 THEN <<>> ELSE Merge(f[n - 1], s[n])]

\* It has a solution.
LEMMA MergingExists ==
    ASSUME NEW s, NEW m \in Nat
    PROVE  \E f : Merging(s, m, f)
<1> DEFINE S == { k \in Nat : \E f : Merging(s, k, f) }
<1>1. 0 \in S
  <2>1. Merging(s, 0, [n \in 0 .. 0 |-> <<>>])
    BY DEF Merging
  <2> QED BY Zenon, <2>1
<1>2. ASSUME NEW k \in S PROVE k + 1 \in S
  <2>1. PICK f : Merging(s, k, f)
    BY Zenon
  <2> DEFINE step(h, n) == IF n = 0 THEN <<>> ELSE Merge(h[n - 1], s[n])
             g == [n \in 0 .. k + 1 |-> IF n = k + 1 THEN Merge(f[k], s[k + 1]) ELSE f[n]]
  <2>2. k \in Nat /\ k + 1 \in Nat
    OBVIOUS
  <2>3. \A n \in 0 .. k : g[n] = f[n] /\ f[n] = step(f, n)
    <3>1. \A n \in 0 .. k : n \in 0 .. k + 1 /\ n /= k + 1
      BY <2>2
    <3> QED BY Zenon, <2>1, <3>1 DEF Merging
  <2>4. g[k + 1] = Merge(f[k], s[k + 1])
    <3>1. k + 1 \in 0 .. k + 1
      BY <2>2
    <3> QED BY Zenon, <3>1
  <2>5. ASSUME NEW n \in 0 .. k + 1 PROVE g[n] = step(g, n)
    <3>1. CASE n = 0
      <4>1. n \in 0 .. k
        BY <2>2, <3>1
      <4> QED BY Zenon, <2>3, <3>1, <4>1
    <3>2. CASE n = k + 1
      <4>1. (k + 1) - 1 = k /\ k \in 0 .. k /\ k + 1 /= 0
        BY <2>2
      <4> QED BY Zenon, <2>3, <2>4, <3>2, <4>1
    <3>3. CASE n /= 0 /\ n /= k + 1
      <4>1. n \in 0 .. k /\ n - 1 \in 0 .. k
        BY <2>2, <3>3
      <4> QED BY Zenon, <2>3, <3>3, <4>1
    <3> QED BY Zenon, <3>1, <3>2, <3>3
  <2> HIDE DEF step
  <2>6. g = [n \in 0 .. k + 1 |-> step(g, n)]
    <3>1. g = [n \in 0 .. k + 1 |-> g[n]]
      BY Zenon
    <3> HIDE DEF g
    <3> QED BY Zenon, <2>5, <3>1
  <2>7. Merging(s, k + 1, g)
    BY Zenon, <2>6 DEF Merging, step
  <2> QED BY Zenon, <2>2, <2>7
<1>3. S = Nat
  BY Zenon, <1>1, <1>2, SetInduction
<1> QED BY Zenon, <1>3

\* Merged is the last value of a solution.
LEMMA MergedEquation ==
    ASSUME NEW s \in Seq(Hole)
    PROVE  \E f : Merging(s, Len(s), f) /\ Merged(s) = f[Len(s)]
<1>1. Merged(s) = (CHOOSE f : Merging(s, Len(s), f))[Len(s)]
  BY Zenon DEF Merged, Merging
<1>2. Len(s) \in Nat
  OBVIOUS
<1> QED BY Zenon, <1>1, <1>2, MergingExists

\* What the loop has made of the first n entries of t: runs of them with gaps
\* between, the last ending where the n-th entry ends.
Runs(t, n, acc) ==
    /\ acc \in Seq(Hole)
    /\ \A i, j \in 1 .. Len(acc) : i < j => Gap(acc[i], acc[j])
    /\ n = 0 => acc = <<>>
    /\ n > 0 => /\ acc /= <<>>
                /\ acc[Len(acc)].off + acc[Len(acc)].len = t[n].off + t[n].len
    /\ \A b \in Nat : (\E i \in 1 .. Len(acc) : Covers(acc[i], b))
                        <=> \E i \in 1 .. n : Covers(t[i], b)

\* Gaps from entry to entry in order.
LEMMA GapTransitive ==
    ASSUME NEW g \in Hole, NEW h \in Hole, NEW k \in Hole, Gap(g, h), Gap(h, k)
    PROVE  Gap(g, k)
<1>1. g.off \in Nat /\ g.len \in Nat
  BY HoleFacts
<1>2. h.off \in Nat /\ h.len \in Nat
  BY HoleFacts
<1>3. k.off \in Nat /\ k.len \in Nat
  BY HoleFacts
<1> QED BY <1>1, <1>2, <1>3 DEF Gap

\* One step of the loop.
LEMMA MergeStep ==
    ASSUME NEW t \in Seq(Hole), \A i, j \in 1 .. Len(t) : i < j => Clear(t[i], t[j]),
           NEW n \in Nat, n + 1 <= Len(t), NEW acc, Runs(t, n, acc)
    PROVE  Runs(t, n + 1, Merge(acc, t[n + 1]))
<1> DEFINE h == t[n + 1]
           L == Len(acc)
           new == Merge(acc, h)
<1>1. h \in Hole /\ h.off \in Nat /\ h.len \in Nat /\ h.len >= 1 /\ h.off + h.len <= ARENA_SIZE
  <2>1. h \in Hole
    OBVIOUS
  <2> HIDE DEF h
  <2> QED BY Zenon, <2>1, HoleFacts
<1>2. /\ acc \in Seq(Hole)
      /\ \A i, j \in 1 .. L : i < j => Gap(acc[i], acc[j])
      /\ \A b \in Nat : (\E i \in 1 .. L : Covers(acc[i], b)) <=> \E i \in 1 .. n : Covers(t[i], b)
  BY Zenon DEF Runs
<1>3. L \in Nat /\ DOMAIN acc = 1 .. L /\ \A i \in 1 .. L : acc[i] \in Hole
  BY <1>2
<1>4. \A b \in Nat : (\E i \in 1 .. n + 1 : Covers(t[i], b))
                       <=> (\E i \in 1 .. n : Covers(t[i], b)) \/ Covers(h, b)
  <2>1. \A i : i \in 1 .. n + 1 <=> i \in 1 .. n \/ i = n + 1
    OBVIOUS
  <2> QED BY Zenon, <2>1
<1>5. new = IF acc /= <<>> /\ acc[L].off + acc[L].len = h.off
              THEN [acc EXCEPT ![L] = Entry(acc[L].off, acc[L].len + h.len)]
              ELSE Append(acc, h)
  BY Zenon DEF Merge
<1>6. n + 1 > 0 /\ n + 1 /= 0
  OBVIOUS
<1>7. acc /= <<>> => L >= 1 /\ L \in 1 .. L
  BY <1>2
<1> HIDE DEF L
<1>8. /\ \A i, j \in 1 .. L : i < j => i /= L
      /\ \A i \in 1 .. L : i = L \/ i < L
      /\ \A i, j \in 1 .. L + 1 : i < j => i \in 1 .. L
  BY ONLY <1>3
<1> USE DEF L
<1> HIDE DEF new, h
<1>9. CASE acc /= <<>> /\ acc[L].off + acc[L].len = h.off
  <2> DEFINE k == Entry(acc[L].off, acc[L].len + h.len)
  <2>1. L \in 1 .. L /\ L >= 1
    BY Zenon, <1>7, <1>9
  <2>2. acc[L] \in Hole /\ acc[L].off \in Nat /\ acc[L].len \in Nat /\ acc[L].len >= 1
    BY Zenon, <1>3, <2>1, HoleFacts
  <2>3. acc[L].len + h.len \in Nat /\ acc[L].len + h.len >= 1
        /\ acc[L].off + (acc[L].len + h.len) = h.off + h.len
        /\ acc[L].off + (acc[L].len + h.len) <= ARENA_SIZE
    BY ONLY <1>1, <1>9, <2>2
  <2>4. k \in Hole /\ k.off = acc[L].off /\ k.len = acc[L].len + h.len
    <3>1. \A off, len \in Nat : len >= 1 /\ off + len <= ARENA_SIZE =>
            Entry(off, len) \in Hole /\ Entry(off, len).off = off /\ Entry(off, len).len = len
      BY Zenon, MakeHole
    <3> QED BY ZenonT(30), <2>2, <2>3, <3>1
  <2> HIDE DEF k
  <2>5. new = [acc EXCEPT ![L] = k]
    BY Zenon, <1>5, <1>9 DEF k
  <2>6. new \in Seq(Hole) /\ Len(new) = L
    BY <1>2, <1>3, <2>1, <2>4, <2>5
  <2>7. \A i \in 1 .. L : new[i] = IF i = L THEN k ELSE acc[i]
    BY Zenon, <1>3, <2>5
  <2>8. new /= <<>> /\ new[L].off + new[L].len = h.off + h.len
    <3>1. new /= <<>>
      BY <2>1, <2>6
    <3>2. new[L] = k
      BY Zenon, <2>1, <2>7
    <3> QED BY Zenon, <2>3, <2>4, <3>1, <3>2
  <2>9. ASSUME NEW i \in 1 .. L, NEW j \in 1 .. L, i < j PROVE Gap(new[i], new[j])
    <3>1. i /= L
      BY Zenon, <1>8, <2>9
    <3>2. new[i] = acc[i] /\ new[j].off = acc[j].off
      BY Zenon, <2>4, <2>7, <3>1
    <3>3. Gap(acc[i], acc[j])
      BY Zenon, <1>2, <2>9
    <3> QED BY Zenon, <3>2, <3>3 DEF Gap
  <2>10. \A b \in Nat : Covers(k, b) <=> Covers(acc[L], b) \/ Covers(h, b)
    BY SMTT(60), <1>1, <1>9, <2>2, <2>4 DEF Covers
  <2>11. ASSUME NEW b \in Nat
         PROVE  (\E i \in 1 .. L : Covers(new[i], b))
                  <=> (\E i \in 1 .. L : Covers(acc[i], b)) \/ Covers(h, b)
    <3>1. ASSUME NEW i \in 1 .. L, Covers(new[i], b) PROVE Covers(acc[i], b) \/ Covers(h, b)
      BY Zenon, <2>7, <2>10, <3>1
    <3>2. ASSUME NEW i \in 1 .. L, Covers(acc[i], b) PROVE Covers(new[i], b)
      BY Zenon, <2>7, <2>10, <3>2
    <3>3. Covers(h, b) => Covers(new[L], b)
      BY Zenon, <2>1, <2>7, <2>10
    <3> QED BY Zenon, <2>1, <3>1, <3>2, <3>3
  <2> QED BY Zenon, <1>2, <1>4, <1>6, <2>6, <2>8, <2>9, <2>11 DEF Runs, new, h
<1>10. CASE ~(acc /= <<>> /\ acc[L].off + acc[L].len = h.off)
  <2>1. new = Append(acc, h)
    BY Zenon, <1>5, <1>10
  <2>2. new \in Seq(Hole) /\ Len(new) = L + 1
    BY <1>1, <1>2, <2>1
  <2>3. /\ \A i \in 1 .. L : new[i] = acc[i]
        /\ new[L + 1] = h /\ new /= <<>>
        /\ \A i : i \in 1 .. L + 1 <=> i \in 1 .. L \/ i = L + 1
    BY <1>1, <1>2, <1>3, <2>1
  <2>4. acc /= <<>> => Gap(acc[L], h)
    <3>1. SUFFICES ASSUME acc /= <<>> PROVE Gap(acc[L], h)
      BY Zenon
    <3>0. n = 0 \/ n > 0
      OBVIOUS
    <3>2. n > 0
      BY Zenon, <3>0, <3>1 DEF Runs
    <3>3. acc[L].off + acc[L].len = t[n].off + t[n].len
      BY Zenon, <3>2 DEF Runs
    <3>4. n \in 1 .. Len(t) /\ n + 1 \in 1 .. Len(t) /\ n < n + 1
      BY <3>2
    <3>5. Clear(t[n], h)
      BY Zenon, <3>4 DEF h
    <3>6. acc[L] \in Hole
      BY Zenon, <1>3, <1>7, <3>1
    <3>7. acc[L].off \in Nat /\ acc[L].len \in Nat
      BY Zenon, <3>6, HoleFacts
    <3>8. acc[L].off + acc[L].len <= h.off /\ acc[L].off + acc[L].len /= h.off
      BY Zenon, <1>10, <3>1, <3>3, <3>5 DEF Clear
    <3> QED BY ONLY <1>1, <3>7, <3>8 DEF Gap
  <2>5. ASSUME NEW i \in 1 .. L PROVE Gap(acc[i], h)
    <3>1. acc /= <<>> /\ L \in 1 .. L
      BY <1>2
    <3>2. CASE i = L
      BY Zenon, <2>4, <3>1, <3>2
    <3>3. CASE i < L
      <4>1. Gap(acc[i], acc[L]) /\ Gap(acc[L], h)
        BY Zenon, <1>2, <2>4, <3>1, <3>3
      <4> QED BY Zenon, <1>1, <1>3, <3>1, <4>1, GapTransitive
    <3>4. i = L \/ i < L
      BY Zenon, <1>8
    <3> QED BY Zenon, <3>2, <3>3, <3>4
  <2>6. ASSUME NEW i \in 1 .. L + 1, NEW j \in 1 .. L + 1, i < j PROVE Gap(new[i], new[j])
    <3>1. i \in 1 .. L
      BY Zenon, <1>8, <2>6
    <3>2. j \in 1 .. L \/ j = L + 1
      BY Zenon, <2>3
    <3> QED BY Zenon, <1>2, <2>3, <2>5, <2>6, <3>1, <3>2
  <2>7. ASSUME NEW b \in Nat
        PROVE  (\E i \in 1 .. L + 1 : Covers(new[i], b))
                 <=> (\E i \in 1 .. L : Covers(acc[i], b)) \/ Covers(h, b)
    BY Zenon, <2>3
  <2> QED BY Zenon, <1>2, <1>4, <1>6, <2>2, <2>3, <2>6, <2>7 DEF Runs, new, h
<1> QED BY Zenon, <1>9, <1>10

\* The loop: entries in order that share no byte become entries with gaps
\* between, and cover the same bytes.
LEMMA MergedFacts ==
    ASSUME NEW t \in Seq(Hole), \A i, j \in 1 .. Len(t) : i < j => Clear(t[i], t[j])
    PROVE  Runs(t, Len(t), Merged(t))
<1> DEFINE N == Len(t)
<1>1. PICK f : Merging(t, N, f) /\ Merged(t) = f[N]
  BY Zenon, MergedEquation
<1>2. \A n \in 0 .. N : f[n] = IF n = 0 THEN <<>> ELSE Merge(f[n - 1], t[n])
  BY Zenon, <1>1 DEF Merging
<1>3. N \in Nat
  OBVIOUS
<1> DEFINE S == { n \in Nat : n <= N => Runs(t, n, f[n]) }
<1>4. 0 \in S
  <2>1. f[0] = <<>>
    BY <1>2, <1>3
  <2>2. Runs(t, 0, <<>>)
    BY DEF Runs
  <2> QED BY Zenon, <2>1, <2>2
<1>5. ASSUME NEW n \in S PROVE n + 1 \in S
  <2>1. n \in Nat /\ n + 1 \in Nat
    OBVIOUS
  <2>2. SUFFICES ASSUME n + 1 <= N PROVE Runs(t, n + 1, f[n + 1])
    BY Zenon, <2>1
  <2>3. n <= N /\ n + 1 \in 0 .. N /\ n + 1 /= 0 /\ (n + 1) - 1 = n
    BY <1>3, <2>1, <2>2
  <2>4. f[n + 1] = Merge(f[n], t[n + 1])
    BY Zenon, <1>2, <2>3
  <2>5. Runs(t, n, f[n])
    BY Zenon, <2>3
  <2> QED BY Zenon, <2>1, <2>2, <2>4, <2>5, MergeStep
<1>6. S = Nat
  BY Zenon, <1>4, <1>5, SetInduction
<1>7. N <= N
  BY <1>3
<1> QED BY Zenon, <1>1, <1>3, <1>6, <1>7

\* free's sort and merge.
LEMMA CoalesceFacts ==
    ASSUME NEW s \in Seq(Hole), Disjoint(s), NEW u, u = Coalesce(s)
    PROVE  u \in Seq(Hole) /\ Spaced(u) /\ \A b \in Nat : b \in Cover(u) <=> b \in Cover(s)
<1> DEFINE t == Sorted(s)
<1>1. /\ t \in Seq(Hole) /\ \A i, j \in 1 .. Len(t) : i < j => Clear(t[i], t[j])
      /\ Cover(t) = Cover(s)
  BY Zenon, SortedFacts
<1> HIDE DEF t
<1>2. u = Merged(t)
  BY Zenon DEF Coalesce, t
<1>3. Runs(t, Len(t), u)
  BY Zenon, <1>1, <1>2, MergedFacts
<1>4. u \in Seq(Hole)
  BY Zenon, <1>3 DEF Runs
<1>5. DOMAIN u = 1 .. Len(u) /\ DOMAIN t = 1 .. Len(t)
  BY <1>1, <1>4
<1>6. Spaced(u)
  <2>1. ASSUME NEW i \in DOMAIN u, NEW j \in DOMAIN u, i /= j PROVE i < j \/ j < i
    BY <1>5, <2>1
  <2> QED BY Zenon, <1>3, <1>5, <2>1 DEF Runs, Spaced
<1>7. \A b \in Nat : b \in Cover(u) <=> b \in Cover(t)
  BY Zenon, <1>1, <1>3, <1>4, <1>5, CoverFacts DEF Runs
<1> QED BY Zenon, <1>1, <1>4, <1>6, <1>7

\* The operators of the arena's specification, under the mapping, are those of
\* Arena.
LEMMA SameArena ==
    ASSUME NEW ar, NEW len, NEW off
    PROVE  /\ A!Alloc(ar, len) = Alloc(ar, len)
           /\ A!Free(ar, off, len) = Free(ar, off, len)
           /\ A!Bytes(off, len) = Bytes(off, len)
           /\ A!NewArena(off) = NewArena(off)
           /\ A!Offset = Offset
<1>1. A!Bytes(off, len) = Bytes(off, len) /\ A!Offset = Offset
  BY Zenon DEF A!Bytes, Bytes, A!Offset, Offset
<1>2. A!Free(ar, off, len) = Free(ar, off, len) /\ A!NewArena(off) = NewArena(off)
  BY Zenon DEF A!Free, Free, A!NewArena, NewArena, A!Bytes, Bytes
<1>3. A!Alloc(ar, len) = Alloc(ar, len)
  BY Zenon DEF A!Alloc, Alloc, A!BestFit, BestFit, A!Fitting, Fitting, A!Holes, Holes,
               A!Slack, Slack, A!AlignUp, AlignUp, A!Bytes, Bytes, A!Offset, Offset,
               A!BumpAlloc, BumpAlloc, A!Carve, Carve
<1> QED BY Zenon, <1>1, <1>2, <1>3

\* The list's candidates are the arena's holes that fit.
LEMMA CandidatesFit ==
    ASSUME ListInv, NEW len \in Nat
    PROVE  /\ \A i \in Candidates(len) : free_list[i] \in Fitting(Cover(free_list), len)
           /\ \A h \in Fitting(Cover(free_list), len) : \E i \in Candidates(len) : h = free_list[i]
<1>1. Range(free_list) = Holes(Cover(free_list))
  BY Zenon, SpacedRuns DEF ListInv
<1> QED BY Zenon, <1>1 DEF Fitting, Candidates, Range

\* The invariant implies the property.
LEMMA InvRuns == ListInv => EntriesAreRuns
<1>1. AsArena.free = Cover(free_list)
  BY DEF AsArena, Cover
<1> QED BY Zenon, <1>1, SpacedRuns DEF ListInv, EntriesAreRuns

\* The empty list.
LEMMA ListInitInv == ListInit => ListInv /\ A!Init
<1> SUFFICES ASSUME ListInit PROVE ListInv /\ A!Init
  OBVIOUS
<1>1. ListInv
  BY ArenaAssumption DEF ListInit, ListInv, Spaced, Cover
<1>2. AsArena = [base |-> 0, used |-> 0, free |-> {}]
  <2>1. UNION { EntryOf(free_list[i]) : i \in DOMAIN free_list } = {}
    BY DEF ListInit
  <2> QED BY Zenon, <2>1 DEF AsArena, ListInit
<1> QED BY Zenon, <1>1, <1>2 DEF A!Init, A!NewArena, ListInit

\* alloc from the list.
LEMMA AllocFromListStep ==
    ASSUME ListInv, NEW len \in Length, AllocFromList(len)
    PROVE  ListInv' /\ A!Allocate(len)
<1> DEFINE i == Best(len)
           h == free_list[i]
           off == AlignUp(h.off)
           C == Cover(free_list)
           D == Cover(free_list')
<1>1. len \in Nat /\ len >= 1
  BY ArenaAssumption
<1>2. /\ used \in 0 .. ARENA_SIZE /\ free_list \in Seq(Hole) /\ Spaced(free_list)
      /\ allocated \subseteq 0 .. used - 1 /\ C \subseteq (0 .. used - 1) \ allocated
  BY Zenon DEF ListInv
<1>3. /\ Candidates(len) /= {} /\ free_list' = CutOut(i, off, off + len)
      /\ allocated' = allocated \cup Bytes(off, len) /\ used' = used
  BY Zenon DEF AllocFromList
<1>4. /\ i \in Candidates(len)
      /\ \A j \in Candidates(len) : Waste(h, len) <= Waste(free_list[j], len)
  BY Zenon, <1>1, <1>2, <1>3, BestFacts
<1>5. i \in DOMAIN free_list /\ Slack(h) + len <= h.len
  BY Zenon, <1>4 DEF Candidates
<1>6. h \in Hole
  BY <1>2, <1>5
<1>7. h.off \in Nat /\ h.len \in Nat
  BY Zenon, <1>6, HoleFacts
<1>8. off \in Nat /\ off >= h.off
  BY Zenon, <1>7, AlignUpFacts
<1> HIDE DEF i, h, off
<1>9. h.off <= off /\ off < off + len /\ off + len <= h.off + h.len /\ off + len \in Nat
  BY <1>1, <1>5, <1>7, <1>8 DEF Slack, off
<1>10. /\ free_list' \in Seq(Hole) /\ Spaced(free_list')
       /\ \A b \in Nat : b \in D <=> b \in C /\ ~(off <= b /\ b < off + len)
  <2>1. h = free_list[i]
    BY Zenon DEF h
  <2>2. /\ free_list[i].off <= off /\ off < off + len
        /\ off + len <= free_list[i].off + free_list[i].len
    BY Zenon, <1>9, <2>1
  <2> DEFINE t == CutOut(i, off, off + len)
  <2>3. /\ t \in Seq(Hole) /\ Spaced(t)
        /\ \A b \in Nat : b \in Cover(t) <=> b \in C /\ ~(off <= b /\ b < off + len)
    BY Zenon, <1>2, <1>5, <1>8, <1>9, <2>2, CutFacts
  <2>4. free_list' = t
    BY Zenon, <1>3
  <2> HIDE DEF t
  <2> QED BY Zenon, <2>3, <2>4
<1>11. \A b : b \in Bytes(off, len) <=> b \in Nat /\ off <= b /\ b < off + len
  BY <1>1, <1>8 DEF Bytes
<1>12. (\A b \in C : b \in Nat) /\ (\A b \in D : b \in Nat)
  BY Zenon, <1>2, <1>10, CoverFacts
<1>13. D = C \ Bytes(off, len)
  BY Zenon, <1>10, <1>11, <1>12
<1>14. Bytes(off, len) \subseteq C
  <2>1. \A b \in Nat : off <= b /\ b < off + len => Covers(h, b)
    BY <1>1, <1>7, <1>8, <1>9 DEF Covers
  <2>2. \A b \in Nat : Covers(h, b) => b \in C
    BY Zenon, <1>2, <1>5, CoverFacts DEF h
  <2> QED BY Zenon, <1>11, <2>1, <2>2
<1>15. ListInv'
  <2>1. allocated' \subseteq 0 .. used - 1 /\ D \subseteq (0 .. used - 1) \ allocated'
    BY Zenon, <1>2, <1>3, <1>13, <1>14
  <2>2. Cover(free_list)' = D /\ Spaced(free_list)'
    BY Zenon, <1>10 DEF Cover, Spaced, EntryOf
  <2> QED BY Zenon, <1>2, <1>3, <1>10, <2>1, <2>2 DEF ListInv
<1>16. h \in BestFit(C, len)
  <2>1. h \in Fitting(C, len)
    BY Zenon, <1>1, <1>4, CandidatesFit DEF h
  <2>2. ASSUME NEW g \in Fitting(C, len) PROVE h.len - Slack(h) <= g.len - Slack(g)
    <3>1. PICK j \in Candidates(len) : g = free_list[j]
      BY Zenon, <1>1, CandidatesFit
    <3>2. Waste(h, len) <= Waste(g, len)
      BY Zenon, <1>4, <3>1
    <3>3. g \in Hole
      BY <1>2, <3>1 DEF Candidates
    <3>4. g.off \in Nat /\ g.len \in Nat
      BY Zenon, <3>3, HoleFacts
    <3>5. AlignUp(g.off) \in Nat
      BY Zenon, <3>4, AlignUpFacts
    <3>6. Slack(g) \in Int /\ Slack(h) \in Int
      BY <1>7, <1>8, <3>4, <3>5 DEF Slack, off
    <3> QED BY ONLY <1>1, <1>7, <3>2, <3>4, <3>6 DEF Waste
  <2> QED BY Zenon, <2>1, <2>2 DEF BestFit
<1>17. A!Allocate(len)
  <2>1. AsArena.free = C /\ AsArena = [base |-> 0, used |-> used, free |-> C]
    BY Zenon DEF AsArena, Cover
  <2>2. AsArena' = [base |-> 0, used |-> used, free |-> D]
    BY Zenon, <1>3 DEF AsArena, Cover, EntryOf
  <2> DEFINE r == Carve(AsArena, len, off)
  <2>3. r.off = off /\ r.arena = AsArena'
    <3>1. [AsArena EXCEPT !.free = AsArena.free \ Bytes(off, len)] = AsArena'
      BY <1>13, <2>1, <2>2
    <3> QED BY <3>1 DEF Carve
  <2>4. r \in Alloc(AsArena, len)
    <3>1. Fitting(C, len) /= {}
      BY Zenon, <1>16 DEF BestFit
    <3> QED BY Zenon, <1>16, <2>1, <3>1 DEF Alloc, off
  <2> HIDE DEF r
  <2> QED BY Zenon, <1>3, <2>3, <2>4, SameArena DEF A!Allocate
<1> QED BY Zenon, <1>15, <1>17

\* alloc by bumping.
LEMMA AllocByBumpStep ==
    ASSUME ListInv, NEW len \in Length, AllocByBump(len)
    PROVE  ListInv' /\ A!Allocate(len)
<1> DEFINE off == AlignUp(used)
           C == Cover(free_list)
<1>1. len \in Nat /\ len >= 1
  BY ArenaAssumption
<1>2. /\ used \in 0 .. ARENA_SIZE /\ free_list \in Seq(Hole) /\ Spaced(free_list)
      /\ allocated \subseteq 0 .. used - 1 /\ C \subseteq (0 .. used - 1) \ allocated
  BY Zenon DEF ListInv
<1>3. /\ Candidates(len) = {} /\ off + len <= ARENA_SIZE /\ used' = off + len
      /\ allocated' = allocated \cup Bytes(off, len) /\ free_list' = free_list
  BY Zenon DEF AllocByBump
<1>4. used \in Nat
  BY <1>2, ArenaAssumption
<1>5. off \in Nat /\ off >= used
  BY Zenon, <1>4, AlignUpFacts
<1> HIDE DEF off
<1>6. ListInv'
  <2>1. off + len \in 0 .. ARENA_SIZE
    BY <1>1, <1>3, <1>5, ArenaAssumption
  <2>2. /\ \A b \in 0 .. used - 1 : b \in 0 .. (off + len) - 1 /\ b \notin Bytes(off, len)
        /\ \A b \in Bytes(off, len) : b \in 0 .. (off + len) - 1
    BY <1>1, <1>4, <1>5 DEF Bytes
  <2>3. allocated' \subseteq 0 .. used' - 1 /\ C \subseteq (0 .. used' - 1) \ allocated'
    BY Zenon, <1>2, <1>3, <2>2
  <2>4. Cover(free_list)' = C /\ (Spaced(free_list)' <=> Spaced(free_list))
    BY Zenon, <1>3 DEF Cover, Spaced, EntryOf
  <2> QED BY Zenon, <1>2, <1>3, <2>1, <2>3, <2>4 DEF ListInv
<1>7. A!Allocate(len)
  <2>1. AsArena.free = C /\ AsArena = [base |-> 0, used |-> used, free |-> C]
    BY Zenon DEF AsArena, Cover
  <2>2. AsArena' = [base |-> 0, used |-> off + len, free |-> C]
    BY Zenon, <1>3 DEF AsArena, Cover, EntryOf
  <2> DEFINE r == [off |-> off, arena |-> [AsArena EXCEPT !.used = off + len]]
  <2>3. r.off = off /\ r.arena = AsArena'
    BY <2>1, <2>2
  <2>4. r \in Alloc(AsArena, len)
    <3>1. Fitting(C, len) = {}
      BY Zenon, <1>1, <1>3, CandidatesFit
    <3>2. off = AlignUp(AsArena.used)
      BY <2>1 DEF off
    <3>3. r \in BumpAlloc(AsArena, len)
      BY Zenon, <1>3, <3>2 DEF BumpAlloc
    <3> QED BY Zenon, <2>1, <3>1, <3>3 DEF Alloc
  <2> HIDE DEF r
  <2> QED BY Zenon, <1>3, <2>3, <2>4, SameArena DEF A!Allocate
<1> QED BY Zenon, <1>6, <1>7

\* free.
LEMMA FreeRangeStep ==
    ASSUME ListInv, NEW off \in Offset, NEW len \in Length, FreeRange(off, len)
    PROVE  ListInv' /\ A!Release(off, len)
<1> DEFINE C == Cover(free_list)
           D == Cover(free_list')
           k == Entry(off, len)
           s == Append(free_list, k)
<1>1. len \in Nat /\ len >= 1 /\ off \in Nat
  BY ArenaAssumption DEF Offset
<1>2. /\ used \in 0 .. ARENA_SIZE /\ free_list \in Seq(Hole) /\ Spaced(free_list)
      /\ allocated \subseteq 0 .. used - 1 /\ C \subseteq (0 .. used - 1) \ allocated
  BY Zenon DEF ListInv
<1>3. /\ Bytes(off, len) \subseteq allocated /\ off + len <= ARENA_SIZE
      /\ free_list' = Coalesce(s) /\ allocated' = allocated \ Bytes(off, len) /\ used' = used
  BY Zenon DEF FreeRange
<1>4. k \in Hole /\ k.off = off /\ k.len = len
  BY Zenon, <1>1, <1>3, MakeHole
<1>5. \A b : b \in Bytes(off, len) <=> b \in Nat /\ Covers(k, b)
  BY <1>1, <1>4 DEF Bytes, Covers
<1> HIDE DEF k
<1>6. ASSUME NEW j \in DOMAIN free_list
      PROVE  Clear(free_list[j], k) \/ Clear(k, free_list[j])
  <2> DEFINE g == free_list[j]
  <2>1. g \in Hole
    BY <1>2
  <2>2. g.off \in Nat /\ g.len \in Nat /\ g.len >= 1
    BY Zenon, <2>1, HoleFacts
  <2>3. \A b \in Nat : Covers(g, b) => ~Covers(k, b)
    <3>1. \A b \in Nat : Covers(g, b) => b \in C
      BY Zenon, <1>2, CoverFacts
    <3> QED BY Zenon, <1>2, <1>3, <1>5, <3>1
  <2> HIDE DEF g
  <2>4. ~Covers(k, g.off) /\ ~Covers(g, k.off)
    <3>1. Covers(g, g.off) /\ Covers(k, k.off) /\ k.off \in Nat
      BY <1>1, <1>4, <2>2 DEF Covers
    <3> QED BY Zenon, <2>2, <2>3, <3>1
  <2>5. Clear(g, k) \/ Clear(k, g)
    BY <1>1, <1>4, <2>2, <2>4 DEF Covers, Clear
  <2> QED BY Zenon, <2>5 DEF g
<1>7. /\ s \in Seq(Hole) /\ Len(free_list) \in Nat /\ DOMAIN free_list = 1 .. Len(free_list)
      /\ s[Len(free_list) + 1] = k /\ Len(free_list) + 1 \in DOMAIN s
      /\ \A j \in DOMAIN free_list : j \in DOMAIN s /\ s[j] = free_list[j]
      /\ \A j \in DOMAIN s : j \in DOMAIN free_list \/ j = Len(free_list) + 1
  BY <1>2, <1>4
<1> HIDE DEF s
<1>8. Disjoint(s)
  <2>1. ASSUME NEW i \in DOMAIN free_list, NEW j \in DOMAIN free_list, i /= j
        PROVE  Clear(free_list[i], free_list[j]) \/ Clear(free_list[j], free_list[i])
    <3>1. free_list[i] \in Hole /\ free_list[j] \in Hole
      BY <1>2
    <3> QED BY Zenon, <1>2, <2>1, <3>1, GapClear DEF Spaced
  <2>2. ASSUME NEW i \in DOMAIN s, NEW j \in DOMAIN s, i /= j
        PROVE  Clear(s[i], s[j]) \/ Clear(s[j], s[i])
    BY Zenon, <1>6, <1>7, <2>1, <2>2
  <2> QED BY Zenon, <2>2 DEF Disjoint
<1>9. \A b \in Nat : b \in Cover(s) <=> b \in C \/ Covers(k, b)
  <2>1. SUFFICES ASSUME NEW b \in Nat PROVE b \in Cover(s) <=> b \in C \/ Covers(k, b)
    BY Zenon
  <2>2. b \in Cover(s) <=> \E j \in DOMAIN s : Covers(s[j], b)
    BY Zenon, <1>7, CoverFacts
  <2>3. b \in C <=> \E j \in DOMAIN free_list : Covers(free_list[j], b)
    BY Zenon, <1>2, CoverFacts
  <2> QED BY Zenon, <1>7, <2>2, <2>3
<1>10. /\ free_list' \in Seq(Hole) /\ Spaced(free_list')
       /\ \A b \in Nat : b \in D <=> b \in Cover(s)
  BY Zenon, <1>3, <1>7, <1>8, CoalesceFacts
<1>11. (\A b \in C : b \in Nat) /\ (\A b \in D : b \in Nat)
  BY Zenon, <1>2, <1>10, CoverFacts
<1>12. D = C \cup Bytes(off, len)
  BY Zenon, <1>5, <1>9, <1>10, <1>11
<1>13. ListInv'
  <2>1. allocated' \subseteq 0 .. used - 1 /\ D \subseteq (0 .. used - 1) \ allocated'
    BY Zenon, <1>2, <1>3, <1>12
  <2>2. Cover(free_list)' = D /\ (Spaced(free_list)' <=> Spaced(free_list'))
    BY Zenon DEF Cover, Spaced, EntryOf
  <2> QED BY Zenon, <1>2, <1>3, <1>10, <2>1, <2>2 DEF ListInv
<1>14. A!Release(off, len)
  <2>1. AsArena.free = C /\ AsArena = [base |-> 0, used |-> used, free |-> C]
    BY Zenon DEF AsArena, Cover
  <2>2. AsArena' = [base |-> 0, used |-> used, free |-> D]
    BY Zenon, <1>3 DEF AsArena, Cover, EntryOf
  <2>3. AsArena' = Free(AsArena, off, len)
    BY <1>12, <2>1, <2>2 DEF Free
  <2> QED BY Zenon, <1>3, <2>3, SameArena DEF A!Release
<1> QED BY Zenon, <1>13, <1>14

\* Every step of the list preserves the invariant and is a step of the arena.
LEMMA ListStep ==
    ASSUME ListInv, [ListNext]_list_vars
    PROVE  ListInv' /\ [A!Next]_(A!vars)
<1>1. ASSUME NEW len \in Length, AllocFromList(len) \/ AllocByBump(len)
      PROVE  ListInv' /\ A!Next
  BY Zenon, <1>1, AllocFromListStep, AllocByBumpStep DEF A!Next
<1>2. ASSUME NEW off \in Offset, NEW len \in Length, FreeRange(off, len)
      PROVE  ListInv' /\ A!Next
  <2>1. off \in A!Offset
    BY Zenon DEF A!Offset, Offset
  <2> QED BY Zenon, <1>2, <2>1, FreeRangeStep DEF A!Next
<1>3. CASE UNCHANGED list_vars
  <2>1. ListInv'
    BY Zenon, <1>3 DEF list_vars, ListInv, Spaced, Cover, EntryOf
  <2>2. UNCHANGED A!vars
    BY Zenon, <1>3 DEF list_vars, A!vars, AsArena, EntryOf
  <2> QED BY Zenon, <2>1, <2>2
<1> QED BY Zenon, <1>1, <1>2, <1>3 DEF ListNext

(***************************************************************************)
(* For arenas of any size, any alignment and any sequence of alloc and     *)
(* free of allocated bytes, the free list is the set of maximal runs of    *)
(* the free bytes, each once, below the bump pointer and clear of what is  *)
(* allocated.                                                              *)
(***************************************************************************)
THEOREM FreeListRuns == ListSpec => []EntriesAreRuns
<1>1. ListInit => ListInv
  BY Zenon, ListInitInv
<1>2. ListInv /\ [ListNext]_list_vars => ListInv'
  BY Zenon, ListStep
<1> QED BY <1>1, <1>2, InvRuns, PTL DEF ListSpec

(***************************************************************************)
(* The Vec of holes implements the arena that LinearAllocator is built     *)
(* from: search, carving, bump, and free with its sort and merge are, step *)
(* for step, those of the set of free bytes.                               *)
(***************************************************************************)
THEOREM FreeListIsArena == ListSpec => ImplementsArena
<1>1. ListInit => ListInv /\ A!Init
  BY Zenon, ListInitInv
<1>2. ListInv /\ [ListNext]_list_vars => ListInv' /\ [A!Next]_(A!vars)
  BY Zenon, ListStep
<1> QED BY <1>1, <1>2, PTL DEF ListSpec, ImplementsArena, A!Spec

(***************************************************************************)
(* The image of a guest.                                                   *)
(***************************************************************************)
\* The image holds what build_kernel_snapshot and collect_pages make.
KernelShape(k) ==
    k = [fds |-> [fd \in DOMAIN k.fds |->
                    [kind |-> k.fds[fd].kind, body |-> k.fds[fd].body]],
         cloexec |-> k.cloexec, next_fd |-> k.next_fd, mm |-> k.mm, misc |-> k.misc]
Saved(i, f) ==
    /\ KernelShape(i.kernel)
    /\ f \in Seq(Nat)
    /\ i.pages = collect_pages(f)

\* The entries below the ones still to do are rebuilt, each on its own object.
Rebuilt(t, o, k, td) ==
    /\ td \subseteq DOMAIN k.fds
    /\ DOMAIN t = DOMAIN k.fds \ td
    /\ \A fd \in DOMAIN t :
        /\ t[fd] = [kind |-> k.fds[fd].kind, obj |-> fd]
        /\ fd \in DOMAIN o /\ o[fd] = k.fds[fd].body

\* The two memories agree page by page, if data the guest zeroed is none.
SameMemory(m, f, data) ==
    /\ \A i \in DOMAIN f : f[i] = 0 => Page(data, i) = 0
    /\ Len(data) <= Len(f)
    => \A i \in DOMAIN m \cup DOMAIN f : Page(m, i) = Page(f, i)

IInv ==
    /\ mod \in Module /\ mem \in Seq(Nat)
    /\ disk = "whole" => Saved(image, frozen)
    /\ phase \in {"entries", "memory", "ready"} => disk = "whole"
    /\ phase \in {"entries", "memory"} => mem = Data[mod]
    /\ phase = "entries" =>
        /\ Rebuilt(table, object, image.kernel, todo)
        /\ mm = image.kernel.mm /\ misc = image.kernel.misc
    /\ phase \in {"memory", "ready"} => build_kernel_snapshot = image.kernel
    /\ phase = "ready" => SameMemory(mem, frozen, Data[mod])
    /\ RefusedUntouched

\* Before the first boot there is no image to restore.
LEMMA InitEstablishes == Init => IInv
  BY DEF Init, IInv, RefusedUntouched

\* What collect_pages keeps, apply_snapshot_to_memory puts back in its place.
LEMMA PagesComeBack ==
  ASSUME NEW f \in Seq(Nat), NEW data \in Seq(Nat), NEW len \in Nat, NEW m,
         \A other \in {Len(data)} \cup DOMAIN collect_pages(f) : other <= len,
         m = [i \in 1 .. len |-> IF i \in DOMAIN collect_pages(f)
                                 THEN collect_pages(f)[i] ELSE Page(data, i)]
  PROVE  m \in Seq(Nat) /\ SameMemory(m, f, data)
  <1> DEFINE kept == DOMAIN collect_pages(f)
  <1>1. /\ DOMAIN data = 1 .. Len(data) /\ DOMAIN f = 1 .. Len(f)
        /\ Len(data) \in Nat /\ Len(f) \in Nat
    OBVIOUS
  <1>2. /\ kept = { j \in DOMAIN f : f[j] # 0 }
        /\ \A i \in kept : collect_pages(f)[i] = f[i]
    BY DEF collect_pages
  <1>3. DOMAIN m = 1 .. len /\ kept \subseteq 1 .. len
    <2>1. \A i \in kept : i \in 1 .. Len(f) /\ i <= len
      BY <1>1, <1>2
    <2> QED  BY <2>1, <1>1
  <1>4. \A i \in 1 .. len : m[i] = IF i \in kept THEN f[i] ELSE Page(data, i)
    BY <1>2
  <1>5. \A i \in 1 .. len : m[i] \in Nat
    BY <1>1, <1>2, <1>4 DEF Page
  <1>6. m \in Seq(Nat)
    <2>1. m \in [1 .. len -> Nat]
      BY <1>5
    <2> QED  BY <2>1
  <1>7. SameMemory(m, f, data)
    <2> SUFFICES ASSUME \A i \in DOMAIN f : f[i] = 0 => Page(data, i) = 0,
                        Len(data) <= Len(f),
                        NEW i \in DOMAIN m \cup DOMAIN f
                 PROVE  Page(m, i) = Page(f, i)
      BY DEF SameMemory
    <2>1. CASE i \in kept
      BY <2>1, <1>2, <1>3, <1>4 DEF Page
    <2>2. CASE i \notin kept
      <3>1. Page(f, i) = 0
        BY <2>2, <1>2 DEF Page
      <3>2. i \in DOMAIN f => Page(data, i) = 0
        BY <2>2, <1>2
      <3>3. i \notin DOMAIN f => i \notin DOMAIN data
        BY <1>1, <1>3
      <3>4. Page(data, i) = 0
        BY <3>2, <3>3 DEF Page
      <3>5. Page(m, i) = 0
        BY <2>2, <3>4, <1>3, <1>4 DEF Page
      <3> QED  BY <3>1, <3>5
    <2> QED  BY <2>1, <2>2
  <1> QED  BY <1>6, <1>7

\* A file that write_snapshot_file completes holds a well-formed image.
LEMMA WriteSaves ==
  ASSUME NEW hash, NEW v, IInv, WriteFile(hash, v)
  PROVE  disk' = "whole" => Saved(image', frozen')
  <1>1. CASE UNCHANGED <<disk, image, frozen>>
    BY <1>1 DEF IInv
  <1>2. CASE disk' = "torn"
    BY <1>2
  <1>3. CASE /\ frozen' = mem
             /\ image' = [format_version |-> v, module_sha256 |-> hash,
                          pages |-> collect_pages(mem), kernel |-> build_kernel_snapshot]
    <2>1. /\ image'.kernel = build_kernel_snapshot
          /\ image'.pages = collect_pages(mem)
      BY <1>3
    <2>2. KernelShape(build_kernel_snapshot)
      BY Zenon DEF KernelShape, build_kernel_snapshot, EntrySnapshot
    <2>3. Saved(image', frozen')
      BY <1>3, <2>1, <2>2 DEF Saved, IInv
    <2> QED  BY <2>3
  <1> QED  BY <1>1, <1>2, <1>3 DEF WriteFile

\* In these phases only the types and the file are constrained.
LEMMA Quiet ==
  ASSUME mod' \in Module, mem' \in Seq(Nat), disk' = "whole" => Saved(image', frozen'),
         phase' \in {"down", "running", "failed"}
  PROVE  IInv'
  BY Zenon DEF IInv, RefusedUntouched

\* serve_loop leaves a kernel that is reset, or one that is new.
LEMMA ServeStep ==
  ASSUME NEW m \in Module, IInv, serve_loop(m)
  PROVE  IInv'
  <1>1. /\ disk' = "whole" /\ Saved(image', frozen') /\ mod' \in Module
        /\ mem' = Data[mod'] /\ mem' \in Seq(Nat)
    BY SnapshotAssumption DEF IInv, serve_loop
  <1>2. CASE phase' = "entries" /\ Reset
    <2>1. Rebuilt(table', object', image'.kernel, todo')
      BY <1>2 DEF Reset, Rebuilt, EmptyMap, serve_loop
    <2>2. mm' = image'.kernel.mm /\ misc' = image'.kernel.misc
      BY <1>2 DEF Reset, serve_loop
    <2> QED  BY Zenon, <1>1, <1>2, <2>1, <2>2 DEF IInv, RefusedUntouched
  <1>3. CASE Refuse
    BY Zenon, <1>1, <1>3 DEF IInv, RefusedUntouched, Refuse, New
  <1> QED  BY <1>2, <1>3 DEF serve_loop

\* One entry more is rebuilt, or the serve fails.
LEMMA EntryStep ==
  ASSUME IInv, ApplyEntry
  PROVE  IInv'
  <1>1. /\ mod' \in Module /\ mem' \in Seq(Nat) /\ disk' = "whole"
        /\ Saved(image', frozen') /\ mem' = Data[mod'] /\ image' = image
        /\ Rebuilt(table, object, image.kernel, todo)
        /\ mm = image.kernel.mm /\ misc = image.kernel.misc
    BY DEF IInv, ApplyEntry
  <1>2. PICK fd \in todo : InsertAt(fd) \/ EntryFails(fd)
    BY DEF ApplyEntry
  <1>3. CASE EntryFails(fd)
    BY <1>1, <1>3, Quiet DEF EntryFails
  <1>4. CASE InsertAt(fd)
    <2> DEFINE e == image.kernel.fds[fd]
    <2>1. /\ table' = Put(table, fd, [kind |-> e.kind, obj |-> fd])
          /\ object' = Put(object, fd, e.body) /\ todo' = todo \ {fd}
          /\ mm' = mm /\ misc' = misc /\ phase' = "entries"
      BY Zenon, <1>4 DEF InsertAt, ApplyEntry
    <2>2. Rebuilt(table', object', image.kernel, todo')
      BY ZenonT(30), <1>1, <2>1 DEF Rebuilt, Put
    <2> QED  BY Zenon, <1>1, <2>1, <2>2 DEF IInv, RefusedUntouched
  <1> QED  BY <1>2, <1>3, <1>4

\* With no entry left, the table is the one that was saved.
LEMMA DoneStep ==
  ASSUME IInv, EntriesDone
  PROVE  IInv'
  <1> DEFINE k == image.kernel
  <1>1. /\ Rebuilt(table, object, k, {}) /\ KernelShape(k)
        /\ mm = k.mm /\ misc = k.misc
    BY DEF IInv, EntriesDone, Saved
  <1>2. /\ cloexec' = k.cloexec /\ next_fd' = k.next_fd /\ table' = table
        /\ object' = object /\ mm' = mm /\ misc' = misc /\ image' = image
        /\ phase' = "memory"
    BY DEF EntriesDone
  <1>3. \A fd \in DOMAIN table :
            EntrySnapshot(fd) = [kind |-> k.fds[fd].kind, body |-> k.fds[fd].body]
    <2> SUFFICES ASSUME NEW fd \in DOMAIN table
                 PROVE  EntrySnapshot(fd)
                        = [kind |-> k.fds[fd].kind, body |-> k.fds[fd].body]
      OBVIOUS
    <2>1. /\ table[fd] = [kind |-> k.fds[fd].kind, obj |-> fd]
          /\ object[fd] = k.fds[fd].body
      BY <1>1 DEF Rebuilt
    <2>2. table[fd].kind = k.fds[fd].kind /\ table[fd].obj = fd
      BY <2>1
    <2> QED  BY <2>1, <2>2 DEF EntrySnapshot
  <1>4. DOMAIN table = DOMAIN k.fds
    BY <1>1 DEF Rebuilt
  <1>5. [fd \in DOMAIN table |-> [kind |-> table[fd].kind, body |-> object[table[fd].obj]]]
        = [fd \in DOMAIN k.fds |-> [kind |-> k.fds[fd].kind, body |-> k.fds[fd].body]]
    BY <1>3, <1>4 DEF EntrySnapshot
  <1>6. build_kernel_snapshot' = image'.kernel
    BY Zenon, <1>1, <1>2, <1>5 DEF build_kernel_snapshot, EntrySnapshot, KernelShape
  <1>7. /\ mod' \in Module /\ mem' \in Seq(Nat) /\ disk' = "whole"
        /\ Saved(image', frozen') /\ mem' = Data[mod']
    BY DEF IInv, EntriesDone
  <1> QED  BY Zenon, <1>2, <1>6, <1>7 DEF IInv, RefusedUntouched

\* The pages are copied in over the memory of a fresh instance.
LEMMA MemoryStep ==
  ASSUME IInv, apply_snapshot_to_memory
  PROVE  IInv'
  <1>1. /\ mod \in Module /\ mem \in Seq(Nat) /\ disk = "whole"
        /\ Saved(image, frozen) /\ mem = Data[mod]
        /\ build_kernel_snapshot = image.kernel
    BY Zenon DEF IInv, apply_snapshot_to_memory
  <1>2. UNCHANGED <<mod, disk, image, frozen, table, object, cloexec, next_fd, mm, misc>>
    BY DEF apply_snapshot_to_memory, kernel
  <1>3. build_kernel_snapshot' = image'.kernel
    BY Zenon, <1>1, <1>2 DEF build_kernel_snapshot, EntrySnapshot
  <1>4. CASE phase' = "failed" /\ UNCHANGED mem
    BY <1>1, <1>2, <1>4, Quiet
  <1>5. CASE /\ phase' = "ready"
             /\ \E len \in {Len(mem)} \cup DOMAIN image.pages :
                 /\ \A other \in {Len(mem)} \cup DOMAIN image.pages : other <= len
                 /\ mem' = [i \in 1 .. len |-> IF i \in DOMAIN image.pages
                                               THEN image.pages[i] ELSE Page(mem, i)]
    <2>1. PICK len \in {Len(mem)} \cup DOMAIN image.pages :
                 /\ \A other \in {Len(mem)} \cup DOMAIN image.pages : other <= len
                 /\ mem' = [i \in 1 .. len |-> IF i \in DOMAIN image.pages
                                               THEN image.pages[i] ELSE Page(mem, i)]
      BY <1>5
    <2>2. image.pages = collect_pages(frozen) /\ frozen \in Seq(Nat)
      BY <1>1 DEF Saved
    <2>3. DOMAIN frozen \subseteq Nat /\ DOMAIN collect_pages(frozen) \subseteq DOMAIN frozen
      BY <2>2 DEF collect_pages
    <2>4. len \in Nat
      BY <1>1, <2>2, <2>3
    <2>5. mem' \in Seq(Nat) /\ SameMemory(mem', frozen, mem)
      BY Zenon, <1>1, <2>1, <2>2, <2>4, PagesComeBack
    <2>6. SameMemory(mem', frozen', Data[mod'])
      BY <1>1, <1>2, <2>5
    <2> QED  BY Zenon, <1>1, <1>2, <1>3, <1>5, <2>5, <2>6 DEF IInv, RefusedUntouched
  <1> QED  BY <1>4, <1>5 DEF apply_snapshot_to_memory

\* The guest's calls change no file and keep memory a sequence of pages.
LEMMA GuestStep ==
  ASSUME IInv, GuestCall
  PROVE  IInv'
  <1> USE DEF Guest, OnlyFds
  <1>1. phase' = "running" /\ mod' = mod /\ UNCHANGED <<disk, image, frozen>>
    BY Zenon DEF GuestCall, Open, Pipe2, Dup, Close, SetCloexec, Advance, Drain, EpollCtl,
           Store, Mmap, SetField
  <1>2. mem' \in Seq(Nat)
    <2>1. mem \in Seq(Nat)
      BY DEF IInv
    <2>2. ASSUME NEW i \in DOMAIN mem, NEW v \in 0 .. 1, Store(i, v)
          PROVE  mem' \in Seq(Nat)
      BY <2>1, <2>2 DEF Store
    <2>3. CASE Mmap
      BY <2>1, <2>3 DEF Mmap
    <2>4. CASE UNCHANGED mem
      BY <2>1, <2>4
    <2> QED
      BY Zenon, <2>2, <2>3, <2>4 DEF GuestCall, Open, Pipe2, Dup, Close, SetCloexec, Advance,
                              Drain, EpollCtl, SetField
  <1> QED  BY <1>1, <1>2, Quiet DEF IInv

\* Every step of a guest, of freeze and of serve keeps the invariant.
LEMMA NextPreserves == IInv /\ [Next]_vars => IInv'
  <1> SUFFICES ASSUME IInv, [Next]_vars
               PROVE  IInv'
    OBVIOUS
  <1>1. ASSUME NEW m \in Module, Boot(m)
        PROVE  IInv'
    <2>1. /\ mod' \in Module /\ mem' \in Seq(Nat) /\ phase' = "running"
          /\ UNCHANGED <<disk, image, frozen>>
      BY <1>1, SnapshotAssumption DEF Boot
    <2> QED  BY <2>1, Quiet DEF IInv
  <1>2. ASSUME NEW m \in Module, serve_loop(m)
        PROVE  IInv'
    BY <1>2, ServeStep
  <1>3. CASE GuestCall
    BY <1>3, GuestStep
  <1>4. ASSUME NEW v \in Version, snapshot_syscall(v)
        PROVE  IInv'
    <2>1. disk' = "whole" => Saved(image', frozen')
      BY <1>4, WriteSaves DEF snapshot_syscall
    <2> QED  BY <1>4, <2>1, Quiet DEF snapshot_syscall, IInv
  <1>5. ASSUME NEW v \in Version, freeze_snapshot(v)
        PROVE  IInv'
    <2>1. disk' = "whole" => Saved(image', frozen')
      BY <1>5, WriteSaves DEF freeze_snapshot
    <2>2. mem' \in Seq(Nat) /\ phase' = "down" /\ mod' = mod
      BY <1>5 DEF freeze_snapshot, Gone
    <2> QED  BY <2>1, <2>2, Quiet DEF IInv
  <1>6. CASE Exit
    <2>1. /\ mem' \in Seq(Nat) /\ phase' = "down" /\ mod' = mod
          /\ UNCHANGED <<disk, image, frozen>>
      BY <1>6 DEF Exit, Gone
    <2> QED  BY <2>1, Quiet DEF IInv
  <1>7. CASE HostFile
    BY Zenon, <1>7 DEF HostFile, kernel, IInv, RefusedUntouched, build_kernel_snapshot, EntrySnapshot
  <1>8. CASE ApplyEntry
    BY <1>8, EntryStep
  <1>9. CASE EntriesDone
    BY <1>9, DoneStep
  <1>10. CASE apply_snapshot_to_memory
    BY <1>10, MemoryStep
  <1>11. CASE CallStart
    BY <1>11, Quiet DEF CallStart, IInv
  <1>12. CASE UNCHANGED vars
    BY Zenon, <1>12 DEF vars, kernel, IInv, RefusedUntouched, build_kernel_snapshot, EntrySnapshot
  <1> QED
    BY <1>1, <1>2, <1>3, <1>4, <1>5, <1>6, <1>7, <1>8, <1>9, <1>10, <1>11, <1>12 DEF Next

\* freeze and serve keep the kernel: whatever the guest opened, shared or closed,
\* a guest that starts again has the state that build_kernel_snapshot saved.
THEOREM FreezeServe == Spec => []RoundTrip
  <1>1. IInv => RoundTrip
    BY DEF IInv, RoundTrip
  <1> QED  BY <1>1, InitEstablishes, NextPreserves, PTL DEF Spec

\* collect_pages and apply_snapshot_to_memory keep memory, up to zero pages at its
\* end, for every module and memory in which no page of data was zeroed.
THEOREM MemoryKept == Spec => []MemoryRestored
  <1>1. IInv => MemoryRestored
    BY Zenon DEF IInv, MemoryRestored, SameMemory
  <1> QED  BY <1>1, InitEstablishes, NextPreserves, PTL DEF Spec

\* An image of another module or another version is refused before any of it is
\* applied (verify_module_hash, apply_snapshot_kernel_state).
THEOREM RefusalIsClean == Spec => []RefusedUntouched
  <1>1. IInv => RefusedUntouched
    BY DEF IInv
  <1> QED  BY <1>1, InitEstablishes, NextPreserves, PTL DEF Spec
=============================================================================
