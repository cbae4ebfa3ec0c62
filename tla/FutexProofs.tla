---------------------------- MODULE FutexProofs ----------------------------
(***************************************************************************)
(* For any number of threads and addresses: the waiter counters never      *)
(* exceed the threads inside futex_wait (plus what a restore carried       *)
(* over), the table holds no entry for an address nobody waits on, and no  *)
(* more waits return 0 than wakes have reported.                           *)
(***************************************************************************)
EXTENDS Futex, FiniteSetTheorems, TLAPS

\* NoOvercount is inductive together with the types; NoEmptyEntry is what
\* turns "counts at most nobody" into "has no entry" for TableDrains.
Inv == TypeOK /\ NoEmptyEntry /\ NoOvercount

\* The range of call.
Calls == {Idle} \cup WaitCall \cup WakeCall

\* A thread's call record is the one its pc says.
LEMMA CallShape ==
    ASSUME NEW c \in Calls
    PROVE  /\ c.pc \in InWait => c \in WaitCall
           /\ c.pc = "notifying" => c \in WakeCall
           /\ c.pc = "idle" => c = Idle
           /\ c = Idle => c.pc = "idle" /\ c.pc \notin InWait
           /\ c \in WakeCall => c.pc \notin InWait
BY DEF Calls, Idle, WaitCall, WakeCall, InWait

\* Being inside futex_wait on a, as a property of one call record.
On(c, a) == c.pc \in InWait /\ c.uaddr = a

\* Inside(a) is a finite set, so its cardinality is a number.
LEMMA InsideFinite ==
    ASSUME NEW a
    PROVE  IsFiniteSet(Inside(a)) /\ Cardinality(Inside(a)) \in Nat
BY FutexAssumption, FS_Subset, FS_CardinalityType DEF Inside

\* A step that leaves every thread where it is, as far as Inside goes.
LEMMA InsideSame ==
    ASSUME NEW a, \A t \in Thread : On(call'[t], a) <=> On(call[t], a)
    PROVE  Inside(a)' = Inside(a)
BY DEF Inside, On

\* notify_one moves one thread from the list of waiters within futex_wait, on
\* top of base; it takes nobody in or out.
LEMMA NotifyOneFacts ==
    ASSUME TypeOK, NEW n \in Notify, NEW base \in [Thread -> Calls],
           \A t \in Queued(n) : base[t] = call[t],
           notify_one(n, base)
    PROVE  /\ call' \in [Thread -> Calls]
           /\ permit' \in [Notify -> BOOLEAN]
           /\ \A t \in Thread, a \in Addr : On(call'[t], a) <=> On(base[t], a)
<1>1. CASE Queued(n) = {}
  BY Zenon, <1>1 DEF notify_one, TypeOK
<1>2. CASE Queued(n) /= {}
  <2>1. PICK q \in Queued(n) :
          /\ call' = [base EXCEPT ![q].pc = IF @ = "parked" THEN "woken" ELSE "forwarding"]
          /\ permit' = permit
    BY <1>2 DEF notify_one
  <2>2. q \in Thread /\ base[q] = call[q] /\ base[q].pc \in {"parked", "expiring"}
    BY DEF Queued
  <2>3. base[q] \in WaitCall
    BY <2>2, CallShape DEF InWait, TypeOK, Calls
  <2>4. call'[q] \in WaitCall /\ call'[q].uaddr = base[q].uaddr
    BY <2>1, <2>2, <2>3 DEF WaitCall, InWait
  <2>5. \A t \in Thread : t /= q => call'[t] = base[t]
    BY <2>1
  <2>6. call' \in [Thread -> Calls]
    BY Zenon, <2>1, <2>4, <2>5 DEF Calls
  <2>7. \A t \in Thread, a \in Addr : On(call'[t], a) <=> On(base[t], a)
    BY <2>2, <2>3, <2>4, <2>5 DEF On, WaitCall
  <2> QED
    BY <2>1, <2>6, <2>7 DEF TypeOK
<1> QED
  BY <1>1, <1>2

\* A step that leaves the table and Inside alone keeps the invariant.
LEMMA QuietStep ==
    ASSUME Inv, call' \in [Thread -> Calls], permit' \in [Notify -> BOOLEAN],
           \A t \in Thread, a \in Addr : On(call'[t], a) <=> On(call[t], a),
           UNCHANGED <<by_addr, phantom, reported, returned>>
    PROVE  Inv'
<1>1. TypeOK'
  BY DEF Inv, TypeOK, Calls
<1>2. \A a \in Addr : Inside(a)' = Inside(a)
  BY InsideSame
<1> QED
  BY <1>1, <1>2 DEF Inv, TypeOK, NoEmptyEntry, NoOvercount

\* A step that changes the table at address a only, and Inside nowhere else.
LEMMA TableStep ==
    ASSUME Inv, TypeOK', NEW a \in Addr, phantom' = phantom,
           \A b \in DOMAIN by_addr' : b /= a => b \in DOMAIN by_addr /\ by_addr'[b] = by_addr[b],
           \A b \in Addr : b /= a => Inside(b)' = Inside(b),
           a \in DOMAIN by_addr' =>
               /\ by_addr'[a].waiters >= 1
               /\ by_addr'[a].waiters <= Cardinality(Inside(a)') + phantom[a]
    PROVE  Inv'
<1>1. NoEmptyEntry'
  BY DEF Inv, NoEmptyEntry
<1>2. NoOvercount'
  BY DEF Inv, TypeOK, NoOvercount
<1> QED
  BY <1>1, <1>2 DEF Inv

\* The empty table satisfies the invariant.
LEMMA InitInv == Init => Inv
BY DEF Init, Inv, TypeOK, NoEmptyEntry, NoOvercount, EmptyMap

\* FUTEX_WAIT's registration: counter and Inside grow by one.
LEMMA FutexWaitInv ==
    ASSUME Inv, NEW t \in Thread, NEW a \in Addr, NEW timed \in BOOLEAN,
           FutexWait(t, a, timed)
    PROVE  Inv'
<1> DEFINE old == IF a \in DOMAIN by_addr THEN by_addr[a].waiters ELSE 0
<1>1. PICK n \in Notify :
        /\ permit' \in [Notify -> BOOLEAN]
        /\ by_addr' = Put(by_addr, a, [notify |-> n, waiters |-> old + 1])
        /\ call' = [call EXCEPT ![t] = [pc |-> "registered", uaddr |-> a,
                                        notify |-> n, timed |-> timed]]
  BY Zenon DEF FutexWait, Inv, TypeOK
<1>2. call[t] = Idle /\ UNCHANGED <<phantom, reported, returned>>
  BY DEF FutexWait
<1>3. old \in Nat /\ old <= Cardinality(Inside(a)) + phantom[a]
  BY InsideFinite DEF Inv, TypeOK, NoOvercount
<1> HIDE DEF old
<1>4. TypeOK'
  <2>1. DOMAIN by_addr' \subseteq Addr
    BY <1>1 DEF Put, Inv, TypeOK
  <2>2. by_addr' \in [DOMAIN by_addr' -> [notify : Notify, waiters : Nat]]
    BY <1>1, <1>3 DEF Put, Inv, TypeOK
  <2>3. call' \in [Thread -> Calls]
    BY <1>1 DEF Inv, TypeOK, Calls, WaitCall, InWait
  <2> QED
    BY <1>1, <1>2, <2>1, <2>2, <2>3 DEF Inv, TypeOK, Calls
<1>5. t \notin Inside(a) /\ Inside(a)' = Inside(a) \cup {t}
  BY <1>1, <1>2 DEF Inside, Idle, InWait, Inv, TypeOK
<1>6. Cardinality(Inside(a)') = Cardinality(Inside(a)) + 1
  BY Zenon, <1>5, InsideFinite, FS_AddElement
<1>7. \A b \in Addr : b /= a => Inside(b)' = Inside(b)
  BY <1>1, <1>2 DEF Inside, Idle, InWait, Inv, TypeOK
<1>8. by_addr'[a].waiters = old + 1
  BY <1>1 DEF Put
<1>9. \A b \in DOMAIN by_addr' : b /= a => b \in DOMAIN by_addr /\ by_addr'[b] = by_addr[b]
  BY <1>1 DEF Put
<1>10. phantom[a] \in Nat /\ Cardinality(Inside(a)) \in Nat
  BY InsideFinite DEF Inv, TypeOK
<1> QED
  BY <1>2, <1>3, <1>4, <1>6, <1>7, <1>8, <1>9, <1>10, TableStep

\* Leaving futex_wait: Inside shrinks by one, and so does the counter unless
\* the entry is gone; a younger entry's counter may shrink too, which is safe.
LEMMA ReturnInv ==
    ASSUME Inv, NEW t \in Thread, Return(t)
    PROVE  Inv'
<1>0. call[t] \in WaitCall /\ call[t].pc \in InWait
  BY CallShape DEF Return, Inv, TypeOK, Calls, InWait
<1>1. PICK a \in Addr : a = call[t].uaddr
  BY <1>0 DEF WaitCall
<1>2. by_addr' = Released(a) /\ call' = [call EXCEPT ![t] = Idle]
  BY <1>1 DEF Return
<1>3. t \in Inside(a) /\ Inside(a)' = Inside(a) \ {t}
  BY <1>0, <1>1, <1>2 DEF Inside, Idle, InWait, Inv, TypeOK
<1>4. \A b \in Addr : b /= a => Inside(b)' = Inside(b)
  BY <1>1, <1>2 DEF Inside, Idle, InWait, Inv, TypeOK
<1>5. UNCHANGED <<permit, phantom, reported>> /\ returned' \in Nat
  BY DEF Return, Inv, TypeOK
<1>6. call' \in [Thread -> Calls]
  BY <1>2 DEF Inv, TypeOK, Calls
<1>7. Cardinality(Inside(a)') = Cardinality(Inside(a)) - 1
  BY ZenonT(30), <1>3, InsideFinite, FS_RemoveElement
<1>8. phantom[a] \in Nat /\ Cardinality(Inside(a)) \in Nat
  BY <1>1, InsideFinite DEF Inv, TypeOK
<1>9. CASE a \notin DOMAIN by_addr
  <2>1. by_addr' = by_addr
    BY <1>2, <1>9 DEF Released
  <2>2. TypeOK'
    BY <1>5, <1>6, <2>1 DEF Inv, TypeOK, Calls
  <2> QED
    BY <1>1, <1>4, <1>5, <1>9, <2>1, <2>2, TableStep
<1>10. CASE a \in DOMAIN by_addr /\ by_addr[a].waiters <= 1
  <2>1. by_addr' = Del(by_addr, a)
    BY <1>2, <1>10 DEF Released
  <2>2. DOMAIN by_addr' = DOMAIN by_addr \ {a}
    BY <2>1 DEF Del
  <2>3. by_addr' \in [DOMAIN by_addr' -> [notify : Notify, waiters : Nat]]
    BY <2>1 DEF Del, Inv, TypeOK
  <2>4. TypeOK'
    BY <1>5, <1>6, <2>2, <2>3 DEF Inv, TypeOK, Calls
  <2>5. \A b \in DOMAIN by_addr' : b \in DOMAIN by_addr /\ by_addr'[b] = by_addr[b]
    BY <2>1 DEF Del
  <2> QED
    BY <1>1, <1>4, <1>5, <2>2, <2>4, <2>5, TableStep
<1>11. CASE a \in DOMAIN by_addr /\ ~(by_addr[a].waiters <= 1)
  <2>1. by_addr' = [by_addr EXCEPT ![a].waiters = @ - 1]
    BY <1>2, <1>11 DEF Released
  <2>2. by_addr[a] \in [notify : Notify, waiters : Nat]
    BY <1>11 DEF Inv, TypeOK
  <2>3. DOMAIN by_addr' = DOMAIN by_addr
    BY <2>1
  <2>4. by_addr'[a] \in [notify : Notify, waiters : Nat]
        /\ by_addr'[a].waiters = by_addr[a].waiters - 1
    BY <1>11, <2>1, <2>2 DEF Inv, TypeOK
  <2>5. \A b \in DOMAIN by_addr' : b /= a => b \in DOMAIN by_addr /\ by_addr'[b] = by_addr[b]
    BY <2>1
  <2>6. by_addr' \in [DOMAIN by_addr' -> [notify : Notify, waiters : Nat]]
    BY <2>1, <2>3, <2>4, <2>5 DEF Inv, TypeOK
  <2>7. TypeOK'
    BY <1>5, <1>6, <2>3, <2>6 DEF Inv, TypeOK, Calls
  <2>8. by_addr[a].waiters <= Cardinality(Inside(a)) + phantom[a]
    BY <1>11 DEF Inv, NoOvercount
  <2>9. by_addr'[a].waiters >= 1
        /\ by_addr'[a].waiters <= Cardinality(Inside(a)') + phantom[a]
    BY <1>7, <1>8, <1>11, <2>2, <2>4, <2>8
  <2> QED
    BY <1>1, <1>4, <1>5, <2>5, <2>7, <2>9, TableStep
<1> QED
  BY <1>9, <1>10, <1>11

\* FUTEX_WAKE under the lock: the counter shrinks, Inside does not.
LEMMA FutexWakeInv ==
    ASSUME Inv, NEW t \in Thread, NEW a \in Addr, NEW val \in WakeVal,
           FutexWake(t, a, val)
    PROVE  Inv'
<1> DEFINE w == by_addr[a].waiters
           k == ToWake(val, w)
<1>1. a \in DOMAIN by_addr /\ by_addr[a] \in [notify : Notify, waiters : Nat]
  BY DEF FutexWake, Inv, TypeOK
<1>2. k \in Nat /\ k <= w /\ w \in Nat
  BY <1>1, FutexAssumption DEF ToWake
<1>3. UNCHANGED <<permit, phantom, returned>> /\ reported' \in Nat /\ call[t] = Idle
  BY <1>2 DEF FutexWake, Inv, TypeOK
<1>4. by_addr' = IF w - k = 0 THEN Del(by_addr, a) ELSE [by_addr EXCEPT ![a].waiters = @ - k]
  BY DEF FutexWake
<1>5. call' = IF k = 0 THEN call
              ELSE [call EXCEPT ![t] = [pc |-> "notifying", notify |-> by_addr[a].notify,
                                        left |-> k]]
  BY DEF FutexWake
<1> HIDE DEF w, k
<1>6. call' \in [Thread -> Calls]
  BY <1>1, <1>2, <1>5 DEF Inv, TypeOK, Calls, WakeCall
<1>7. \A b \in Addr : Inside(b)' = Inside(b)
  BY <1>3, <1>5 DEF Inside, Idle, InWait, Inv, TypeOK
<1>8. CASE w - k = 0
  <2>1. by_addr' = Del(by_addr, a)
    BY <1>4, <1>8
  <2>2. DOMAIN by_addr' = DOMAIN by_addr \ {a}
    BY <2>1 DEF Del
  <2>3. by_addr' \in [DOMAIN by_addr' -> [notify : Notify, waiters : Nat]]
    BY <2>1 DEF Del, Inv, TypeOK
  <2>4. TypeOK'
    BY <1>3, <1>6, <2>2, <2>3 DEF Inv, TypeOK, Calls
  <2>5. \A b \in DOMAIN by_addr' : b \in DOMAIN by_addr /\ by_addr'[b] = by_addr[b]
    BY <2>1 DEF Del
  <2> QED
    BY <1>3, <1>7, <2>2, <2>4, <2>5, TableStep
<1>9. CASE w - k /= 0
  <2>1. by_addr' = [by_addr EXCEPT ![a].waiters = @ - k]
    BY <1>4, <1>9
  <2>2. by_addr'[a] \in [notify : Notify, waiters : Nat]
        /\ by_addr'[a].waiters = w - k
    BY <1>1, <1>2, <2>1 DEF w, Inv, TypeOK
  <2>3. \A b \in DOMAIN by_addr' : b /= a => b \in DOMAIN by_addr /\ by_addr'[b] = by_addr[b]
    BY <2>1
  <2>4. DOMAIN by_addr' = DOMAIN by_addr
    BY <2>1
  <2>5. by_addr' \in [DOMAIN by_addr' -> [notify : Notify, waiters : Nat]]
    BY Zenon, <2>1, <2>2, <2>3, <2>4 DEF Inv, TypeOK
  <2>6. TypeOK'
    BY <1>3, <1>6, <2>4, <2>5 DEF Inv, TypeOK, Calls
  <2>7. w <= Cardinality(Inside(a)) + phantom[a]
        /\ phantom[a] \in Nat /\ Cardinality(Inside(a)) \in Nat
    BY <1>1, InsideFinite DEF w, Inv, TypeOK, NoOvercount
  <2>8. by_addr'[a].waiters >= 1
        /\ by_addr'[a].waiters <= Cardinality(Inside(a)') + phantom[a]
    BY <1>2, <1>7, <1>9, <2>2, <2>7
  <2> QED
    BY <1>3, <1>7, <2>3, <2>6, <2>8, TableStep
<1> QED
  BY <1>8, <1>9

\* A restore: nobody is inside, and every counter is accounted for as carried
\* over.
LEMMA FreezeRestoreInv ==
    ASSUME Inv, FreezeRestore
    PROVE  Inv'
<1>1. PICK new \in [DOMAIN by_addr -> Notify] :
        by_addr' = [a \in DOMAIN by_addr |->
                      [notify |-> new[a], waiters |-> by_addr[a].waiters]]
  BY DEF FreezeRestore
<1>2. /\ DOMAIN by_addr' = DOMAIN by_addr
      /\ \A a \in DOMAIN by_addr : by_addr'[a].waiters = by_addr[a].waiters
      /\ \A a \in DOMAIN by_addr : phantom'[a] = by_addr[a].waiters
  BY <1>1 DEF FreezeRestore, Inv, TypeOK
<1>3. TypeOK'
  BY <1>1 DEF FreezeRestore, Inv, TypeOK
<1>4. \A a \in Addr : Cardinality(Inside(a)') \in Nat
  BY FutexAssumption, FS_Subset, FS_CardinalityType DEF Inside
<1>5. NoOvercount'
  BY <1>2, <1>3, <1>4 DEF NoOvercount, Inv, TypeOK
<1> QED
  BY <1>2, <1>3, <1>5 DEF Inv, NoEmptyEntry

\* Every step preserves the invariant.
LEMMA StepInv ==
    ASSUME Inv, [Next]_vars
    PROVE  Inv'
<1>c. call \in [Thread -> Calls] /\ permit \in [Notify -> BOOLEAN] /\ TypeOK
  BY DEF Inv, TypeOK, Calls
<1>1. ASSUME NEW t \in Thread, Poll(t) PROVE Inv'
  <2>1. call[t] \in WaitCall
    BY <1>1, <1>c, CallShape DEF Poll, InWait
  <2>2. \E s \in InWait : call' = Goto(t, s)
    BY <1>1 DEF Poll, InWait
  <2>3. call' \in [Thread -> Calls]
        /\ \A u \in Thread, a \in Addr : On(call'[u], a) <=> On(call[u], a)
    BY <2>1, <2>2, <1>c DEF Goto, Calls, WaitCall, On
  <2>4. permit' \in [Notify -> BOOLEAN]
    BY Zenon, <1>1, <1>c DEF Poll
  <2> QED
    BY <1>1, <2>3, <2>4, QuietStep DEF Poll
<1>2. ASSUME NEW t \in Thread, Expire(t) PROVE Inv'
  <2>1. call[t] \in WaitCall
    BY <1>2, <1>c, CallShape DEF Expire, InWait
  <2>2. call' \in [Thread -> Calls]
        /\ \A u \in Thread, a \in Addr : On(call'[u], a) <=> On(call[u], a)
    BY <1>2, <2>1, <1>c DEF Expire, Goto, Calls, WaitCall, On, InWait
  <2> QED
    BY <1>2, <1>c, <2>2, QuietStep DEF Expire
<1>3. ASSUME NEW t \in Thread, DropNotified(t) PROVE Inv'
  <2> DEFINE base == Goto(t, "expired")
  <2>1. call[t] \in WaitCall
    BY <1>3, <1>c, CallShape DEF DropNotified, InWait
  <2>2. base \in [Thread -> Calls]
        /\ \A u \in Thread, a \in Addr : On(base[u], a) <=> On(call[u], a)
    BY <2>1, <1>c DEF Goto, Calls, WaitCall, On, InWait
  <2>3. \A u \in Thread : u /= t => base[u] = call[u]
    BY <1>c DEF Goto
  <2>4. CASE call[t].pc = "expiring"
    <3>1. call' = base /\ permit' = permit
      BY <1>3, <2>4 DEF DropNotified
    <3> QED
      BY <1>3, <1>c, <2>2, <3>1, QuietStep DEF DropNotified
  <2>5. CASE call[t].pc = "forwarding"
    <3>1. notify_one(call[t].notify, base)
      BY <1>3, <2>5 DEF DropNotified
    <3>2. \A u \in Queued(call[t].notify) : base[u] = call[u]
      BY <2>3, <2>5 DEF Queued
    <3>3. call[t].notify \in Notify
      BY <2>1 DEF WaitCall
    <3> HIDE DEF base
    <3>4. call' \in [Thread -> Calls] /\ permit' \in [Notify -> BOOLEAN]
          /\ \A u \in Thread, a \in Addr : On(call'[u], a) <=> On(base[u], a)
      BY <1>c, <2>2, <3>1, <3>2, <3>3, NotifyOneFacts
    <3> QED
      BY <1>3, <2>2, <3>4, QuietStep DEF DropNotified
  <2> QED
    BY <1>3, <2>4, <2>5 DEF DropNotified
<1>4. ASSUME NEW t \in Thread, NotifyIteration(t) PROVE Inv'
  <2> DEFINE base == IF call[t].left = 1 THEN [call EXCEPT ![t] = Idle]
                                         ELSE [call EXCEPT ![t].left = @ - 1]
  <2>1. call[t] \in WakeCall /\ call[t].pc = "notifying"
    BY <1>4, <1>c, CallShape DEF NotifyIteration
  <2>2. \A u \in Thread : u /= t => base[u] = call[u]
    BY <1>c
  <2>3. base[t] \in {Idle} \cup WakeCall
    BY <2>1, <1>c DEF WakeCall
  <2>4. base \in [Thread -> Calls]
    BY <2>2, <2>3, <1>c DEF Calls
  <2>5. notify_one(call[t].notify, base) /\ UNCHANGED <<by_addr, phantom, reported, returned>>
    BY <1>4 DEF NotifyIteration
  <2> HIDE DEF base
  <2>6. base[t].pc \notin InWait /\ call[t].pc \notin InWait
    BY <2>1, <2>3, <2>4, CallShape DEF InWait, Calls
  <2>7. \A u \in Thread, a \in Addr : On(base[u], a) <=> On(call[u], a)
    BY <2>2, <2>6 DEF On
  <2>8. \A u \in Queued(call[t].notify) : base[u] = call[u]
    BY <2>1, <2>2 DEF Queued
  <2>9. call[t].notify \in Notify
    BY <2>1 DEF WakeCall
  <2>10. call' \in [Thread -> Calls] /\ permit' \in [Notify -> BOOLEAN]
         /\ \A u \in Thread, a \in Addr : On(call'[u], a) <=> On(base[u], a)
    BY <1>c, <2>4, <2>5, <2>8, <2>9, NotifyOneFacts
  <2> QED
    BY <2>5, <2>7, <2>10, QuietStep
<1>5. CASE UNCHANGED vars
  <2>1. call' = call /\ permit' = permit
    BY <1>5 DEF vars
  <2> QED
    BY <1>5, <1>c, <2>1, QuietStep DEF vars
<1> QED
  BY <1>1, <1>2, <1>3, <1>4, <1>5, FutexWaitInv, ReturnInv, FutexWakeInv,
     FreezeRestoreInv, FutexAssumption DEF Next, Step, Call

\* The counters of the shared futex table never promise more waiters than
\* there are, and an address nobody waits on has no entry.
THEOREM FutexTableSafe == Spec => [](TypeOK /\ NoOvercount /\ TableDrains)
<1>1. Inv /\ [Next]_vars => Inv'
  BY StepInv
<1>2. ASSUME Inv PROVE TypeOK /\ NoOvercount /\ TableDrains
  <2>1. ASSUME NEW a \in Addr, Inside(a) = {}, phantom[a] = 0, a \in DOMAIN by_addr
        PROVE  FALSE
    <3>1. Cardinality(Inside(a)) = 0
      BY <2>1, FS_EmptySet
    <3>2. by_addr[a].waiters <= 0 + 0
      BY <1>2, <2>1, <3>1 DEF Inv, NoOvercount
    <3>3. by_addr[a].waiters >= 1 /\ by_addr[a].waiters \in Nat
      BY <1>2, <2>1 DEF Inv, NoEmptyEntry, TypeOK
    <3> QED
      BY <3>2, <3>3
  <2> QED
    BY <1>2, <2>1 DEF Inv, TableDrains
<1>3. Inv => TypeOK /\ NoOvercount /\ TableDrains
  BY <1>2
<1> QED
  BY InitInv, <1>1, <1>3, PTL DEF Spec

(***************************************************************************)
(* Every FUTEX_WAIT that returns 0 is paid for by a FUTEX_WAKE.  A wake is *)
(* a token: it starts as an iteration some FUTEX_WAKE has left to do, is   *)
(* then a permit or a waiter taken off the list, and is spent when the     *)
(* waiter returns.  A step moves a token or loses one, and only FUTEX_WAKE *)
(* makes any, as many as it reports.                                       *)
(***************************************************************************)

\* The threads that hold a notification.
Due == {"woken", "forwarding"}
Woken(c) == { t \in Thread : c[t].pc \in Due }

\* The permits stored, and the notify_one calls still to be made.
Permits(p) == { n \in Notify : p[n] }
Left(c) == { q \in Thread \X (Nat \ {0}) :
               c[q[1]].pc = "notifying" /\ q[2] <= c[q[1]].left }

\* The inductive strengthening of NoSpuriousReturn.
Accounted ==
    /\ IsFiniteSet(Permits(permit)) /\ IsFiniteSet(Left(call))
    /\ returned + Cardinality(Woken(call)) + Cardinality(Permits(permit))
         + Cardinality(Left(call)) <= reported

\* The cardinalities are numbers.
LEMMA WokenFinite ==
    ASSUME NEW c
    PROVE  IsFiniteSet(Woken(c)) /\ Cardinality(Woken(c)) \in Nat
BY FutexAssumption, FS_Subset, FS_CardinalityType DEF Woken

\* A permit more, or one less.
LEMMA StoreTake ==
    ASSUME NEW p \in [Notify -> BOOLEAN], NEW n \in Notify
    PROVE  /\ Permits([p EXCEPT ![n] = TRUE]) = Permits(p) \cup {n}
           /\ Permits([p EXCEPT ![n] = FALSE]) = Permits(p) \ {n}
BY DEF Permits

\* What moving one thread between calls other than FUTEX_WAKE does.
OnlyAt(c, e, t) == \A u \in Thread : u /= t => e[u] = c[u]
Moves(c, e, t) ==
    /\ Left(e) = Left(c)
    /\ e[t].pc \in Due => Woken(e) = Woken(c) \cup {t}
    /\ e[t].pc \notin Due => Woken(e) = Woken(c) \ {t}

\* A thread that moves outside notify changes no set of the accounting but by itself.
LEMMA ThreadMoves ==
    ASSUME NEW c, NEW e, NEW t \in Thread, OnlyAt(c, e, t),
           c[t].pc /= "notifying", e[t].pc /= "notifying"
    PROVE  Moves(c, e, t)
<1>1. Left(e) = Left(c)
  BY DEF Left, OnlyAt
<1> QED
  BY <1>1 DEF Woken, OnlyAt, Moves

\* Adding a member to a finite set, and taking one away.
LEMMA CardAdd ==
    ASSUME NEW S, NEW x, IsFiniteSet(S)
    PROVE  /\ IsFiniteSet(S \cup {x})
           /\ Cardinality(S) \in Nat /\ Cardinality(S \cup {x}) \in Nat
           /\ Cardinality(S \cup {x}) <= Cardinality(S) + 1
BY FS_AddElement, FS_CardinalityType

\* Removing one element of a finite set costs it one, if it was there.
LEMMA CardRemove ==
    ASSUME NEW S, NEW x, IsFiniteSet(S)
    PROVE  /\ IsFiniteSet(S \ {x})
           /\ Cardinality(S) \in Nat /\ Cardinality(S \ {x}) \in Nat
           /\ Cardinality(S \ {x}) <= Cardinality(S)
           /\ x \in S => Cardinality(S \ {x}) = Cardinality(S) - 1
<1>1. /\ IsFiniteSet(S \ {x})
      /\ Cardinality(S \ {x}) = IF x \in S THEN Cardinality(S) - 1 ELSE Cardinality(S)
  BY FS_RemoveElement
<1>2. Cardinality(S) \in Nat /\ Cardinality(S \ {x}) \in Nat
  BY <1>1, FS_CardinalityType
<1> QED
  BY <1>1, <1>2

\* The same for Goto, which keeps the rest of the record.
LEMMA GotoMoves ==
    ASSUME call \in [Thread -> Calls], NEW t \in Thread, call[t] \in WaitCall,
           NEW s \in InWait
    PROVE  /\ Goto(t, s) \in [Thread -> Calls]
           /\ Left(Goto(t, s)) = Left(call)
           /\ s \in Due => Woken(Goto(t, s)) = Woken(call) \cup {t}
           /\ s \notin Due => Woken(Goto(t, s)) = Woken(call) \ {t}
<1> DEFINE d == [call[t] EXCEPT !.pc = s]
<1>1. d \in WaitCall /\ d.pc = s /\ s /= "notifying" /\ call[t].pc /= "notifying"
  BY DEF WaitCall, InWait
<1>2. Goto(t, s)[t] = d /\ OnlyAt(call, Goto(t, s), t)
  BY DEF Goto, OnlyAt
<1>3. d \in Calls
  BY <1>1 DEF Calls
<1>4. Goto(t, s) \in [Thread -> Calls]
  BY <1>3 DEF Goto
<1> HIDE DEF d
<1>5. Goto(t, s)[t].pc = s
  BY <1>1, <1>2
<1>6. Goto(t, s)[t].pc /= "notifying"
  BY <1>1, <1>5
<1> QED
  BY <1>1, <1>2, <1>4, <1>5, <1>6, ThreadMoves DEF Moves

\* notify_one adds one token at most, and none when the permit was there.
LEMMA NotifyOneTokens ==
    ASSUME TypeOK, NEW n \in Notify, NEW base \in [Thread -> Calls],
           \A t \in Queued(n) : base[t] = call[t],
           IsFiniteSet(Permits(permit)), notify_one(n, base)
    PROVE  /\ Left(call') = Left(base)
           /\ IsFiniteSet(Permits(permit'))
           /\ Cardinality(Woken(call')) + Cardinality(Permits(permit'))
                <= Cardinality(Woken(base)) + Cardinality(Permits(permit)) + 1
<1>0. permit \in [Notify -> BOOLEAN]
  BY DEF TypeOK
<1>1. CASE Queued(n) = {}
  <2>1. call' = base /\ Permits(permit') = Permits(permit) \cup {n}
    BY Zenon, <1>0, <1>1, StoreTake DEF notify_one
  <2>2. /\ IsFiniteSet(Permits(permit'))
        /\ Cardinality(Permits(permit')) <= Cardinality(Permits(permit)) + 1
        /\ Cardinality(Permits(permit')) \in Nat /\ Cardinality(Permits(permit)) \in Nat
    BY Zenon, <2>1, CardAdd
  <2> QED
    BY <2>1, <2>2, WokenFinite
<1>2. CASE Queued(n) /= {}
  <2>1. PICK q \in Queued(n) :
          /\ call' = [base EXCEPT ![q].pc = IF @ = "parked" THEN "woken" ELSE "forwarding"]
          /\ permit' = permit
    BY <1>2 DEF notify_one
  <2> DEFINE s == IF base[q].pc = "parked" THEN "woken" ELSE "forwarding"
             d == [base[q] EXCEPT !.pc = s]
  <2>2. q \in Thread /\ base[q].pc \in {"parked", "expiring"} /\ base[q] \in Calls
    BY DEF Queued
  <2>3. base[q] \in WaitCall
    BY <2>2, CallShape DEF InWait
  <2>4. d \in WaitCall /\ d.pc = s /\ s \in Due
    BY <2>3 DEF WaitCall, InWait, Due
  <2>5. call'[q] = d /\ OnlyAt(base, call', q)
    BY <2>1, <2>2 DEF OnlyAt
  <2>6. d \in Calls /\ d.pc \in Due /\ d.pc /= "notifying" /\ base[q].pc /= "notifying"
    BY <2>2, <2>4 DEF Calls, Due
  <2> HIDE DEF d, s
  <2>7. Left(call') = Left(base) /\ Woken(call') = Woken(base) \cup {q}
    BY <2>2, <2>5, <2>6, ThreadMoves DEF Moves
  <2>8. Cardinality(Woken(call')) <= Cardinality(Woken(base)) + 1
    BY Zenon, <2>7, WokenFinite, CardAdd
  <2>9. Cardinality(Permits(permit)) \in Nat
    BY FS_CardinalityType
  <2> QED
    BY <2>1, <2>7, <2>8, <2>9, WokenFinite
<1> QED
  BY <1>1, <1>2

\* The four counts, and their being numbers.
Sum(c, p) == Cardinality(Woken(c)) + Cardinality(Permits(p)) + Cardinality(Left(c))

\* The quantities the accounting adds up are natural numbers, and the sum is bounded by
\* the wakes reported.
LEMMA AccountedNumbers ==
    ASSUME TypeOK, Accounted
    PROVE  /\ Cardinality(Woken(call)) \in Nat /\ Cardinality(Permits(permit)) \in Nat
           /\ Cardinality(Left(call)) \in Nat /\ returned \in Nat /\ reported \in Nat
           /\ IsFiniteSet(Permits(permit)) /\ IsFiniteSet(Left(call))
           /\ returned + Sum(call, permit) <= reported
<1>1. returned \in Nat /\ reported \in Nat
  BY DEF TypeOK
<1>2. /\ Cardinality(Woken(call)) \in Nat /\ Cardinality(Permits(permit)) \in Nat
      /\ Cardinality(Left(call)) \in Nat
  BY WokenFinite, FS_CardinalityType DEF Accounted
<1> QED
  BY <1>1, <1>2 DEF Accounted, Sum

\* A step that spends no more tokens than it makes.
LEMMA Settle ==
    ASSUME TypeOK, Accounted, NEW gained \in Nat,
           IsFiniteSet(Permits(permit')), IsFiniteSet(Left(call')),
           reported' = reported + gained, returned' \in Nat,
           returned' + Sum(call', permit') <= returned + Sum(call, permit) + gained
    PROVE  Accounted'
<1>1. /\ Cardinality(Woken(call')) \in Nat /\ Cardinality(Permits(permit')) \in Nat
      /\ Cardinality(Left(call')) \in Nat
  BY WokenFinite, FS_CardinalityType
<1> QED
  BY <1>1, AccountedNumbers DEF Accounted, Sum

\* FUTEX_WAIT's registration: a new Notify starts without a permit.
LEMMA FutexWaitTokens ==
    ASSUME TypeOK, Accounted, NEW t \in Thread, NEW a \in Addr, NEW timed \in BOOLEAN,
           FutexWait(t, a, timed)
    PROVE  Accounted'
<1>1. PICK n \in Notify :
        /\ permit' = permit \/ permit' = [permit EXCEPT ![n] = FALSE]
        /\ call' = [call EXCEPT ![t] = [pc |-> "registered", uaddr |-> a,
                                        notify |-> n, timed |-> timed]]
  BY Zenon DEF FutexWait
<1>2. call[t] = Idle /\ reported' = reported /\ returned' = returned
  BY DEF FutexWait
<1>3. /\ call[t].pc = "idle" /\ call'[t].pc = "registered" /\ OnlyAt(call, call', t)
  BY <1>1, <1>2 DEF Idle, OnlyAt, TypeOK
<1>4. Left(call') = Left(call) /\ Woken(call') = Woken(call) \ {t}
  BY <1>3, ThreadMoves DEF Moves, Due
<1>5. t \notin Woken(call)
  BY <1>3 DEF Woken, Due
<1>6. Woken(call') = Woken(call)
  BY <1>4, <1>5
<1>7. Permits(permit') = Permits(permit) \/ Permits(permit') = Permits(permit) \ {n}
  BY Zenon, <1>1, StoreTake DEF TypeOK
<1>c. /\ Cardinality(Woken(call)) \in Nat /\ Cardinality(Permits(permit)) \in Nat
      /\ Cardinality(Left(call)) \in Nat /\ returned \in Nat
      /\ IsFiniteSet(Permits(permit))
  BY AccountedNumbers
<1>8. /\ IsFiniteSet(Permits(permit')) /\ Cardinality(Permits(permit')) \in Nat
      /\ Cardinality(Permits(permit')) <= Cardinality(Permits(permit))
  <2>1. CASE Permits(permit') = Permits(permit)
    BY <1>c, <2>1
  <2>2. CASE Permits(permit') = Permits(permit) \ {n}
    BY <1>c, <2>2, CardRemove
  <2> QED
    BY <1>7, <2>1, <2>2
<1>d. /\ Cardinality(Woken(call')) = Cardinality(Woken(call))
      /\ Cardinality(Left(call')) = Cardinality(Left(call))
  BY <1>4, <1>6
<1>9. returned' + Sum(call', permit') <= returned + Sum(call, permit) + 0
  BY <1>2, <1>c, <1>d, <1>8 DEF Sum
<1> QED
  BY <1>2, <1>4, <1>8, <1>9, AccountedNumbers, Settle

\* A thread that holds no notification and gets none moves within futex_wait.
LEMMA WaitMoves ==
    ASSUME TypeOK, Accounted, NEW t \in Thread, call[t] \in WaitCall, t \notin Woken(call),
           NEW s \in InWait \ Due, call' = Goto(t, s),
           permit' = permit, reported' = reported, returned' = returned
    PROVE  Accounted'
<1>1. call \in [Thread -> Calls]
  BY DEF TypeOK, Calls
<1>2. Left(call') = Left(call) /\ Woken(call') = Woken(call) \ {t}
  BY <1>1, GotoMoves
<1>3. Woken(call') = Woken(call)
  BY <1>2
<1>4. Sum(call', permit') = Sum(call, permit)
  BY <1>2, <1>3 DEF Sum
<1> QED
  BY <1>2, <1>3 DEF Accounted

\* The first poll: a permit becomes a woken waiter.
LEMMA PollTokens ==
    ASSUME TypeOK, Accounted, NEW t \in Thread, Poll(t)
    PROVE  Accounted'
<1>0. call \in [Thread -> Calls] /\ permit \in [Notify -> BOOLEAN]
  BY DEF TypeOK, Calls
<1>1. call[t] \in WaitCall /\ call[t].notify \in Notify
  BY <1>0, CallShape DEF Poll, InWait, WaitCall
<1>2. t \notin Woken(call)
  BY DEF Poll, Woken, Due
<1>3. reported' = reported /\ reported = reported + 0 /\ returned' = returned
  BY AccountedNumbers DEF Poll
<1>4. CASE permit[call[t].notify]
  <2>1. call' = Goto(t, "woken")
        /\ permit' = [permit EXCEPT ![call[t].notify] = FALSE]
    BY <1>4 DEF Poll
  <2>2. Left(call') = Left(call) /\ Woken(call') = Woken(call) \cup {t}
    BY <1>0, <1>1, <2>1, GotoMoves DEF InWait, Due
  <2>3. Permits(permit') = Permits(permit) \ {call[t].notify}
        /\ call[t].notify \in Permits(permit)
    BY <1>0, <1>1, <1>4, <2>1, StoreTake DEF Permits
  <2>4. /\ Cardinality(Permits(permit')) = Cardinality(Permits(permit)) - 1
        /\ IsFiniteSet(Permits(permit')) /\ Cardinality(Permits(permit')) \in Nat
    BY Zenon, <2>3, AccountedNumbers, CardRemove
  <2>5. Cardinality(Woken(call')) <= Cardinality(Woken(call)) + 1
        /\ Cardinality(Woken(call')) \in Nat
    BY Zenon, <2>2, WokenFinite, CardAdd
  <2>a. /\ Cardinality(Left(call')) = Cardinality(Left(call))
        /\ Cardinality(Woken(call)) \in Nat /\ Cardinality(Permits(permit)) \in Nat
        /\ Cardinality(Left(call)) \in Nat /\ returned \in Nat
    BY <2>2, AccountedNumbers
  <2>6. returned' + Sum(call', permit') <= returned + Sum(call, permit) + 0
    BY <1>3, <2>4, <2>5, <2>a DEF Sum
  <2> QED
    BY <1>3, <2>2, <2>4, <2>6, AccountedNumbers, Settle
<1>5. CASE ~permit[call[t].notify]
  <2>1. call' = Goto(t, "parked") /\ permit' = permit
    BY <1>5 DEF Poll
  <2> QED
    BY <1>0, <1>1, <1>2, <1>3, <2>1, WaitMoves DEF InWait, Due
<1> QED
  BY <1>4, <1>5

\* A wait that timed out is dropped: a notification it holds is passed on.
LEMMA DropTokens ==
    ASSUME TypeOK, Accounted, NEW t \in Thread, DropNotified(t)
    PROVE  Accounted'
<1> DEFINE base == Goto(t, "expired")
<1>0. call \in [Thread -> Calls]
  BY DEF TypeOK, Calls
<1>1. call[t] \in WaitCall /\ call[t].notify \in Notify
  BY <1>0, CallShape DEF DropNotified, InWait, WaitCall
<1>2. reported' = reported /\ returned' = returned
  BY DEF DropNotified
<1>3. CASE call[t].pc = "expiring"
  <2>1. call' = base /\ permit' = permit /\ t \notin Woken(call)
    BY <1>3 DEF DropNotified, Woken, Due
  <2> QED
    BY <1>1, <1>2, <2>1, WaitMoves DEF InWait, Due
<1>4. CASE call[t].pc = "forwarding"
  <2>1. notify_one(call[t].notify, base) /\ t \in Woken(call)
    BY <1>4 DEF DropNotified, Woken, Due
  <2>2. /\ base \in [Thread -> Calls] /\ Left(base) = Left(call)
        /\ Woken(base) = Woken(call) \ {t}
    BY <1>0, <1>1, GotoMoves DEF InWait, Due
  <2>3. \A u \in Queued(call[t].notify) : base[u] = call[u]
    BY <1>0, <1>4 DEF Queued, Goto
  <2> HIDE DEF base
  <2>c. /\ Cardinality(Woken(call)) \in Nat /\ Cardinality(Permits(permit)) \in Nat
        /\ Cardinality(Left(call)) \in Nat /\ returned \in Nat /\ reported \in Nat
        /\ IsFiniteSet(Permits(permit)) /\ IsFiniteSet(Left(call))
    BY AccountedNumbers
  <2>4. /\ Left(call') = Left(base) /\ IsFiniteSet(Permits(permit'))
        /\ Cardinality(Woken(call')) + Cardinality(Permits(permit'))
             <= Cardinality(Woken(base)) + Cardinality(Permits(permit)) + 1
    BY Zenon, <1>1, <2>1, <2>2, <2>3, <2>c, NotifyOneTokens
  <2>5. Cardinality(Woken(base)) = Cardinality(Woken(call)) - 1
    BY <2>1, <2>2, WokenFinite, CardRemove
  <2>6. /\ Cardinality(Left(call')) = Cardinality(Left(call))
        /\ Cardinality(Woken(call')) \in Nat /\ Cardinality(Permits(permit')) \in Nat
    BY <2>2, <2>4, WokenFinite, FS_CardinalityType
  <2>7. returned' + Sum(call', permit') <= returned + Sum(call, permit) + 0
    BY <1>2, <2>c, <2>4, <2>5, <2>6 DEF Sum
  <2>8. IsFiniteSet(Left(call')) /\ reported' = reported + 0 /\ returned' \in Nat
    BY <1>2, <2>2, <2>4, <2>c
  <2> QED
    BY <2>4, <2>7, <2>8, Settle
<1> QED
  BY <1>3, <1>4 DEF DropNotified

\* FUTEX_WAIT returns: 0 spends the notification that woke it.
LEMMA ReturnTokens ==
    ASSUME TypeOK, Accounted, NEW t \in Thread, Return(t)
    PROVE  Accounted'
<1>1. call \in [Thread -> Calls] /\ call' = [call EXCEPT ![t] = Idle]
  BY DEF TypeOK, Calls, Return
<1>2. call[t].pc \in {"woken", "expired"} /\ call'[t].pc = "idle" /\ OnlyAt(call, call', t)
  BY <1>1 DEF Return, Idle, OnlyAt
<1>3. Left(call') = Left(call) /\ Woken(call') = Woken(call) \ {t}
  BY <1>2, ThreadMoves DEF Moves, Due
<1>4. permit' = permit /\ reported' = reported
  BY DEF Return
<1>c. /\ Cardinality(Woken(call)) \in Nat /\ Cardinality(Permits(permit)) \in Nat
      /\ Cardinality(Left(call)) \in Nat /\ returned \in Nat /\ reported \in Nat
      /\ IsFiniteSet(Permits(permit)) /\ IsFiniteSet(Left(call))
  BY AccountedNumbers
<1>5. CASE call[t].pc = "woken"
  <2>1. returned' = returned + 1 /\ t \in Woken(call)
    BY <1>5 DEF Return, Woken, Due
  <2>2. Cardinality(Woken(call')) = Cardinality(Woken(call)) - 1
        /\ Cardinality(Woken(call')) \in Nat
    BY <1>3, <2>1, WokenFinite, CardRemove
  <2>3. /\ Cardinality(Left(call')) = Cardinality(Left(call))
        /\ Cardinality(Permits(permit')) = Cardinality(Permits(permit))
    BY <1>3, <1>4
  <2>4. returned' + Sum(call', permit') <= returned + Sum(call, permit) + 0
    BY <1>c, <2>1, <2>2, <2>3 DEF Sum
  <2>5. /\ IsFiniteSet(Permits(permit')) /\ IsFiniteSet(Left(call'))
        /\ reported' = reported + 0 /\ returned' \in Nat
    BY <1>3, <1>4, <1>c, <2>1
  <2> QED
    BY <2>4, <2>5, Settle
<1>6. CASE call[t].pc = "expired"
  <2>1. returned' = returned /\ t \notin Woken(call)
    BY <1>6, <1>c DEF Return, Woken, Due
  <2>2. Woken(call') = Woken(call)
    BY <1>3, <2>1
  <2> QED
    BY Zenon, <1>3, <1>4, <2>1, <2>2 DEF Accounted
<1> QED
  BY <1>2, <1>5, <1>6

\* Only FUTEX_WAKE makes tokens: as many iterations as it reports.
LEMMA FutexWakeTokens ==
    ASSUME TypeOK, Accounted, NEW t \in Thread, NEW a \in Addr, NEW val \in WakeVal,
           FutexWake(t, a, val)
    PROVE  Accounted'
<1> DEFINE k == ToWake(val, by_addr[a].waiters)
           mine == {t} \X (1 .. k)
<1>1. by_addr[a].waiters \in Nat
  BY DEF FutexWake, TypeOK
<1>2. k \in Nat
  BY <1>1, FutexAssumption DEF ToWake
<1>3. /\ reported' = reported + k /\ permit' = permit /\ returned' = returned
      /\ call[t] = Idle
  BY DEF FutexWake
<1>4. call' = IF k = 0 THEN call
              ELSE [call EXCEPT ![t] = [pc |-> "notifying", notify |-> by_addr[a].notify,
                                        left |-> k]]
  BY DEF FutexWake
<1> HIDE DEF k
<1>c. /\ Cardinality(Woken(call)) \in Nat /\ Cardinality(Permits(permit)) \in Nat
      /\ Cardinality(Left(call)) \in Nat /\ returned \in Nat /\ reported \in Nat
      /\ IsFiniteSet(Permits(permit)) /\ IsFiniteSet(Left(call))
  BY AccountedNumbers
<1>5. CASE k = 0
  <2>1. call' = call /\ reported' = reported
    BY <1>3, <1>4, <1>5, <1>c
  <2> QED
    BY <1>3, <2>1 DEF Accounted
<1>6. CASE k /= 0
  <2>1. call' = [call EXCEPT ![t] = [pc |-> "notifying", notify |-> by_addr[a].notify,
                                     left |-> k]]
    BY <1>4, <1>6
  <2>2. /\ call'[t].pc = "notifying" /\ call'[t].left = k
        /\ call[t].pc = "idle" /\ OnlyAt(call, call', t)
    BY <1>3, <2>1 DEF TypeOK, OnlyAt, Idle
  <2>3. Woken(call') = Woken(call)
    BY <2>2 DEF Woken, Due, OnlyAt
  <2>4. Left(call') = Left(call) \cup mine
    BY <1>2, <2>2 DEF Left, OnlyAt
  <2>5. Left(call) \cap mine = {}
    BY <2>2 DEF Left
  <2>6. IsFiniteSet(mine) /\ Cardinality(mine) = k
    <3>1. IsFiniteSet(1 .. k) /\ Cardinality(1 .. k) = k
      BY <1>2, <1>6, FS_Interval
    <3>2. IsFiniteSet({t}) /\ Cardinality({t}) = 1
      BY Zenon, FS_Singleton
    <3>3. IsFiniteSet(mine) /\ Cardinality(mine) = 1 * k
      BY ZenonT(30), <3>1, <3>2, FS_Product
    <3> QED
      BY <1>2, <3>3
  <2> HIDE DEF mine
  <2>7. IsFiniteSet(Left(call')) /\ Cardinality(Left(call')) = Cardinality(Left(call)) + k
    <3>1. /\ IsFiniteSet(Left(call) \cup mine)
          /\ Cardinality(Left(call) \cup mine)
               = Cardinality(Left(call)) + Cardinality(mine)
                   - Cardinality(Left(call) \cap mine)
      BY <1>c, <2>6, FS_Union
    <3>2. Cardinality(Left(call) \cap mine) = 0
      BY <2>5, FS_EmptySet
    <3> QED
      BY <1>2, <1>c, <2>4, <2>6, <3>1, <3>2
  <2>8. /\ Cardinality(Woken(call')) = Cardinality(Woken(call))
        /\ Cardinality(Permits(permit')) = Cardinality(Permits(permit))
    BY <1>3, <2>3
  <2>9. returned' + Sum(call', permit') <= returned + Sum(call, permit) + k
    BY <1>2, <1>3, <1>c, <2>7, <2>8 DEF Sum
  <2>10. IsFiniteSet(Permits(permit')) /\ returned' \in Nat
    BY <1>3, <1>c
  <2> QED
    BY <1>2, <1>3, <2>7, <2>9, <2>10, Settle
<1> QED
  BY <1>5, <1>6

\* One iteration: a call still to be made becomes a permit or a woken waiter.
LEMMA IterationTokens ==
    ASSUME TypeOK, Accounted, NEW t \in Thread, NotifyIteration(t)
    PROVE  Accounted'
<1> DEFINE base == IF call[t].left = 1 THEN [call EXCEPT ![t] = Idle]
                                       ELSE [call EXCEPT ![t].left = @ - 1]
           k == call[t].left
<1>0. call \in [Thread -> Calls]
  BY DEF TypeOK, Calls
<1>1. call[t] \in WakeCall /\ call[t].pc = "notifying"
  BY <1>0, CallShape DEF NotifyIteration
<1>2. call[t].notify \in Notify /\ k \in Nat \ {0}
  BY <1>1 DEF WakeCall
<1>3. base[t] = IF k = 1 THEN Idle ELSE [call[t] EXCEPT !.left = k - 1]
  BY <1>0
<1>4. OnlyAt(call, base, t)
  BY <1>0 DEF OnlyAt
<1>5. base[t] \in {Idle} \cup WakeCall
  BY <1>1, <1>2, <1>3 DEF WakeCall
<1>6. base \in [Thread -> Calls]
  BY <1>0, <1>4, <1>5 DEF Calls, OnlyAt
<1>7. notify_one(call[t].notify, base) /\ reported' = reported /\ returned' = returned
  BY DEF NotifyIteration
<1>8. /\ k = 1 => base[t].pc = "idle"
      /\ k /= 1 => base[t].pc = "notifying" /\ base[t].left = k - 1
  BY <1>1, <1>2, <1>3 DEF Idle, WakeCall
<1> HIDE DEF base
<1>9. \A u \in Queued(call[t].notify) : base[u] = call[u]
  BY <1>1, <1>4 DEF Queued, OnlyAt
<1>10. Woken(base) = Woken(call)
  BY <1>1, <1>4, <1>8 DEF Woken, Due, OnlyAt
<1>11. <<t, k>> \in Left(call) /\ Left(base) = Left(call) \ {<<t, k>>}
  <2>1. <<t, k>> \in Left(call)
    BY <1>1, <1>2 DEF Left
  <2>2. ASSUME NEW u \in Thread, NEW i \in Nat \ {0}
        PROVE  <<u, i>> \in Left(base) <=> <<u, i>> \in Left(call) \ {<<t, k>>}
    <3>1. CASE u /= t
      BY <3>1, <1>4 DEF Left, OnlyAt
    <3>2. CASE u = t
      BY <3>2, <1>1, <1>2, <1>8 DEF Left
    <3> QED
      BY <3>1, <3>2
  <2>3. Left(base) \subseteq Thread \X (Nat \ {0})
        /\ Left(call) \subseteq Thread \X (Nat \ {0})
    BY DEF Left
  <2> QED
    BY <2>1, <2>2, <2>3
<1>c. /\ Cardinality(Woken(call)) \in Nat /\ Cardinality(Permits(permit)) \in Nat
      /\ Cardinality(Left(call)) \in Nat /\ returned \in Nat /\ reported \in Nat
      /\ IsFiniteSet(Permits(permit)) /\ IsFiniteSet(Left(call))
  BY AccountedNumbers
<1>12. IsFiniteSet(Left(base)) /\ Cardinality(Left(base)) = Cardinality(Left(call)) - 1
  BY Zenon, <1>11, <1>c, CardRemove
<1>13. /\ Left(call') = Left(base) /\ IsFiniteSet(Permits(permit'))
       /\ Cardinality(Woken(call')) + Cardinality(Permits(permit'))
            <= Cardinality(Woken(base)) + Cardinality(Permits(permit)) + 1
  BY <1>2, <1>6, <1>7, <1>9, <1>c, NotifyOneTokens
<1>14. /\ Cardinality(Left(call')) = Cardinality(Left(call)) - 1
       /\ Cardinality(Woken(base)) = Cardinality(Woken(call))
       /\ Cardinality(Woken(call')) \in Nat /\ Cardinality(Permits(permit')) \in Nat
  BY <1>10, <1>12, <1>13, WokenFinite, FS_CardinalityType
<1>15. returned' + Sum(call', permit') <= returned + Sum(call, permit) + 0
  BY <1>7, <1>c, <1>13, <1>14 DEF Sum
<1>16. IsFiniteSet(Left(call')) /\ reported' = reported + 0 /\ returned' \in Nat
  BY <1>7, <1>12, <1>13, <1>c
<1> QED
  BY <1>13, <1>15, <1>16, Settle

\* No token before the first wake, nor after a restore.
LEMMA NoTokens ==
    ASSUME call = [t \in Thread |-> Idle], permit = [n \in Notify |-> FALSE],
           reported = 0, returned = 0
    PROVE  Accounted
<1>1. Woken(call) = {} /\ Permits(permit) = {} /\ Left(call) = {}
  BY DEF Woken, Due, Permits, Left, Idle
<1>2. IsFiniteSet({}) /\ Cardinality({}) = 0
  BY FS_EmptySet
<1>3. /\ IsFiniteSet(Permits(permit)) /\ IsFiniteSet(Left(call))
      /\ Cardinality(Woken(call)) = 0 /\ Cardinality(Permits(permit)) = 0
      /\ Cardinality(Left(call)) = 0
  BY <1>1, <1>2, Zenon
<1> QED
  BY <1>3 DEF Accounted

\* Every step moves tokens, loses some, or is a FUTEX_WAKE.
LEMMA StepTokens ==
    ASSUME TypeOK, Accounted, [Next]_vars
    PROVE  Accounted'
<1>1. ASSUME NEW t \in Thread, Expire(t) PROVE Accounted'
  <2>1. /\ call[t].pc = "parked" /\ call' = Goto(t, "expiring") /\ permit' = permit
        /\ reported' = reported /\ returned' = returned
    BY <1>1 DEF Expire
  <2>2. call[t] \in WaitCall /\ t \notin Woken(call)
    BY <2>1, CallShape DEF TypeOK, Calls, InWait, Woken, Due
  <2> QED
    BY <2>1, <2>2, WaitMoves DEF InWait, Due
<1>2. CASE FreezeRestore
  <2>1. /\ call' = [t \in Thread |-> Idle] /\ permit' = [n \in Notify |-> FALSE]
        /\ reported' = 0 /\ returned' = 0
    BY <1>2 DEF FreezeRestore
  <2>2. Woken(call') = {} /\ Permits(permit') = {} /\ Left(call') = {}
    BY <2>1 DEF Woken, Due, Permits, Left, Idle
  <2>3. IsFiniteSet({}) /\ Cardinality({}) = 0
    BY FS_EmptySet
  <2>4. /\ IsFiniteSet(Permits(permit')) /\ IsFiniteSet(Left(call'))
        /\ Cardinality(Woken(call')) = 0 /\ Cardinality(Permits(permit')) = 0
        /\ Cardinality(Left(call')) = 0
    BY <2>2, <2>3, Zenon
  <2> QED
    BY <2>1, <2>4 DEF Accounted
<1>3. CASE UNCHANGED vars
  BY <1>3 DEF vars, Accounted
<1> QED
  BY <1>1, <1>2, <1>3, FutexWaitTokens, PollTokens, DropTokens, ReturnTokens,
     FutexWakeTokens, IterationTokens, FutexAssumption DEF Next, Step, Call

\* No FUTEX_WAIT returns 0 without a FUTEX_WAKE to account for it, whichever
\* way the notification went: over a permit, through the list of waiters, or
\* passed on by a wait that timed out while it was being woken.
THEOREM ReturnsAreWoken == Spec => []NoSpuriousReturn
<1>1. Init => Inv /\ Accounted
  BY InitInv, NoTokens DEF Init
<1>2. Inv /\ Accounted /\ [Next]_vars => Inv' /\ Accounted'
  BY StepInv, StepTokens DEF Inv
<1>3. Inv /\ Accounted => NoSpuriousReturn
  BY AccountedNumbers DEF Inv, Sum, NoSpuriousReturn
<1> QED
  BY <1>1, <1>2, <1>3, PTL DEF Spec
=============================================================================
