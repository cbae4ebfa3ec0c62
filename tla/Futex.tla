------------------------------- MODULE Futex -------------------------------
(***************************************************************************)
(* futex(2): FUTEX_WAIT and FUTEX_WAKE over the table that every thread of *)
(* a process shares (src/sys/futex.rs, ProcessState.futex_table), and what *)
(* a snapshot makes of that table.                                         *)
(*                                                                         *)
(* A step is one critical section under the table's parking_lot mutex, or  *)
(* one operation on a tokio Notify: the lock is never held across either.  *)
(* The futex word itself belongs to the guest, so whether the value check  *)
(* passes is a free choice; a call that fails it (EAGAIN), or whose        *)
(* pointers or timespec are bad, returns before it touches any state.      *)
(***************************************************************************)
EXTENDS Integers, FiniteSets, Maps

CONSTANTS
    Thread,         \* guest threads sharing the ProcessState
    Addr,           \* futex addresses
    Notify,         \* identities of Arc<Notify>; an unreferenced one is free
    WakeVal,        \* val arguments of FUTEX_WAKE, an i32
    Timed,          \* whether a FUTEX_WAIT may (TRUE) or may not have a deadline
    MaxWaiters,     \* bound on one entry's counter
    MaxReported     \* bound on the sum of FUTEX_WAKE results

ASSUME FutexAssumption ==
    /\ IsFiniteSet(Thread)
    /\ WakeVal \subseteq Int /\ Timed \subseteq BOOLEAN
    /\ MaxWaiters \in Nat /\ MaxReported \in Nat

VARIABLES
    by_addr,    \* FutexTable.by_addr: address -> [notify, waiters]
    permit,     \* Notify -> it stores a permit
    call,       \* Thread -> the futex call the thread is in
    phantom,    \* history: address -> waiters a restore carried over
    reported,   \* history: sum of FUTEX_WAKE results since the last restore
    returned    \* history: FUTEX_WAITs that returned 0 since then

vars == <<by_addr, permit, call, phantom, reported, returned>>

\* Where a thread is inside futex_wait:
\*   registered  counted in the table, notified() not yet polled
\*   parked      in the Notify's list of waiters
\*   woken       taken off the list by a notification
\*   expiring    its timer has fired, the future is not yet dropped
\*   forwarding  the same, but a notification picked it meanwhile
\*   expired     timed out, about to release
InWait == {"registered", "parked", "woken", "expiring", "forwarding", "expired"}

Idle == [pc |-> "idle"]
WaitCall == [pc : InWait, uaddr : Addr, notify : Notify, timed : BOOLEAN]
WakeCall == [pc : {"notifying"}, notify : Notify, left : Nat \ {0}]

TypeOK ==
    /\ DOMAIN by_addr \subseteq Addr
    /\ by_addr \in [DOMAIN by_addr -> [notify : Notify, waiters : Nat]]
    /\ permit \in [Notify -> BOOLEAN]
    /\ call \in [Thread -> {Idle} \cup WaitCall \cup WakeCall]
    /\ phantom \in [Addr -> Nat]
    /\ reported \in Nat /\ returned \in Nat

Init ==
    /\ by_addr = EmptyMap
    /\ permit = [n \in Notify |-> FALSE]
    /\ call = [t \in Thread |-> Idle]
    /\ phantom = [a \in Addr |-> 0]
    /\ reported = 0 /\ returned = 0

\* Arc<Notify> handles still reachable.
Referenced ==
    { by_addr[a].notify : a \in DOMAIN by_addr }
      \cup { call[t].notify : t \in { u \in Thread : call[u].pc /= "idle" } }

Goto(t, state) == [call EXCEPT ![t].pc = state]
----------------------------------------------------------------------------
(* tokio::sync::Notify, for notify_one.                                    *)

\* The threads in n's list of waiters.
Queued(n) == { t \in Thread : /\ call[t].pc \in {"parked", "expiring"}
                              /\ call[t].notify = n }

\* notify_one: some waiter leaves the list, or a single permit is stored.
\* base is the rest of the step's effect on call.  DropIfNotParked forgets
\* the permit.
DropIfNotParked(n, base) ==
    /\ IF Queued(n) = {}
         THEN call' = base
         ELSE \E t \in Queued(n) :
                call' = [base EXCEPT ![t].pc =
                           IF @ = "parked" THEN "woken" ELSE "forwarding"]
    /\ UNCHANGED permit
notify_one(n, base) ==
    IF Queued(n) = {}
      THEN /\ permit' = [permit EXCEPT ![n] = TRUE]
           /\ call' = base
      ELSE \E t \in Queued(n) :
             /\ call' = [base EXCEPT ![t].pc =
                           IF @ = "parked" THEN "woken" ELSE "forwarding"]
             /\ UNCHANGED permit
----------------------------------------------------------------------------
(* FUTEX_WAIT.                                                             *)

\* Phase 2: under the lock, find or create the entry, count this thread and
\* clone the entry's Notify.
FutexWait(t, a, timed) ==
    /\ call[t] = Idle
    /\ \E n \in Notify :
         LET old == IF a \in DOMAIN by_addr THEN by_addr[a].waiters ELSE 0
         IN  /\ old < MaxWaiters
             /\ IF a \in DOMAIN by_addr
                  THEN n = by_addr[a].notify /\ UNCHANGED permit
                  ELSE n \notin Referenced /\ permit' = [permit EXCEPT ![n] = FALSE]
             /\ by_addr' = Put(by_addr, a, [notify |-> n, waiters |-> old + 1])
             /\ call' = [call EXCEPT ![t] = [pc |-> "registered", uaddr |-> a,
                                             notify |-> n, timed |-> timed]]
    /\ UNCHANGED <<phantom, reported, returned>>

\* Phase 3: first poll of notified(): take the permit, or join the list.
\* PollKeepsPermit leaves the permit for the next wait as well.
PollKeepsPermit(t) ==
    /\ call[t].pc = "registered"
    /\ call' = Goto(t, IF permit[call[t].notify] THEN "woken" ELSE "parked")
    /\ UNCHANGED <<by_addr, permit, phantom, reported, returned>>
Poll(t) ==
    /\ call[t].pc = "registered"
    /\ IF permit[call[t].notify]
         THEN /\ permit' = [permit EXCEPT ![call[t].notify] = FALSE]
              /\ call' = Goto(t, "woken")
         ELSE /\ call' = Goto(t, "parked")
              /\ UNCHANGED permit
    /\ UNCHANGED <<by_addr, phantom, reported, returned>>

\* tokio::time::timeout finds notified() pending and the deadline passed.
Expire(t) ==
    /\ call[t].pc = "parked" /\ call[t].timed
    /\ call' = Goto(t, "expiring")
    /\ UNCHANGED <<by_addr, permit, phantom, reported, returned>>

\* The Notified future is dropped: it leaves the list, and passes on a
\* notification it had been given.
DropNotified(t) ==
    /\ \/ /\ call[t].pc = "expiring"
          /\ call' = Goto(t, "expired")
          /\ UNCHANGED permit
       \/ /\ call[t].pc = "forwarding"
          /\ notify_one(call[t].notify, Goto(t, "expired"))
    /\ UNCHANGED <<by_addr, phantom, reported, returned>>

\* by_addr after release_waiter(a), which looks the entry up by address
\* again.  ReleasedNoPrune leaves an entry nobody waits on.
ReleasedNoPrune(a) ==
    IF a \in DOMAIN by_addr
      THEN [by_addr EXCEPT ![a].waiters = IF @ = 0 THEN 0 ELSE @ - 1]
      ELSE by_addr
Released(a) ==
    CASE a \notin DOMAIN by_addr -> by_addr
      [] a \in DOMAIN by_addr /\ by_addr[a].waiters <= 1 -> Del(by_addr, a)
      [] OTHER -> [by_addr EXCEPT ![a].waiters = @ - 1]

\* Phase 4 and the timeout arm: release, and return 0 or ETIMEDOUT.
\* ReturnUnreleased is the timeout arm without its release.
ReturnUnreleased(t) ==
    /\ call[t].pc \in {"woken", "expired"}
    /\ by_addr' = IF call[t].pc = "woken" THEN Released(call[t].uaddr) ELSE by_addr
    /\ returned' = returned + (IF call[t].pc = "woken" THEN 1 ELSE 0)
    /\ call' = [call EXCEPT ![t] = Idle]
    /\ UNCHANGED <<permit, phantom, reported>>
Return(t) ==
    /\ call[t].pc \in {"woken", "expired"}
    /\ by_addr' = Released(call[t].uaddr)
    /\ returned' = returned + (IF call[t].pc = "woken" THEN 1 ELSE 0)
    /\ call' = [call EXCEPT ![t] = Idle]
    /\ UNCHANGED <<permit, phantom, reported>>
----------------------------------------------------------------------------
(* FUTEX_WAKE.                                                             *)

\* How many waiters to wake: min(max(val, 0), waiters).
ToWakeUncapped(val, waiters) == IF val < 0 THEN 0 ELSE val
ToWake(val, waiters) ==
    CASE val < 0 -> 0
      [] val >= 0 /\ val <= waiters -> val
      [] OTHER -> waiters

\* Under the lock: take to_wake off the counter, prune the entry at zero,
\* clone the Notify.  Without an entry the call returns 0.
FutexWake(t, a, val) ==
    /\ call[t] = Idle
    /\ a \in DOMAIN by_addr
    /\ LET e == by_addr[a]
           k == ToWake(val, e.waiters)
       IN  /\ reported + k <= MaxReported
           /\ by_addr' = IF e.waiters - k = 0
                           THEN Del(by_addr, a)
                           ELSE [by_addr EXCEPT ![a].waiters = @ - k]
           /\ call' = IF k = 0
                        THEN call
                        ELSE [call EXCEPT ![t] = [pc |-> "notifying",
                                                  notify |-> e.notify, left |-> k]]
           /\ reported' = reported + k
    /\ UNCHANGED <<permit, phantom, returned>>

\* One iteration of the loop of notify_one calls, outside the lock.
NotifyIteration(t) ==
    /\ call[t].pc = "notifying"
    /\ notify_one(call[t].notify,
                  IF call[t].left = 1 THEN [call EXCEPT ![t] = Idle]
                                      ELSE [call EXCEPT ![t].left = @ - 1])
    /\ UNCHANGED <<by_addr, phantom, reported, returned>>
----------------------------------------------------------------------------
(* Snapshot.                                                               *)

\* freeze drops the guest's pending futures without running them further,
\* snapshot() copies (addr, waiters), and rebuild_from_snapshot gives every
\* entry a new Notify and the same counter.  The model follows the restored
\* kernel, in which no thread is inside a call.
FreezeRestore ==
    /\ \E new \in [DOMAIN by_addr -> Notify] :
         /\ \A a, b \in DOMAIN by_addr : new[a] = new[b] => a = b
         /\ by_addr' = [a \in DOMAIN by_addr |->
                          [notify |-> new[a], waiters |-> by_addr[a].waiters]]
    /\ permit' = [n \in Notify |-> FALSE]
    /\ call' = [t \in Thread |-> Idle]
    /\ phantom' = [a \in Addr |->
                     IF a \in DOMAIN by_addr THEN by_addr[a].waiters ELSE 0]
    /\ reported' = 0 /\ returned' = 0

Step(t) ==
    \/ Poll(t)
    \/ DropNotified(t)
    \/ Return(t)
    \/ NotifyIteration(t)

Call(t) ==
    \/ \E a \in Addr, timed \in Timed : FutexWait(t, a, timed)
    \/ \E a \in Addr, val \in WakeVal : FutexWake(t, a, val)
    \/ Expire(t)

Next ==
    \/ \E t \in Thread : Step(t) \/ Call(t)
    \/ FreezeRestore

Spec == Init /\ [][Next]_vars

\* A thread that can run inside a call does run: tokio polls a woken task,
\* and futex_wake is straight-line code.  Nothing obliges a guest to make a
\* call, and a wait need not have a deadline.
FairSpec == Spec /\ \A t \in Thread : WF_vars(Step(t))
----------------------------------------------------------------------------
(* Properties.                                                             *)

\* The threads inside futex_wait on address a.
Inside(a) == { t \in Thread : call[t].pc \in InWait /\ call[t].uaddr = a }

\* FUTEX_WAKE never promises to wake more threads than are there: an entry's
\* counter never exceeds the threads inside futex_wait on its address plus
\* the waiters a restore carried over, although WAKE and release_waiter both
\* decrement it and release_waiter may hit a younger entry of the same address.
NoOvercount ==
    \A a \in DOMAIN by_addr :
        by_addr[a].waiters <= Cardinality(Inside(a)) + phantom[a]

\* An entry in the table counts at least one waiter: WAKE and release_waiter
\* both prune.
NoEmptyEntry == \A a \in DOMAIN by_addr : by_addr[a].waiters >= 1

\* The table does not leak: when no thread is inside futex_wait on an address,
\* and no restore left waiters there, the address has no entry, however its
\* waits ended (woken, timed out, timed out while being woken).
TableDrains ==
    \A a \in Addr : Inside(a) = {} /\ phantom[a] = 0 => a \notin DOMAIN by_addr

\* No FUTEX_WAIT returns 0 without a FUTEX_WAKE to account for it: a permit, a
\* notification passed on by a wait that timed out and a list removal are one
\* wake each, never two.
NoSpuriousReturn == returned <= reported

\* A FUTEX_WAKE that takes the last waiters off an entry does wake someone:
\* once it is about to call notify_one on a Notify that is out of the table
\* and that some waits still hold, one of them leaves futex_wait, even if none
\* had polled yet when the notification came, or timed out just then.
Holding(n) == { t \in Thread : call[t].pc \in InWait /\ call[t].notify = n }
WakeReachesSomeone ==
    \A n \in Notify : \A k \in 1 .. Cardinality(Thread) - 1 :
        ( /\ Cardinality(Holding(n)) = k
          /\ \A a \in DOMAIN by_addr : by_addr[a].notify /= n
          /\ \E t \in Thread : call[t].pc = "notifying" /\ call[t].notify = n )
            ~> Cardinality(Holding(n)) /= k

\* No thread is in the middle of anything: each is idle or asleep.
Quiet == \A t \in Thread : call[t].pc \in {"idle", "parked"}

\* An entry goes only "when no waiters remain": a thread asleep in futex_wait
\* can still be reached through the table.
SleeperReachable ==
    Quiet => \A t \in Thread : call[t].pc = "parked" =>
        /\ call[t].uaddr \in DOMAIN by_addr
        /\ by_addr[call[t].uaddr].notify = call[t].notify
============================================================================
