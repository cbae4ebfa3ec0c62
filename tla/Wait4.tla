------------------------------- MODULE Wait4 -------------------------------
(***************************************************************************)
(* The life of a child process as its parent sees it: fork, the thread     *)
(* that runs the child, exit, and wait4, over the map of children that     *)
(* every thread of the parent shares (src/sys/process.rs,                  *)
(* ProcessState.children and ProcessState.child_event).                    *)
(*                                                                         *)
(* A step is one critical section under the map's mutex, the creation of   *)
(* a notified() future, or one notify_waiters call, none of which happens  *)
(* under the lock.  A notified() future receives every notify_waiters that *)
(* comes after its creation, polled or not, so creating and parking is one *)
(* step.                                                                   *)
(***************************************************************************)
EXTENDS Naturals, FiniteSets, Maps

CONSTANTS
    Thread,         \* threads of the parent process
    Pid,            \* child PIDs, handed out by next_pid.fetch_add
    Notify,         \* identities of Arc<Notify>; an unreferenced one is free
    child_event,    \* the process-wide one
    AnyPid          \* wait4's pid argument -1 or 0

ASSUME Wait4Assumption == child_event \in Notify /\ AnyPid \notin Pid

VARIABLES
    children,   \* pid -> [exited, notify]
    life,       \* pid -> how far the child's thread is
    call,       \* Thread -> the call the thread is in
    inserted,   \* history: pid -> entries made for it
    reaped      \* history: pid -> wait4 calls that took it

vars == <<children, life, call, inserted, reaped>>

\* The thread that runs a child (run_child_pub):
\*   unused    the PID has not been handed out
\*   forked    handed out by fork_syscall, no thread yet
\*   setup     building the child's Store and applying the snapshot
\*   running   inside _start
\*   inserted  the entry is registered
\*   marked    exited is set; the entry's Notify has been cloned
\*   signalled waiters on the entry's Notify are notified
\*   crashing  register_and_signal has set exited
\*   done      child_event has been notified after a run
\*   crashed   child_event has been notified after a failed set-up
Plain == {"unused", "forked", "setup", "running", "inserted", "signalled",
          "crashing", "done", "crashed"}
Life == [pc : Plain] \cup [pc : {"marked"}, on : Notify]
At(stage) == [pc |-> stage]

\* A thread inside wait4 or exit:
\*   probe     children was not empty; about to try_reap
\*   check     nothing to reap, may block; about to look the PID up
\*   pick      at the top of the loop: about to clone a Notify
\*   arm       holds the clone, has not created notified()
\*   parked    awaiting
\*   retry     notified; about to try_reap
\*   draining  in exit, about to notify the rest of the drained handles
Idle == [pc |-> "idle"]
Target == Pid \cup {AnyPid}
WaitCall == [pc : {"probe", "check", "pick", "retry"}, pid : Target, nohang : BOOLEAN]
ParkCall == [pc : {"arm", "parked"}, pid : Target, on : Notify]
ExitCall == [pc : {"draining"}, drained : SUBSET Notify]

TypeOK ==
    /\ DOMAIN children \subseteq Pid
    /\ children \in [DOMAIN children -> [exited : BOOLEAN, notify : Notify \ {child_event}]]
    /\ life \in [Pid -> Life]
    /\ call \in [Thread -> {Idle} \cup WaitCall \cup ParkCall \cup ExitCall]
    /\ inserted \in [Pid -> Nat] /\ reaped \in [Pid -> Nat]

Init ==
    /\ children = EmptyMap
    /\ life = [p \in Pid |-> At("unused")]
    /\ call = [t \in Thread |-> Idle]
    /\ inserted = [p \in Pid |-> 0]
    /\ reaped = [p \in Pid |-> 0]
----------------------------------------------------------------------------
\* Arc<Notify> handles still reachable.  FreshOrEvent may hand out the
\* process-wide one.
Referenced ==
    {child_event}
      \cup { children[p].notify : p \in DOMAIN children }
      \cup { life[p].on : p \in { q \in Pid : life[q].pc = "marked" } }
      \cup { call[t].on : t \in { u \in Thread : call[u].pc \in {"arm", "parked"} } }
      \cup UNION { call[t].drained : t \in { u \in Thread : call[u].pc = "draining" } }
FreshOrEvent == Notify \ (Referenced \ {child_event})
Fresh == Notify \ Referenced

\* children.insert(p, ChildExitStatus { exited, fresh Notify }).
InsertChild(p, exited) ==
    /\ \E n \in Fresh : children' = Put(children, p, [exited |-> exited, notify |-> n])
    /\ inserted' = [inserted EXCEPT ![p] = @ + 1]

\* notify_waiters on n: every thread parked on it goes on; no permit is left.
\* base is the rest of the step's effect on call.  WakeOne wakes only one.
Retry(c) == [pc |-> "retry", pid |-> c.pid, nohang |-> FALSE]
ParkedOn(n) == { t \in Thread : call[t].pc = "parked" /\ call[t].on = n }
WakeOne(n, base) ==
    IF ParkedOn(n) = {} THEN call' = base
      ELSE \E t \in ParkedOn(n) : call' = [base EXCEPT ![t] = Retry(@)]
notify_waiters(n, base) ==
    call' = [t \in Thread |-> IF t \in ParkedOn(n) THEN Retry(call[t]) ELSE base[t]]
----------------------------------------------------------------------------
(* fork and the thread that runs the child.                                *)

\* fork_syscall: a new PID, registered as not exited.
Fork(p) ==
    /\ life[p].pc = "unused"
    /\ InsertChild(p, FALSE)
    /\ life' = [life EXCEPT ![p] = At("forked")]
    /\ UNCHANGED <<call, reaped>>

\* spawn_child_thread / run_child_pub, on a PID from fork or on one that the
\* embedder chose.
SpawnChild(p) ==
    /\ life[p].pc \in {"unused", "forked"}
    /\ life' = [life EXCEPT ![p] = At("setup")]
    /\ UNCHANGED <<children, call, inserted, reaped>>

\* run_child: linker, Store, instance and snapshot are in place.
Start(p) ==
    /\ life[p].pc = "setup"
    /\ life' = [life EXCEPT ![p] = At("running")]
    /\ UNCHANGED <<children, call, inserted, reaped>>

\* One of those steps failed: register_and_signal, its critical section ...
Crash(p) ==
    /\ life[p].pc = "setup"
    /\ \/ /\ p \in DOMAIN children
          /\ children' = [children EXCEPT ![p].exited = TRUE]
          /\ UNCHANGED inserted
       \/ /\ p \notin DOMAIN children
          /\ InsertChild(p, TRUE)
    /\ life' = [life EXCEPT ![p] = At("crashing")]
    /\ UNCHANGED <<call, reaped>>

\* ... and its notification, of child_event alone.
CrashSignal(p) ==
    /\ life[p].pc = "crashing"
    /\ notify_waiters(child_event, call)
    /\ life' = [life EXCEPT ![p] = At("crashed")]
    /\ UNCHANGED <<children, inserted, reaped>>

\* _start is over: run_child registers the child, replacing an entry and its
\* Notify if there is one ...
Register(p) ==
    /\ life[p].pc = "running"
    /\ InsertChild(p, FALSE)
    /\ life' = [life EXCEPT ![p] = At("inserted")]
    /\ UNCHANGED <<call, reaped>>

\* ... marks it exited and clones its Notify, if it is still there ...
Mark(p) ==
    /\ life[p].pc = "inserted"
    /\ \/ /\ p \in DOMAIN children
          /\ children' = [children EXCEPT ![p].exited = TRUE]
          /\ life' = [life EXCEPT ![p] = [pc |-> "marked", on |-> children[p].notify]]
       \/ /\ p \notin DOMAIN children
          /\ life' = [life EXCEPT ![p] = At("signalled")]
          /\ UNCHANGED children
    /\ UNCHANGED <<call, inserted, reaped>>

\* ... notifies the child's waiters, and then those for any child.
Signal(p) ==
    /\ \/ /\ life[p].pc = "marked"
          /\ notify_waiters(life[p].on, call)
          /\ life' = [life EXCEPT ![p] = At("signalled")]
       \/ /\ life[p].pc = "signalled"
          /\ notify_waiters(child_event, call)
          /\ life' = [life EXCEPT ![p] = At("done")]
    /\ UNCHANGED <<children, inserted, reaped>>
----------------------------------------------------------------------------
(* exit and exit_group: reap_all_children.                                 *)

\* Under the lock: mark every child, clone every Notify.
Exit(t) ==
    /\ call[t] = Idle
    /\ children' = [p \in DOMAIN children |-> [children[p] EXCEPT !.exited = TRUE]]
    /\ call' = [call EXCEPT ![t] = [pc |-> "draining",
                    drained |-> { children[p].notify : p \in DOMAIN children }]]
    /\ UNCHANGED <<life, inserted, reaped>>

\* Outside: notify each handle, then child_event.
Drain(t) ==
    /\ call[t].pc = "draining"
    /\ \/ \E n \in call[t].drained :
             notify_waiters(n, [call EXCEPT ![t].drained = @ \ {n}])
       \/ /\ call[t].drained = {}
          /\ notify_waiters(child_event, [call EXCEPT ![t] = Idle])
    /\ UNCHANGED <<children, life, inserted, reaped>>
----------------------------------------------------------------------------
(* wait4.                                                                  *)

\* Entry: with no child at all the call returns ECHILD.
CallWait4(t, pid, nohang) ==
    /\ call[t] = Idle
    /\ children /= EmptyMap
    /\ call' = [call EXCEPT ![t] = [pc |-> "probe", pid |-> pid, nohang |-> nohang]]
    /\ UNCHANGED <<children, life, inserted, reaped>>

\* What try_reap(pid) may take.
Reapable(pid) == { p \in DOMAIN children : children[p].exited /\ pid \in {p, AnyPid} }

\* try_reap: takes one of them out of the map; wait4 returns it.  ReapKeeping
\* leaves the entry in the map.
ReapKeeping(t) ==
    /\ call[t].pc \in {"probe", "retry"}
    /\ \E p \in Reapable(call[t].pid) : reaped' = [reaped EXCEPT ![p] = @ + 1]
    /\ call' = [call EXCEPT ![t] = Idle]
    /\ UNCHANGED <<children, life, inserted>>
Reap(t) ==
    /\ call[t].pc \in {"probe", "retry"}
    /\ \E p \in Reapable(call[t].pid) :
         /\ children' = Del(children, p)
         /\ reaped' = [reaped EXCEPT ![p] = @ + 1]
    /\ call' = [call EXCEPT ![t] = Idle]
    /\ UNCHANGED <<life, inserted>>

\* try_reap finds nothing: WNOHANG returns 0, a wake-up goes round the loop.
NoReap(t) ==
    /\ call[t].pc \in {"probe", "retry"}
    /\ Reapable(call[t].pid) = {}
    /\ call' = [call EXCEPT ![t] =
                  IF @.nohang THEN Idle
                    ELSE [@ EXCEPT !.pc = IF call[t].pc = "probe" THEN "check" ELSE "pick"]]
    /\ UNCHANGED <<children, life, inserted, reaped>>

\* A blocking wait for an unknown PID returns ECHILD.
CheckPid(t) ==
    /\ call[t].pc = "check"
    /\ call' = [call EXCEPT ![t] =
                  IF @.pid \in DOMAIN children \cup {AnyPid}
                    THEN [@ EXCEPT !.pc = "pick"] ELSE Idle]
    /\ UNCHANGED <<children, life, inserted, reaped>>

\* Top of the loop: the child's Notify if the PID has an entry, else child_event.
PickNotify(t) ==
    /\ call[t].pc = "pick"
    /\ call' = [call EXCEPT ![t] =
                  [pc |-> "arm", pid |-> @.pid,
                   on |-> IF @.pid \in DOMAIN children
                            THEN children[@.pid].notify ELSE child_event]]
    /\ UNCHANGED <<children, life, inserted, reaped>>

\* notified().await.
Park(t) ==
    /\ call[t].pc = "arm"
    /\ call' = [call EXCEPT ![t].pc = "parked"]
    /\ UNCHANGED <<children, life, inserted, reaped>>
----------------------------------------------------------------------------
ChildStep(p) == Crash(p) \/ CrashSignal(p) \/ Register(p) \/ Mark(p) \/ Signal(p)
WaitStep(t) == Reap(t) \/ NoReap(t) \/ CheckPid(t) \/ PickNotify(t) \/ Park(t)

Next ==
    \/ \E p \in Pid : Fork(p) \/ SpawnChild(p) \/ Start(p) \/ ChildStep(p)
    \/ \E t \in Thread : Exit(t) \/ Drain(t) \/ WaitStep(t)
    \/ \E t \in Thread, pid \in Target, nohang \in BOOLEAN : CallWait4(t, pid, nohang)

Spec == Init /\ [][Next]_vars

\* Straight-line code runs on: the steps of a child's thread after _start or
\* after a failure, the loop in exit, and wait4 while it is not parked.
\* _start itself, and every call, is up to the guest.
FairSpec ==
    /\ Spec
    /\ \A p \in Pid : WF_vars(CrashSignal(p) \/ Mark(p) \/ Signal(p))
    /\ \A t \in Thread : WF_vars(Drain(t)) /\ WF_vars(WaitStep(t))
----------------------------------------------------------------------------
(* Properties.                                                             *)

\* A child is handed to one wait4 only per time it was registered, however
\* many threads wait for it: what has been reaped and what is still in the
\* map never exceeds what was put in.
ReapsMatchEntries ==
    \A p \in Pid :
        reaped[p] + (IF p \in DOMAIN children THEN 1 ELSE 0) <= inserted[p]

\* "One syscall wakes N parked waiters": every thread parked on a handle that
\* an exit path has still to notify wakes up.  The exit paths are exit's loop
\* over the drained handles, a child's own thread, and its failure path.
Pending(n) ==
    \/ \E p \in Pid : life[p].pc = "marked" /\ n \in {life[p].on, child_event}
    \/ \E p \in Pid : life[p].pc \in {"signalled", "crashing"} /\ n = child_event
    \/ \E t \in Thread : call[t].pc = "draining" /\ n \in call[t].drained \cup {child_event}
ParkedWakes ==
    \A t \in Thread : \A n \in Notify :
        (t \in ParkedOn(n) /\ Pending(n)) ~> t \notin ParkedOn(n)
============================================================================
