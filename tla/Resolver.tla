------------------------------ MODULE Resolver ------------------------------
(***************************************************************************)
(* NR_RESOLVE (src/sys/resolver.rs): getaddrinfo for the guest.  The       *)
(* threads of a process share one ResolverState: a cache of answers with a *)
(* time to live, and a denylist.  resolve drops the lock while it awaits   *)
(* the backend, so lookups of one name overlap, and their answers are      *)
(* cached in the order in which the tasks resume.                          *)
(*                                                                         *)
(* An answer is a sequence of addresses.  Time is a count of ticks; an     *)
(* entry carries its age, and, for the properties, the age of the answer   *)
(* in it.  Instants taken at different insertions differ.                  *)
(***************************************************************************)
EXTENDS Naturals, Sequences, Maps

CONSTANTS
    Thread, Name,
    V4, V6,             \* addresses of the two families
    Answers,            \* the answers the backend may give
    Denylists,          \* the denylists of EDGE_RESOLVER_DENY
    TTLs,               \* the values of ttl_ms, in ticks; 0: entries never expire
    Timeout,            \* timeout_ms, in ticks
    MaxCacheEntries,    \* MAX_CACHE_ENTRIES; the code has 1024
    ScratchBytes        \* MAX_RESOLVER_SCRATCH_BYTES; the code has 4096

ASSUME ResolverAssumption ==
    /\ Timeout \in Nat /\ TTLs \subseteq Nat
    /\ MaxCacheEntries \in Nat \ {0} /\ ScratchBytes \in Nat
    /\ Answers \subseteq Seq(V4 \cup V6)

ADDRINFO_SIZE == 32
SOCKADDR_IN_SIZE == 16
SOCKADDR_IN6_SIZE == 28
Family == {"UNSPEC", "INET", "INET6"}

VARIABLES
    ttl, denylist,  \* set before the guest runs, never changed
    cache,          \* HashMap<String, CacheEntry>
    order,          \* the cached names in the order of `inserted`
    thread,         \* what each thread is at
    scratch         \* the guest memory at RESOLVER_SCRATCH_BASE: who wrote it, what

vars == <<ttl, denylist, cache, order, thread, scratch>>

\* Ages are counted as far as they are told apart.
Oldest == IF ttl = 0 THEN 0 ELSE ttl + Timeout + 1
Older(n) == IF n < Oldest THEN n + 1 ELSE n

Idle == [at |-> "idle"]
Init ==
    /\ ttl \in TTLs /\ denylist \in Denylists
    /\ cache = EmptyMap /\ order = << >> /\ scratch = << >>
    /\ thread = [t \in Thread |-> Idle]
----------------------------------------------------------------------------
SockaddrSize(ip) == IF ip \in V4 THEN SOCKADDR_IN_SIZE ELSE SOCKADDR_IN6_SIZE

\* The family and the denylist are applied to every answer, cached or not.
\* FamilyOnly trusts the cache to hold no denied address.
FamilyOnly(addrs, family) ==
    SelectSeq(addrs, LAMBDA ip : CASE family = "INET" -> ip \in V4
                                   [] family = "INET6" -> ip \in V6
                                   [] OTHER -> TRUE)
Wanted(ip, family) ==
    /\ family = "INET" => ip \in V4
    /\ family = "INET6" => ip \in V6
    /\ ip \notin denylist
filter_addrs(addrs, family) ==
    LET kept[i \in 0 .. Len(addrs)] ==
          IF i = 0 THEN << >>
          ELSE IF Wanted(addrs[i], family) THEN Append(kept[i - 1], addrs[i])
          ELSE kept[i - 1]
    IN  kept[Len(addrs)]

\* Nodes follow one another, each with its sockaddr behind it.
NodeOff(addrs) ==
    LET off[i \in 1 .. Len(addrs) + 1] ==
          IF i = 1 THEN 0 ELSE off[i - 1] + ADDRINFO_SIZE + SockaddrSize(addrs[i - 1])
    IN  off

\* The list as laid out: the offset of each node, where its ai_next points.
marshal_addrinfo_into_vec(addrs) ==
    LET off == NodeOff(addrs) IN
    [i \in DOMAIN addrs |->
        [off |-> off[i], ip |-> addrs[i],
         ai_next |-> IF i < Len(addrs) THEN off[i + 1] ELSE 0]]

\* resolve returns one of the EAI codes.
Error(t) ==
    thread' = [thread EXCEPT ![t] =
                 [at |-> "back", n |-> 0, family |-> "UNSPEC", old |-> 0]]

\* The end of resolve: the answer addrs, given old ticks ago.  A bad res
\* pointer is found out after the scratch area has been written.
marshal_and_return(t, addrs, family, old) ==
    LET filtered == filter_addrs(addrs, family)
        written == scratch' = <<[by |-> t, nodes |-> marshal_addrinfo_into_vec(filtered)]>>
    IN  IF filtered = << >>
        THEN Error(t) /\ UNCHANGED scratch
        ELSE IF NodeOff(filtered)[Len(filtered) + 1] > ScratchBytes
        THEN Error(t) /\ UNCHANGED scratch
        ELSE \/ /\ written
                /\ thread' = [thread EXCEPT ![t] =
                                [at |-> "back", n |-> Len(filtered),
                                 family |-> family, old |-> old]]
             \/ Error(t) /\ (written \/ UNCHANGED scratch)
----------------------------------------------------------------------------
\* inserted.elapsed() < ttl.  ForEver is the test without the clock.
ForEver(entry) == TRUE
Live(entry) == ttl = 0 \/ entry.age < ttl

\* resolve on pointers, hints or a service it does not accept.
Reject(t) ==
    /\ thread[t].at = "idle" /\ Error(t)
    /\ UNCHANGED <<ttl, denylist, cache, order, scratch>>

Hit(t, name, family) ==
    /\ thread[t].at = "idle"
    /\ name \in DOMAIN cache /\ Live(cache[name])
    /\ marshal_and_return(t, cache[name].addrs, family, cache[name].old)
    /\ UNCHANGED <<ttl, denylist, cache, order>>

\* A miss: the lock is dropped and the lookup awaited.
Miss(t, name, family) ==
    /\ thread[t].at = "idle"
    /\ name \in DOMAIN cache => ~Live(cache[name])
    /\ thread' = [thread EXCEPT ![t] =
                    [at |-> "lookup", name |-> name, family |-> family,
                     waited |-> 0, answer |-> << >>, old |-> 0]]
    /\ UNCHANGED <<ttl, denylist, cache, order, scratch>>

\* The backend: an answer arrives; the task resumes later.
Answer(t, addrs) ==
    /\ thread[t].at = "lookup" /\ thread[t].answer = << >>
    /\ thread' = [thread EXCEPT ![t].answer = <<addrs>>]
    /\ UNCHANGED <<ttl, denylist, cache, order, scratch>>

Fail(t) ==
    /\ thread[t].at = "lookup" /\ thread[t].answer = << >>
    /\ Error(t)
    /\ UNCHANGED <<ttl, denylist, cache, order, scratch>>

\* tokio::time::timeout looks at the lookup first, then at the clock.
\* NoTimer never gives up.
NoTimer(t) == FALSE /\ UNCHANGED vars
TimedOut(t) ==
    /\ thread[t].at = "lookup" /\ thread[t].answer = << >>
    /\ thread[t].waited = Timeout
    /\ Error(t)
    /\ UNCHANGED <<ttl, denylist, cache, order, scratch>>

\* The oldest entry goes when the cache is full, whatever the name inserted.
Evicted == IF Len(order) >= MaxCacheEntries THEN Del(cache, Head(order)) ELSE cache
Insert(name, addrs, old) ==
    /\ cache' = Put(Evicted, name, [addrs |-> addrs, age |-> 0, old |-> old])
    /\ order' = Append(SelectSeq(order, LAMBDA n : n # name /\ n \in DOMAIN Evicted), name)

\* The lookup is done: cache the answer, return it.
Resume(t) ==
    /\ thread[t].at = "lookup" /\ thread[t].answer # << >>
    /\ LET addrs == thread[t].answer[1] IN
       /\ Insert(thread[t].name, addrs, thread[t].old)
       /\ marshal_and_return(t, addrs, thread[t].family, thread[t].old)
    /\ UNCHANGED <<ttl, denylist>>

\* The guest has copied the list and goes on; nobody reads the area until it is
\* written again.
Copied(t) ==
    /\ thread[t].at = "back" /\ thread' = [thread EXCEPT ![t] = Idle]
    /\ scratch' = IF scratch # << >> /\ scratch[1].by = t THEN << >> ELSE scratch
    /\ UNCHANGED <<ttl, denylist, cache, order>>

\* Time passes; the timer of a lookup fires within its tick.
Ticked(th) ==
    IF th.at # "lookup" THEN th
    ELSE [th EXCEPT !.waited = @ + 1,
                    !.old = IF th.answer = << >> THEN 0 ELSE Older(@)]
Tick ==
    /\ \A t \in Thread : thread[t].at = "lookup" => thread[t].waited < Timeout
    /\ cache' = [n \in DOMAIN cache |->
                   [cache[n] EXCEPT !.age = Older(@), !.old = Older(@)]]
    /\ thread' = [t \in Thread |-> Ticked(thread[t])]
    /\ UNCHANGED <<ttl, denylist, order, scratch>>
----------------------------------------------------------------------------
Next ==
    \/ \E t \in Thread :
          \/ Reject(t)
          \/ \E name \in Name, family \in Family : Hit(t, name, family) \/ Miss(t, name, family)
          \/ \E addrs \in Answers : Answer(t, addrs)
          \/ Fail(t) \/ TimedOut(t) \/ Resume(t) \/ Copied(t)
    \/ Tick

\* The timer and the executor run; the backend owes nothing.
Fairness ==
    /\ WF_vars(Tick)
    /\ \A t \in Thread : WF_vars(TimedOut(t)) /\ WF_vars(Resume(t))

Spec == Init /\ [][Next]_vars /\ Fairness
----------------------------------------------------------------------------
(***************************************************************************)
(* An answer the guest gets was given by the backend less than             *)
(* ttl + timeout ticks ago, unless the time to live is 0: the timestamp of *)
(* an entry is that of its insertion, which an await may put off by as     *)
(* much as the time-out, and a slow lookup may put an older answer over a  *)
(* newer one (cache lookup and insertion in resolve).                      *)
(***************************************************************************)
Fresh ==
    \A t \in Thread :
        thread[t].at = "back" /\ thread[t].n > 0 /\ ttl > 0
        => thread[t].old <= ttl - 1 + Timeout

(***************************************************************************)
(* While no other thread has written the scratch area, the list a thread   *)
(* got back is well formed: ai_next leads from the first node through as   *)
(* many nodes as resolve returned, nodes and sockaddrs do not overlap, fit *)
(* the area, and hold no denied address and none of another family         *)
(* (filter_addrs, marshal_addrinfo_into_vec, marshal_and_return).          *)
(***************************************************************************)
WellFormed(nodes, n, family, denied) ==
    LET End(i) == nodes[i].off + ADDRINFO_SIZE + SockaddrSize(nodes[i].ip)
    IN  /\ Len(nodes) = n /\ nodes[1].off = 0
        /\ \A i \in 1 .. n - 1 : nodes[i].ai_next = nodes[i + 1].off
        /\ nodes[n].ai_next = 0
        /\ \A i \in 1 .. n :
              /\ End(i) <= ScratchBytes
              /\ i < n => End(i) <= nodes[i + 1].off
              /\ nodes[i].ip \notin denied
              /\ family = "INET" => nodes[i].ip \in V4
              /\ family = "INET6" => nodes[i].ip \in V6
ListWellFormed ==
    \A t \in Thread :
        (/\ thread[t].at = "back" /\ thread[t].n > 0
         /\ scratch # << >> /\ scratch[1].by = t)
        => WellFormed(scratch[1].nodes, thread[t].n, thread[t].family, denylist)

(***************************************************************************)
(* A lookup ends, whatever the backend does (the time-out around           *)
(* lookup_ip).                                                             *)
(***************************************************************************)
LookupEnds == \A t \in Thread : thread[t].at = "lookup" ~> thread[t].at # "lookup"

=============================================================================
