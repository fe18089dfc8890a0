--------------------------- MODULE Poller_proofs ---------------------------
(***************************************************************************)
(* For any number of registrations, descriptors, sinks and timers: each of *)
(* the five pollers keeps what it was told, calls an object only for a     *)
(* file of its own, and sleeps no longer than its timers allow.            *)
(***************************************************************************)
EXTENDS Poller, FiniteSetTheorems, SequenceTheorems, WellFoundedInduction,
        TLAPS

(***************************************************************************)
(* What the objects have asked for: o is a value of obj, its registrations *)
(* have files of their own, and those from n on have not been made yet.    *)
(***************************************************************************)
Dirs == {"in", "out"}
Objs == [Regs -> [fd : Fds \cup {0}, events : SUBSET Dirs]]
OpenIn(o) == {r \in Regs : o[r].fd # 0}
Asked(o, n) ==
  /\ o \in Objs /\ n \in Nat
  /\ \A r, s \in OpenIn(o) : o[r].fd = o[s].fd => r = s
  /\ \A r \in OpenIn(o) : r < n
  /\ \A r \in Regs : o[r].fd = 0 => o[r].events = {}

(***************************************************************************)
(* The state p of each poller represents o.                                *)
(***************************************************************************)
Event == [ptr : Regs, ev : SUBSET Events, of : Regs]

\* epoll_t and kqueue_t: the entries en agree with o, and those that are open
\* or retired are not freed; an event points to one of them, the one whose
\* file it was.
Entries(en, retired, o, n) ==
  /\ \A r \in Regs : en[r].fd = o[r].fd
  /\ \A r \in OpenIn(o) \cup retired : ~en[r].freed
  /\ \A r \in retired : r \in Regs \ OpenIn(o) /\ r < n
Batch(ev_buf, retired, o) ==
  /\ ev_buf \in Seq(Event)
  /\ \A i \in DOMAIN ev_buf : /\ ev_buf[i].ptr = ev_buf[i].of
                              /\ ev_buf[i].ptr \in OpenIn(o) \cup retired

\* epoll_t: what the kernel was told of each descriptor.
Kernel(k, o) ==
  /\ \A f \in Fds, r \in Regs : k[f].ptr = r <=> o[r].fd = f
  /\ \A r \in OpenIn(o) : k[o[r].fd].events = o[r].events
EpollType ==
  [entry   : [Regs -> [fd : Fds \cup {0}, events : SUBSET Dirs,
                       freed : BOOLEAN]],
   kernel  : [Fds -> [ptr : Regs \cup {0}, events : SUBSET Dirs]],
   retired : SUBSET Regs, ev_buf : Seq(Event), ok : {TRUE}]
EpollRep(p, o, n) ==
  /\ p \in EpollType
  /\ Entries(p.entry, p.retired, o, n)
  /\ Kernel(p.kernel, o)
  /\ Batch(p.ev_buf, p.retired, o)

\* kqueue_t: one filter for each event asked for.
Filters(filters, o) ==
  /\ IsFiniteSet(filters)
  /\ \A x \in filters : x.fd = o[x.ptr].fd /\ x.filter \in o[x.ptr].events
  /\ \A r \in OpenIn(o) : \A e \in o[r].events :
       [fd |-> o[r].fd, filter |-> e, ptr |-> r] \in filters
KqueueType ==
  [entry   : [Regs -> [fd : Fds \cup {0}, flags : SUBSET Dirs,
                       freed : BOOLEAN]],
   filters : SUBSET [fd : Fds, filter : Dirs, ptr : Regs],
   retired : SUBSET Regs, ev_buf : Seq(Event), ok : {TRUE}]
KqueueRep(p, o, n) ==
  /\ p \in KqueueType
  /\ Entries(p.entry, p.retired, o, n)
  /\ \A r \in OpenIn(o) : p.entry[r].flags = o[r].events
  /\ Filters(p.filters, o)
  /\ Batch(p.ev_buf, p.retired, o)

\* poll_t: the array and the table point to each other.
PollFd == [fd : Fds \cup {0}, events : SUBSET Dirs, revents : SUBSET Events,
           of : Regs \cup {0}]
PollType ==
  [pollset : Seq(PollFd), index : [Fds -> Nat], reactor : [Fds -> Regs \cup {0}],
   retired : BOOLEAN, ok : {TRUE}]
Indexed(ps, index, reactor, o) ==
  /\ \A f \in Fds : index[f] # 0 <=> \E r \in Regs : o[r].fd = f
  /\ \A r \in OpenIn(o) : /\ reactor[o[r].fd] = r
                          /\ index[o[r].fd] \in DOMAIN ps
                          /\ ps[index[o[r].fd]].fd = o[r].fd
                          /\ ps[index[o[r].fd]].events = o[r].events
  /\ \A i \in DOMAIN ps : ps[i].fd # 0 =>
       /\ index[ps[i].fd] = i
       /\ ps[i].revents # {} => ps[i].of = reactor[ps[i].fd]
PollRep(p, o, n) ==
  p \in PollType /\ Indexed(p.pollset, p.index, p.reactor, o)

\* select_t: each descriptor is in the array once, in the sets of the events
\* asked for, and none is above maxfd; a descriptor that is reported belongs
\* to the file that it had then.
SelectFd == [fd : Fds \cup {0}, reactor : Regs]
SelectType ==
  [fds : Seq(SelectFd), in : SUBSET Fds, out : SUBSET Fds, err : SUBSET Fds,
   readfds : SUBSET Fds, writefds : SUBSET Fds, exceptfds : SUBSET Fds,
   seen : [Fds -> Regs \cup {0}], maxfd : Fds \cup {0}, retired : BOOLEAN,
   ok : {TRUE}]
OncePerFile(s) ==
  \A i, j \in DOMAIN s : s[i].fd = s[j].fd /\ s[i].fd # 0 => i = j
Rows(fds, o) ==
  /\ \A r \in OpenIn(o) : \E i \in DOMAIN fds :
                             fds[i].fd = o[r].fd /\ fds[i].reactor = r
  /\ \A i \in DOMAIN fds : fds[i].fd # 0 => o[fds[i].reactor].fd = fds[i].fd
  /\ OncePerFile(fds)
Selects(in, out, err, o) ==
  /\ \A f \in Fds : f \in err <=> \E r \in Regs : o[r].fd = f
  /\ in \subseteq err /\ out \subseteq err
  /\ \A r \in OpenIn(o) : /\ o[r].fd \in in <=> "in" \in o[r].events
                          /\ o[r].fd \in out <=> "out" \in o[r].events
Returned(p, o) ==
  \A f \in p.readfds \cup p.writefds \cup p.exceptfds :
    f \in p.err /\ \A r \in Regs : o[r].fd = f => p.seen[f] = r
SelectRep(p, o, n) ==
  /\ p \in SelectType
  /\ Rows(p.fds, o)
  /\ Selects(p.in, p.out, p.err, o)
  /\ \A f \in p.err : f <= p.maxfd
  /\ Returned(p, o)

\* devpoll_t: the table and the kernel agree with o; an event of the batch
\* is accepted only for the file it was reported for.
DevRow == [valid : BOOLEAN, accepted : BOOLEAN, events : SUBSET Dirs,
           reactor : Regs \cup {0}]
DevKernel == [on : BOOLEAN, events : SUBSET Dirs]
DevEvent == [fd : Fds, ev : SUBSET Events, of : Regs]
DevPollType ==
  [table : [Fds -> DevRow], size : Fds \cup {0}, kernel : [Fds -> DevKernel],
   pending : SUBSET Fds, ev_buf : Seq(DevEvent), held : BOOLEAN,
   moved : BOOLEAN, ok : {TRUE}]
Registered(table, kernel, o) ==
  /\ \A f \in Fds : /\ table[f].valid <=> \E r \in Regs : o[r].fd = f
                    /\ kernel[f].on <=> table[f].valid
  /\ \A r \in OpenIn(o) : /\ table[o[r].fd].reactor = r
                          /\ kernel[o[r].fd].events = o[r].events
NotTaken(ev_buf, table) ==
  \A i \in DOMAIN ev_buf :
    table[ev_buf[i].fd].valid /\ table[ev_buf[i].fd].accepted =>
      table[ev_buf[i].fd].reactor = ev_buf[i].of
DevPollRep(p, o, n) ==
  /\ p \in DevPollType
  /\ Registered(p.table, p.kernel, o)
  /\ NotTaken(p.ev_buf, p.table)

Represents(impl, p, o, n) ==
  /\ impl = "epoll"   => EpollRep(p, o, n)
  /\ impl = "kqueue"  => KqueueRep(p, o, n)
  /\ impl = "poll"    => PollRep(p, o, n)
  /\ impl = "select"  => SelectRep(p, o, n)
  /\ impl = "devpoll" => DevPollRep(p, o, n)
Rep(p, o, n) == Represents(plan.impl, p, o, n)

(***************************************************************************)
(* The timers are in order, and one of them runs, the first, while its     *)
(* sink is called.  A sink that counts on a timer has one that waits.      *)
(***************************************************************************)
Timer == [exp : 0..MaxTime, sink : Sinks, running : BOOLEAN]
Sorted(t) == \A i, j \in DOMAIN t : i < j => t[i].exp <= t[j].exp
TimerRuns == at.pc = "handler" /\ called.what = "timer"
Timers ==
  /\ timers \in Seq(Timer)
  /\ Sorted(timers)
  /\ \A i \in DOMAIN timers : timers[i].running => i = 1 /\ TimerRuns
  /\ TimerRuns => /\ timers # <<>> /\ timers[1].running
                  /\ timers[1].sink = called.reactor
                  /\ timers[1].exp <= now
  /\ \A s \in started : \E i \in DOMAIN timers :
       timers[i].sink = s /\ ~timers[i].running
  /\ at.pc = "timer" \/ TimerRuns => at.current <= now
  /\ at.pc = "timer" => at.i = 1
  /\ NeverOversleeps

(***************************************************************************)
(* Where the loop is.  Outside a batch devpoll has no event left, so that  *)
(* none is taken for a file that is accepted at the top of the loop.       *)
(***************************************************************************)
InBatch == at.pc = "dispatch" \/ (at.pc = "handler" /\ called.what \in Events)
Where == [pc : {"top", "timer", "wait", "dispatch", "handler", "stopped"},
          i : Nat \ {0}, stage : Events, timeout : Nat, current : Nat,
          stopping : BOOLEAN, next : Nat]
Place ==
  /\ at \in Where
  /\ at.pc = "handler" => called.what \in Events \cup {"timer"}
  /\ plan.impl = "devpoll" /\ ~InBatch => poller.ev_buf = <<>>

(***************************************************************************)
(* The invariant.                                                          *)
(***************************************************************************)
Values ==
  plan \in Plans /\ ok = TRUE /\ started \subseteq Sinks /\ now \in 0..MaxTime
Registrations ==
  /\ Asked(obj, at.next) /\ Rep(poller, obj, at.next)
  /\ load = Cardinality(Open)
  /\ at.stopping => Open = {}
IInv == Values /\ Place /\ Registrations /\ Timers

-----------------------------------------------------------------------------
(* Numbers, sets and what the objects ask for.                             *)

LEMMA Numbers ==
  /\ Regs \subseteq Nat \ {0} /\ Fds \subseteq Nat \ {0}
  /\ IsFiniteSet(Regs) /\ IsFiniteSet(Fds) /\ 1 \in Regs /\ 1 \in Fds
  /\ Timeouts \subseteq Nat /\ MaxTime \in Nat
  /\ \A pl \in Plans : pl.impl \in Impls /\ pl.events \subseteq Events
<1>1. \A X \in {Regs, Fds} : X \subseteq Nat \ {0}
  <2> SUFFICES ASSUME NEW X \in {Regs, Fds} PROVE X \subseteq Nat \ {0} OBVIOUS
  <2>1. X = 1..Cardinality(X) /\ Cardinality(X) \in Nat
    BY PollerAssumption, FS_CardinalityType
  <2>2. QED BY <2>1
<1>2. QED BY <1>1, PollerAssumption

(* From o to o2 the registration r is made for the free descriptor f, r is *)
(* removed, or r asks for the events ev.                                   *)
Made(o, o2, r, f) ==
  /\ r \in Regs /\ f \in Fds /\ \A x \in Regs : o[x].fd # f
  /\ r \notin OpenIn(o) /\ OpenIn(o2) = OpenIn(o) \cup {r}
  /\ o2[r] = [fd |-> f, events |-> {}] /\ \A x \in Regs \ {r} : o2[x] = o[x]
Gone(o, o2, r) ==
  /\ r \in Regs /\ r \in OpenIn(o) /\ o[r].fd \in Fds
  /\ OpenIn(o2) = OpenIn(o) \ {r}
  /\ \A x \in Regs \ {r} : o[x].fd # o[r].fd
  /\ o2[r] = [fd |-> 0, events |-> {}] /\ \A x \in Regs \ {r} : o2[x] = o[x]
Polled(o, o2, r, ev) ==
  /\ r \in Regs /\ r \in OpenIn(o) /\ ev \in SUBSET Dirs /\ o[r].fd \in Fds
  /\ OpenIn(o2) = OpenIn(o)
  /\ \A x \in Regs \ {r} : o[x].fd # o[r].fd
  /\ o2[r] = [fd |-> o[r].fd, events |-> ev]
  /\ \A x \in Regs \ {r} : o2[x] = o[x]

LEMMA AskedAdd ==
  ASSUME NEW o, NEW r, NEW f, Asked(o, r), r \in Regs, f \in Fds,
         \A x \in OpenIn(o) : o[x].fd # f
  PROVE  LET o2 == [o EXCEPT ![r] = [fd |-> f, events |-> {}]]
         IN Asked(o2, r + 1) /\ Made(o, o2, r, f)
BY Numbers DEF Asked, Made, OpenIn, Objs

LEMMA AskedRm ==
  ASSUME NEW o, NEW n, NEW r, r \in OpenIn(o), Asked(o, n)
  PROVE  LET o2 == [o EXCEPT ![r] = [fd |-> 0, events |-> {}]]
         IN Asked(o2, n) /\ Gone(o, o2, r)
BY Numbers DEF Asked, Gone, OpenIn, Objs

LEMMA AskedSet ==
  ASSUME NEW o, NEW n, NEW r, r \in OpenIn(o), NEW ev \in SUBSET Dirs, Asked(o, n)
  PROVE  LET o2 == [o EXCEPT ![r].events = ev]
         IN Asked(o2, n) /\ Polled(o, o2, r, ev)
BY Numbers DEF Asked, Polled, OpenIn, Objs

\* What is open is a registration and has a descriptor.
LEMMA OpenHasFile ==
  ASSUME NEW o, NEW n, Asked(o, n)
  PROVE  /\ 0 \notin Fds /\ 0 \notin Regs /\ n \in Nat
         /\ \A x \in Regs : x \in Nat
         /\ \A x \in OpenIn(o) : x \in Regs /\ o[x].fd \in Fds /\ x < n
                                 /\ o[x].events \in SUBSET Dirs
BY Numbers DEF Asked, OpenIn, Objs

LEMMA MadeIs ==
  ASSUME NEW o, NEW o2, NEW r, NEW f, Asked(o, r), Made(o, o2, r, f)
  PROVE  /\ r \in Regs /\ f \in Fds /\ OpenIn(o2) = OpenIn(o) \cup {r}
         /\ o2[r].fd = f /\ o2[r].events = {} /\ o[r].fd = 0
         /\ \A x \in OpenIn(o) : /\ x \in Regs \ {r} /\ o2[x] = o[x]
                                 /\ o[x].fd \in Fds \ {f}
         /\ \A x \in Regs \ {r} : o2[x] = o[x]
BY OpenHasFile DEF Made, OpenIn

-----------------------------------------------------------------------------
(* What epoll_t and kqueue_t have in common.                               *)

\* The entry of r has changed from en to en2.
Changed(en, en2, r, fd, freed) ==
  /\ en2[r].fd = fd /\ en2[r].freed = freed
  /\ \A x \in Regs \ {r} : en2[x] = en[x]

LEMMA EntriesAdd ==
  ASSUME NEW o, NEW o2, NEW r, NEW f, Asked(o, r), Made(o, o2, r, f),
         NEW en, NEW en2, NEW ret, Entries(en, ret, o, r),
         Changed(en, en2, r, f, FALSE)
  PROVE  Entries(en2, ret, o2, r + 1)
<1>1. r \notin ret /\ \A x \in Regs : x \in Nat
  BY OpenHasFile DEF Entries, Made, Changed
<1>2. \A x \in Regs : en2[x].fd = o2[x].fd BY DEF Entries, Made, Changed
<1>3. \A x \in OpenIn(o2) \cup ret : ~en2[x].freed
  BY OpenHasFile, <1>1 DEF Entries, Made, Changed
<1>4. \A x \in ret : x \in Regs \ OpenIn(o2) /\ x < r + 1
  BY <1>1 DEF Entries, Made, Changed
<1>5. QED BY <1>2, <1>3, <1>4 DEF Entries

LEMMA EntriesRm ==
  ASSUME NEW o, NEW o2, NEW n, NEW r, Asked(o, n), Gone(o, o2, r),
         NEW en, NEW en2, NEW ret, Entries(en, ret, o, n),
         Changed(en, en2, r, 0, en[r].freed)
  PROVE  Entries(en2, ret \cup {r}, o2, n)
<1>1. \A x \in Regs : en2[x].fd = o2[x].fd BY DEF Entries, Gone, Changed
<1>2. \A x \in OpenIn(o2) \cup (ret \cup {r}) : ~en2[x].freed
  BY OpenHasFile DEF Entries, Gone, Changed
<1>3. \A x \in ret \cup {r} : x \in Regs \ OpenIn(o2) /\ x < n
  BY OpenHasFile DEF Entries, Gone, Changed
<1>4. QED BY <1>1, <1>2, <1>3 DEF Entries

LEMMA EntriesSet ==
  ASSUME NEW o, NEW o2, NEW n, NEW r, NEW ev, Asked(o, n), Polled(o, o2, r, ev),
         NEW en, NEW en2, NEW ret, Entries(en, ret, o, n),
         Changed(en, en2, r, en[r].fd, en[r].freed)
  PROVE  Entries(en2, ret, o2, n)
<1>1. \A x \in Regs : en2[x].fd = o2[x].fd BY DEF Entries, Polled, Changed
<1>2. \A x \in OpenIn(o2) \cup ret : ~en2[x].freed
  BY OpenHasFile DEF Entries, Polled, Changed
<1>3. \A x \in ret : x \in Regs \ OpenIn(o2) /\ x < n
  BY OpenHasFile DEF Entries, Polled, Changed
<1>4. QED BY <1>1, <1>2, <1>3 DEF Entries

-----------------------------------------------------------------------------
(* epoll_t                                                                 *)

LEMMA EpollAdd ==
  ASSUME NEW o, NEW o2, NEW r, NEW f, NEW p, Asked(o, r), Made(o, o2, r, f),
         EpollRep(p, o, r)
  PROVE  EpollRep(E!add_fd(p, f, r), o2, r + 1)
<1> DEFINE q == E!add_fd(p, f, r)
<1>1. p \in EpollType /\ Kernel(p.kernel, o) BY DEF EpollRep
<1>2. r \in Regs /\ f \in Fds /\ (\A x \in Regs : o[x].fd # f) BY DEF Made
<1>3. p.kernel[f].ptr = 0
  BY <1>1, <1>2 DEF EpollType, Kernel
<1>4. /\ q.entry = [p.entry EXCEPT ![r] =
                      [fd |-> f, events |-> {}, freed |-> FALSE]]
      /\ q.kernel = [p.kernel EXCEPT ![f] = [ptr |-> r, events |-> {}]]
      /\ q.retired = p.retired /\ q.ev_buf = p.ev_buf
  BY <1>1 DEF EpollType, E!add_fd
<1>5. q \in EpollType
  <2>1. q.entry \in [Regs -> [fd : Fds \cup {0}, events : SUBSET Dirs,
                       freed : BOOLEAN]]
    BY <1>1, <1>2, <1>4 DEF EpollType
  <2>2. q.kernel \in [Fds -> [ptr : Regs \cup {0}, events : SUBSET Dirs]]
    BY <1>1, <1>2, <1>4 DEF EpollType
  <2>3. q.ok = TRUE BY <1>1, <1>3 DEF EpollType, E!add_fd
  <2>4. q = [p EXCEPT !.entry = q.entry, !.kernel = q.kernel,
                      !.retired = q.retired, !.ok = q.ok]
    BY <1>1 DEF EpollType, E!add_fd
  <2> HIDE DEF q
  <2>5. QED BY <1>1, <1>4, <2>1, <2>2, <2>3, <2>4 DEF EpollType
<1> HIDE DEF q
<1>6. Entries(q.entry, q.retired, o2, r + 1)
  <2>1. Entries(p.entry, p.retired, o, r) BY DEF EpollRep
  <2>2. Changed(p.entry, q.entry, r, f, FALSE)
    BY <1>1, <1>2, <1>4 DEF EpollType, Changed
  <2>3. Entries(q.entry, p.retired, o2, r + 1)
    BY <2>1, <2>2, EntriesAdd, Zenon
  <2>4. QED BY <1>4, <2>3, Zenon
<1>7. Kernel(q.kernel, o2)
  <2>1. /\ q.kernel[f] = [ptr |-> r, events |-> {}]
        /\ \A g \in Fds \ {f} : q.kernel[g] = p.kernel[g]
    BY <1>1, <1>2, <1>4 DEF EpollType
  <2>2. /\ o2[r] = [fd |-> f, events |-> {}] /\ o[r].fd \notin Fds
        /\ \A x \in Regs \ {r} : o2[x] = o[x] /\ o[x].fd # f
    BY OpenHasFile DEF Made, OpenIn
  <2>3. ASSUME NEW g \in Fds, NEW x \in Regs
        PROVE  q.kernel[g].ptr = x <=> o2[x].fd = g
    <3>1. CASE g = f BY <2>1, <2>2, <3>1
    <3>2. CASE g # f
      <4>1. q.kernel[g].ptr = x <=> o[x].fd = g BY <1>1, <2>1, <3>2 DEF Kernel
      <4>2. QED BY <2>2, <3>2, <4>1
    <3>3. QED BY <3>1, <3>2
  <2>4. \A x \in OpenIn(o2) : q.kernel[o2[x].fd].events = o2[x].events
    <3>1. \A x \in OpenIn(o) : x # r /\ o[x].fd \in Fds \ {f} /\ o2[x] = o[x]
      BY <2>2, OpenHasFile
    <3>2. \A x \in OpenIn(o) : q.kernel[o2[x].fd].events = o2[x].events
      BY <1>1, <2>1, <3>1 DEF Kernel
    <3>3. q.kernel[o2[r].fd].events = o2[r].events BY <2>1, <2>2
    <3>4. OpenIn(o2) = OpenIn(o) \cup {r} BY DEF Made
    <3>5. QED BY <3>2, <3>3, <3>4
  <2>5. QED BY <2>3, <2>4 DEF Kernel
<1>8. Batch(q.ev_buf, q.retired, o2)
  BY <1>4 DEF EpollRep, Batch, Made
<1>9. QED BY <1>5, <1>6, <1>7, <1>8 DEF EpollRep, q

LEMMA EpollRm ==
  ASSUME NEW o, NEW o2, NEW n, NEW r, NEW p, Asked(o, n), Gone(o, o2, r),
         EpollRep(p, o, n)
  PROVE  EpollRep(E!rm_fd(p, r, o[r].fd), o2, n)
<1> DEFINE f == o[r].fd
           q == E!rm_fd(p, r, f)
<1>1. p \in EpollType /\ Kernel(p.kernel, o) BY DEF EpollRep
<1>2. r \in Regs /\ f \in Fds BY DEF Gone
<1>3. p.kernel[f].ptr = r /\ r # 0 BY <1>1, <1>2, OpenHasFile DEF Kernel
<1>4. /\ q.entry = [p.entry EXCEPT ![r].fd = 0]
      /\ q.kernel = [p.kernel EXCEPT ![f] = [ptr |-> 0, events |-> {}]]
      /\ q.retired = p.retired \cup {r} /\ q.ev_buf = p.ev_buf
  BY <1>1 DEF EpollType, E!rm_fd, E!NoWatch
<1>5. q \in EpollType
  <2>1. q.entry \in [Regs -> [fd : Fds \cup {0}, events : SUBSET Dirs,
                       freed : BOOLEAN]]
    <3>1. p.entry \in [Regs -> [fd : Fds \cup {0}, events : SUBSET Dirs,
                                freed : BOOLEAN]]
      BY <1>1 DEF EpollType
    <3>2. [p.entry[r] EXCEPT !.fd = 0]
            \in [fd : Fds \cup {0}, events : SUBSET Dirs, freed : BOOLEAN]
      BY <1>2, <3>1
    <3>3. q.entry = [p.entry EXCEPT ![r] = [p.entry[r] EXCEPT !.fd = 0]]
      BY <1>2, <1>4, <3>1
    <3> HIDE DEF q
    <3>4. QED BY <1>2, <3>1, <3>2, <3>3
  <2>2. q.kernel \in [Fds -> [ptr : Regs \cup {0}, events : SUBSET Dirs]]
    <3>1. p.kernel \in [Fds -> [ptr : Regs \cup {0}, events : SUBSET Dirs]]
      BY <1>1 DEF EpollType
    <3>2. QED BY <1>2, <1>4, <3>1
  <2>3. q.ok = TRUE BY <1>1, <1>3 DEF EpollType, E!rm_fd
  <2>4. q = [p EXCEPT !.entry = q.entry, !.kernel = q.kernel,
                      !.retired = q.retired, !.ok = q.ok]
    BY <1>1 DEF EpollType, E!rm_fd
  <2> HIDE DEF q
  <2>5. QED BY <1>1, <1>2, <1>4, <2>1, <2>2, <2>3, <2>4 DEF EpollType
<1> HIDE DEF q
<1>6. Entries(q.entry, q.retired, o2, n)
  <2>1. Entries(p.entry, p.retired, o, n) BY DEF EpollRep
  <2>2. Changed(p.entry, q.entry, r, 0, p.entry[r].freed)
    BY <1>1, <1>2, <1>4 DEF EpollType, Changed
  <2>3. Entries(q.entry, p.retired \cup {r}, o2, n)
    BY <2>1, <2>2, EntriesRm, Zenon
  <2>4. QED BY <1>4, <2>3, Zenon
<1>7. Kernel(q.kernel, o2)
  <2>1. /\ q.kernel[f] = [ptr |-> 0, events |-> {}]
        /\ \A g \in Fds \ {f} : q.kernel[g] = p.kernel[g]
    BY <1>1, <1>2, <1>4 DEF EpollType
  <2>2. \A g \in Fds, x \in Regs : q.kernel[g].ptr = x <=> o2[x].fd = g
    BY <1>1, <2>1, OpenHasFile DEF Kernel, Gone
  <2>3. \A x \in OpenIn(o2) : q.kernel[o2[x].fd].events = o2[x].events
    BY <1>1, <2>1, OpenHasFile DEF Kernel, Gone
  <2>4. QED BY <2>2, <2>3 DEF Kernel
<1>8. Batch(q.ev_buf, q.retired, o2)
  BY <1>4 DEF EpollRep, Batch, Gone
<1>9. QED BY <1>5, <1>6, <1>7, <1>8 DEF EpollRep, q

LEMMA EpollSet ==
  ASSUME NEW o, NEW o2, NEW n, NEW r, NEW ev, NEW p, Asked(o, n),
         Polled(o, o2, r, ev), EpollRep(p, o, n)
  PROVE  EpollRep(E!set_poll(p, r, o[r].fd, ev), o2, n)
<1> DEFINE f == o[r].fd
           q == E!set_poll(p, r, f, ev)
<1>1. p \in EpollType /\ Kernel(p.kernel, o) BY DEF EpollRep
<1>2. r \in Regs /\ f \in Fds /\ ev \in SUBSET Dirs BY DEF Polled
<1>3. p.kernel[f].ptr = r /\ r # 0 BY <1>1, <1>2, OpenHasFile DEF Kernel
<1>4. /\ q.entry = [p.entry EXCEPT ![r].events = ev]
      /\ q.kernel = [p.kernel EXCEPT ![f].events = ev]
      /\ q.retired = p.retired /\ q.ev_buf = p.ev_buf
  BY <1>1 DEF EpollType, E!set_poll
<1>5. q \in EpollType
  <2>1. q.entry \in [Regs -> [fd : Fds \cup {0}, events : SUBSET Dirs,
                       freed : BOOLEAN]]
    <3> DEFINE e == [p.entry[r] EXCEPT !.events = ev]
    <3>1. e \in [fd : Fds \cup {0}, events : SUBSET Dirs, freed : BOOLEAN]
      BY <1>1, <1>2 DEF EpollType
    <3>2. q.entry = [p.entry EXCEPT ![r] = e] BY <1>4
    <3> HIDE DEF e
    <3>3. QED BY <1>1, <1>2, <3>1, <3>2 DEF EpollType
  <2>2. q.kernel \in [Fds -> [ptr : Regs \cup {0}, events : SUBSET Dirs]]
    <3> DEFINE k == [p.kernel[f] EXCEPT !.events = ev]
    <3>1. k \in [ptr : Regs \cup {0}, events : SUBSET Dirs]
      BY <1>1, <1>2 DEF EpollType
    <3>2. q.kernel = [p.kernel EXCEPT ![f] = k] BY <1>4
    <3> HIDE DEF k
    <3>3. QED BY <1>1, <1>2, <3>1, <3>2 DEF EpollType
  <2>3. q.ok = TRUE BY <1>1, <1>3 DEF EpollType, E!set_poll
  <2>4. q = [p EXCEPT !.entry = q.entry, !.kernel = q.kernel,
                      !.retired = q.retired, !.ok = q.ok]
    BY <1>1 DEF EpollType, E!set_poll
  <2> HIDE DEF q
  <2>5. QED BY <1>1, <1>4, <2>1, <2>2, <2>3, <2>4 DEF EpollType
<1> HIDE DEF q
<1>6. Entries(q.entry, q.retired, o2, n)
  <2>1. Entries(p.entry, p.retired, o, n) BY DEF EpollRep
  <2>2. Changed(p.entry, q.entry, r, p.entry[r].fd, p.entry[r].freed)
    BY <1>1, <1>2, <1>4 DEF EpollType, Changed
  <2>3. Entries(q.entry, p.retired, o2, n)
    BY <2>1, <2>2, EntriesSet, Zenon
  <2>4. QED BY <1>4, <2>3, Zenon
<1>7. Kernel(q.kernel, o2)
  <2>1. /\ q.kernel[f] = [ptr |-> r, events |-> ev]
        /\ \A g \in Fds \ {f} : q.kernel[g] = p.kernel[g]
    BY <1>1, <1>2, <1>3, <1>4 DEF EpollType
  <2>2. \A g \in Fds, x \in Regs : q.kernel[g].ptr = x <=> o2[x].fd = g
    BY <1>1, <2>1, OpenHasFile DEF Kernel, Polled
  <2>3. \A x \in OpenIn(o2) : q.kernel[o2[x].fd].events = o2[x].events
    BY <1>1, <2>1, OpenHasFile DEF Kernel, Polled
  <2>4. QED BY <2>2, <2>3 DEF Kernel
<1>8. Batch(q.ev_buf, q.retired, o2)
  BY <1>4 DEF EpollRep, Batch, Polled
<1>9. QED BY <1>5, <1>6, <1>7, <1>8 DEF EpollRep, q

(* The kernel reports the ready ones in any order.  The instances of the   *)
(* pollers have the library's operators under names of their own.          *)
LEMMA SameSequences ==
  \A X : /\ E!SetToSeqs(X) = SetToSeqs(X) /\ K!SetToSeqs(X) = SetToSeqs(X)
         /\ D!SetToSeqs(X) = SetToSeqs(X)
<1> SUFFICES ASSUME NEW X
             PROVE  /\ E!SetToSeqs(X) = SetToSeqs(X)
                    /\ K!SetToSeqs(X) = SetToSeqs(X)
                    /\ D!SetToSeqs(X) = SetToSeqs(X)
  OBVIOUS
<1>1. E!SetToSeqs(X) = SetToSeqs(X)
  BY Zenon DEF E!SetToSeqs, SetToSeqs, E!Cardinality, Cardinality
<1>2. K!SetToSeqs(X) = SetToSeqs(X)
  BY Zenon DEF K!SetToSeqs, SetToSeqs, K!Cardinality, Cardinality
<1>3. D!SetToSeqs(X) = SetToSeqs(X)
  BY Zenon DEF D!SetToSeqs, SetToSeqs, D!Cardinality, Cardinality
<1>4. QED BY <1>1, <1>2, <1>3

LEMMA Ordered ==
  ASSUME NEW A, IsFiniteSet(A), NEW Y \in SUBSET A, NEW s \in SetToSeqs(Y)
  PROVE  \E N \in Nat : DOMAIN s = 1..N /\ \A i \in 1..N : s[i] \in A
<1> DEFINE N == Cardinality(Y)
<1>1. N \in Nat BY FS_Subset, FS_CardinalityType
<1>2. s \in [1..N -> Y] BY DEF SetToSeqs
<1>3. DOMAIN s = 1..N /\ \A i \in 1..N : s[i] \in A BY <1>2
<1>4. QED BY <1>1, <1>3

(* of names the owner of every descriptor that is registered.              *)
Owners(of, o) ==
  /\ of \in [Fds -> Regs \cup {0}]
  /\ \A f \in Fds, r \in Regs : o[r].fd = f => of[f] = r
Ready == [Fds -> SUBSET Events]
(* An item of a batch can be used, and is for the object it calls.         *)
ItemRight(x, o) ==
  /\ x.valid
  /\ x.live => \A e \in x.ev : x.reactor = x.of /\ x.reactor \in OpenIn(o)
Wanted(o) == {<<r, o[r].fd, o[r].events>> : r \in OpenIn(o)}

LEMMA EpollWait ==
  ASSUME NEW o, NEW n, NEW p, Asked(o, n), EpollRep(p, o, n),
         NEW of, Owners(of, o), NEW ready \in Ready,
         NEW q \in E!wait(p, ready, of)
  PROVE  EpollRep(q, o, n)
<1> DEFINE hot == {f \in Fds : p.kernel[f].ptr # 0
                               /\ E!Reported(p, ready, f) # {}}
           Of(f) == [ptr |-> p.kernel[f].ptr, ev |-> E!Reported(p, ready, f),
                     of |-> of[f]]
<1>1. p \in EpollType /\ Kernel(p.kernel, o) BY DEF EpollRep
<1>2. PICK Y \in SUBSET hot : \E s \in SetToSeqs(Y) :
        q = [p EXCEPT !.ev_buf = [i \in DOMAIN s |-> Of(s[i])]]
  <2>1. q \in {[p EXCEPT !.ev_buf = [i \in DOMAIN s |-> Of(s[i])]] :
                  s \in UNION {E!SetToSeqs(Z) : Z \in {T \in SUBSET hot :
                          T # {} /\ E!Cardinality(T) <= MaxEvents}}}
    BY Zenon DEF E!wait
  <2> HIDE DEF hot, Of
  <2>2. PICK s \in UNION {E!SetToSeqs(Z) : Z \in {T \in SUBSET hot :
                            T # {} /\ E!Cardinality(T) <= MaxEvents}} :
          q = [p EXCEPT !.ev_buf = [i \in DOMAIN s |-> Of(s[i])]]
    BY <2>1, Zenon
  <2>3. \E Y \in SUBSET hot : s \in E!SetToSeqs(Y) BY Zenon
  <2>4. QED BY <2>2, <2>3, SameSequences, Zenon
<1>20. PICK s \in SetToSeqs(Y) :
         q = [p EXCEPT !.ev_buf = [i \in DOMAIN s |-> Of(s[i])]]
  BY <1>2, Zenon
<1>3. IsFiniteSet(hot) BY Numbers, FS_Subset
<1>4. PICK N \in Nat : DOMAIN s = 1..N /\ \A i \in 1..N : s[i] \in hot
  <2> HIDE DEF hot
  <2>1. QED BY <1>3, Ordered
<1>5. ASSUME NEW f \in hot
      PROVE  Of(f) \in Event /\ Of(f).ptr = Of(f).of /\ Of(f).ptr \in OpenIn(o)
  <2>1. p.kernel[f].ptr \in Regs BY <1>1 DEF EpollType
  <2>2. o[p.kernel[f].ptr].fd = f BY <1>1, <2>1 DEF Kernel
  <2>3. p.kernel[f].ptr \in OpenIn(o) BY <2>1, <2>2, OpenHasFile DEF OpenIn
  <2>4. of[f] = p.kernel[f].ptr BY <2>1, <2>2 DEF Owners
  <2>5. E!Reported(p, ready, f) \in SUBSET Events
    BY DEF E!Reported, Ready
  <2>6. QED BY <2>1, <2>3, <2>4, <2>5 DEF Event
<1> DEFINE b == [i \in 1..N |-> Of(s[i])]
<1>6. q = [p EXCEPT !.ev_buf = b] BY <1>20, <1>4, Zenon
<1> HIDE DEF Of, hot
<1>7. b \in Seq(Event) /\ \A i \in DOMAIN b :
        b[i].ptr = b[i].of /\ b[i].ptr \in OpenIn(o)
  BY <1>4, <1>5
<1> HIDE DEF b
<1>8. q \in EpollType BY <1>1, <1>6, <1>7 DEF EpollType
<1>9. q.entry = p.entry /\ q.retired = p.retired /\ q.kernel = p.kernel
      /\ q.ev_buf = b
  BY <1>1, <1>6 DEF EpollType
<1>10. Batch(q.ev_buf, q.retired, o) BY <1>7, <1>9 DEF Batch
<1>11. QED BY <1>8, <1>9, <1>10 DEF EpollRep

LEMMA EpollCleanup ==
  ASSUME NEW o, NEW n, NEW p, Asked(o, n), EpollRep(p, o, n)
  PROVE  EpollRep(E!cleanup(p), o, n)
<1> DEFINE q == E!cleanup(p)
           en == [r \in Regs |-> IF r \in p.retired
                    THEN [p.entry[r] EXCEPT !.freed = TRUE] ELSE p.entry[r]]
<1>1. p \in EpollType /\ Entries(p.entry, p.retired, o, n) BY DEF EpollRep
<1>2. q = [p EXCEPT !.ev_buf = <<>>, !.retired = {}, !.entry = en]
  BY <1>1 DEF EpollType, E!cleanup
<1> HIDE DEF q
<1>3. en \in [Regs -> [fd : Fds \cup {0}, events : SUBSET Dirs,
                       freed : BOOLEAN]]
  <2> DEFINE Entry == [fd : Fds \cup {0}, events : SUBSET Dirs, freed : BOOLEAN]
  <2>1. \A x \in Entry : [x EXCEPT !.freed = TRUE] \in Entry OBVIOUS
  <2>2. p.entry \in [Regs -> Entry] BY <1>1 DEF EpollType
  <2> HIDE DEF Entry
  <2>3. en \in [Regs -> Entry] BY <2>1, <2>2
  <2>4. QED BY <2>3 DEF Entry
<1>4. Entries(en, {}, o, n)
  <2>1. \A r \in Regs : en[r].fd = p.entry[r].fd
    BY <1>1 DEF EpollType
  <2>2. \A r \in OpenIn(o) : en[r] = p.entry[r]
    BY <1>1 DEF Entries, OpenIn
  <2> HIDE DEF en
  <2>3. QED BY <1>1, <2>1, <2>2 DEF Entries
<1> HIDE DEF en
<1>5. q \in EpollType BY <1>1, <1>2, <1>3, EmptySeq DEF EpollType
<1>6. q.entry = en /\ q.retired = {} /\ q.kernel = p.kernel /\ q.ev_buf = <<>>
  BY <1>1, <1>2 DEF EpollType
<1>7. Batch(<<>>, {}, o) BY EmptySeq DEF Batch
<1>8. Kernel(q.kernel, o) BY <1>6 DEF EpollRep
<1>9. Entries(q.entry, q.retired, o, n) /\ Batch(q.ev_buf, q.retired, o)
  BY <1>4, <1>6, <1>7, Zenon
<1>10. QED BY <1>5, <1>8, <1>9, Zenon DEF EpollRep, q

LEMMA EpollItem ==
  ASSUME NEW o, NEW n, NEW p, Asked(o, n), EpollRep(p, o, n),
         NEW i \in 1..E!count(p)
  PROVE  ItemRight(E!item(p, i), o)
<1> DEFINE e == p.ev_buf[i]
<1>1. i \in DOMAIN p.ev_buf /\ p \in EpollType
  <2>1. p \in EpollType BY DEF EpollRep
  <2>2. p.ev_buf \in Seq(Event) BY <2>1 DEF EpollType
  <2>3. QED BY <2>1, <2>2, LenProperties DEF E!count
<1>2. e.ptr = e.of /\ e.ptr \in OpenIn(o) \cup p.retired
  BY <1>1 DEF EpollRep, Batch
<1>3. e.ptr \in Regs BY <1>1, <1>2 DEF EpollType, OpenIn
<1>4. p.entry[e.ptr].fd = o[e.ptr].fd /\ ~p.entry[e.ptr].freed
  BY <1>2, <1>3 DEF EpollRep, Entries
<1>5. QED BY <1>2, <1>3, <1>4 DEF ItemRight, E!item, OpenIn

LEMMA EpollWatched ==
  ASSUME NEW o, NEW n, NEW p, Asked(o, n), EpollRep(p, o, n)
  PROVE  E!Watched(p) = Wanted(o)
<1> DEFINE on == {f \in Fds : p.kernel[f].ptr # 0}
           W(f) == <<p.kernel[f].ptr, f, p.kernel[f].events>>
<1>1. p \in EpollType /\ Kernel(p.kernel, o) BY DEF EpollRep
<1>2. ASSUME NEW f \in on
      PROVE  \E r \in OpenIn(o) : W(f) = <<r, o[r].fd, o[r].events>>
  <2>1. p.kernel[f].ptr \in Regs BY <1>1 DEF EpollType
  <2>2. o[p.kernel[f].ptr].fd = f BY <1>1, <2>1 DEF Kernel
  <2>3. p.kernel[f].ptr \in OpenIn(o) BY <2>1, <2>2, OpenHasFile DEF OpenIn
  <2>4. o[p.kernel[f].ptr].events = p.kernel[f].events
    BY <1>1, <2>2, <2>3 DEF Kernel
  <2>5. QED BY <2>2, <2>3, <2>4
<1>3. ASSUME NEW r \in OpenIn(o)
      PROVE  o[r].fd \in on /\ W(o[r].fd) = <<r, o[r].fd, o[r].events>>
  <2>1. r \in Regs /\ o[r].fd \in Fds /\ r # 0 BY OpenHasFile
  <2>2. QED BY <1>1, <2>1 DEF Kernel
<1>4. E!Watched(p) = {W(f) : f \in on} BY DEF E!Watched
<1> HIDE DEF W, on
<1>5. QED BY <1>2, <1>3, <1>4 DEF Wanted

-----------------------------------------------------------------------------
(* kqueue_t                                                                *)

LEMMA KqueueAdd ==
  ASSUME NEW o, NEW o2, NEW r, NEW f, NEW p, Asked(o, r), Made(o, o2, r, f),
         KqueueRep(p, o, r)
  PROVE  KqueueRep(K!add_fd(p, f, r), o2, r + 1)
<1> DEFINE q == K!add_fd(p, f, r)
           e == [fd |-> f, flags |-> {}, freed |-> FALSE]
<1>0. /\ OpenIn(o2) = OpenIn(o) \cup {r}
      /\ o2[r].fd = f /\ o2[r].events = {} /\ o[r].fd = 0
      /\ \A x \in OpenIn(o) : x \in Regs \ {r} /\ o2[x] = o[x]
  BY MadeIs
<1>1. p \in KqueueType /\ Filters(p.filters, o) BY DEF KqueueRep
<1>2. r \in Regs /\ f \in Fds BY DEF Made
<1>3. q = [p EXCEPT !.entry = [p.entry EXCEPT ![r] = e]]
  BY <1>1 DEF KqueueType, K!add_fd
<1>4. [p.entry EXCEPT ![r] = e] \in
        [Regs -> [fd : Fds \cup {0}, flags : SUBSET Dirs, freed : BOOLEAN]]
  BY <1>1, <1>2 DEF KqueueType
<1> HIDE DEF q
<1>5. q \in KqueueType
  <2> DEFINE en == [p.entry EXCEPT ![r] = e]
  <2> HIDE DEF en
  <2>1. QED BY <1>1, <1>3, <1>4 DEF KqueueType
<1>6. /\ q.entry = [p.entry EXCEPT ![r] = e] /\ q.filters = p.filters
      /\ q.retired = p.retired /\ q.ev_buf = p.ev_buf
  BY <1>1, <1>3 DEF KqueueType
<1>7. Entries(q.entry, q.retired, o2, r + 1)
  <2>1. Entries(p.entry, p.retired, o, r) BY DEF KqueueRep
  <2>2. Changed(p.entry, q.entry, r, f, FALSE)
    BY <1>1, <1>2, <1>6 DEF KqueueType, Changed
  <2>3. Entries(q.entry, p.retired, o2, r + 1)
    BY <2>1, <2>2, EntriesAdd, Zenon
  <2>4. QED BY <1>6, <2>3, Zenon
<1>8. \A x \in OpenIn(o2) : q.entry[x].flags = o2[x].events
  <2>1. q.entry[r] = e /\ \A x \in Regs \ {r} : q.entry[x] = p.entry[x]
    BY <1>1, <1>2, <1>6 DEF KqueueType
  <2>2. \A x \in OpenIn(o) : p.entry[x].flags = o[x].events /\ x \in Regs
    BY OpenHasFile DEF KqueueRep
  <2>3. \A x \in OpenIn(o) : q.entry[x].flags = o2[x].events
    BY <1>0, <2>1, <2>2, Zenon
  <2>4. q.entry[r].flags = o2[r].events BY <1>0, <2>1
  <2>5. QED BY <1>0, <2>3, <2>4
<1>9. Filters(q.filters, o2)
  <2>1. \A x \in p.filters : x.ptr \in OpenIn(o) /\ o2[x.ptr] = o[x.ptr]
    <3>1. \A x \in p.filters : x.ptr \in Regs /\ x.fd \in Fds
      BY <1>1 DEF KqueueType
    <3>2. \A x \in p.filters : o[x.ptr].fd # 0
      BY <1>1, <3>1, OpenHasFile DEF Filters
    <3>3. QED BY <3>1, <3>2 DEF OpenIn, Made
  <2>2. \A x \in OpenIn(o2) : \/ x = r /\ o2[x].events = {}
                              \/ x \in OpenIn(o) /\ o2[x] = o[x]
    BY <1>0
  <2>3. QED BY <1>1, <1>6, <2>1, <2>2 DEF Filters
<1>10. Batch(q.ev_buf, q.retired, o2)
  BY <1>6 DEF KqueueRep, Batch, Made
<1>11. QED BY <1>5, <1>7, <1>8, <1>9, <1>10 DEF KqueueRep, q

LEMMA KqueueRm ==
  ASSUME NEW o, NEW o2, NEW n, NEW r, NEW p, Asked(o, n), Gone(o, o2, r),
         KqueueRep(p, o, n)
  PROVE  KqueueRep(K!rm_fd(p, r, o[r].fd), o2, n)
<1> DEFINE f == o[r].fd
           q == K!rm_fd(p, r, f)
           left == {x \in p.filters : x.fd = f => x.filter \notin p.entry[r].flags}
           en == [p.entry EXCEPT ![r].fd = 0]
           good == p.ok /\ \A e \in p.entry[r].flags : K!Has(p, f, e)
<1>1. p \in KqueueType /\ Filters(p.filters, o) BY DEF KqueueRep
<1>2. r \in Regs /\ f \in Fds BY DEF Gone
<1>3. p.entry[r].flags = o[r].events BY DEF KqueueRep, Gone
<1>4. good = TRUE
  <2>1. \A e \in o[r].events : [fd |-> f, filter |-> e, ptr |-> r] \in p.filters
    BY <1>1 DEF Filters, Gone
  <2>2. ASSUME NEW e \in p.entry[r].flags PROVE K!Has(p, f, e)
    <3> DEFINE x == [fd |-> f, filter |-> e, ptr |-> r]
    <3>1. x \in p.filters BY <1>3, <2>1, Zenon
    <3>2. x.fd = f /\ x.filter = e OBVIOUS
    <3> HIDE DEF x
    <3>3. QED BY <3>1, <3>2, Zenon DEF K!Has
  <2>3. p.ok = TRUE BY <1>1 DEF KqueueType
  <2>4. QED BY <2>2, <2>3, Zenon
<1>5. q = [p EXCEPT !.entry = en, !.filters = left,
                    !.retired = p.retired \cup {r}, !.ok = good]
  BY <1>1 DEF KqueueType, K!rm_fd
<1>6. en \in [Regs -> [fd : Fds \cup {0}, flags : SUBSET Dirs, freed : BOOLEAN]]
  BY <1>1, <1>2 DEF KqueueType
<1>7. left \subseteq p.filters OBVIOUS
<1> HIDE DEF q
<1>8. q \in KqueueType
  <2> HIDE DEF en, left, good
  <2>1. QED BY <1>1, <1>2, <1>4, <1>5, <1>6, <1>7 DEF KqueueType
<1>9. /\ q.entry = en /\ q.filters = left
      /\ q.retired = p.retired \cup {r} /\ q.ev_buf = p.ev_buf
  <2> HIDE DEF en, left, good
  <2>1. QED BY <1>1, <1>5 DEF KqueueType
<1>10. Entries(q.entry, q.retired, o2, n)
  <2>1. Entries(p.entry, p.retired, o, n) BY DEF KqueueRep
  <2>2. Changed(p.entry, q.entry, r, 0, p.entry[r].freed)
    BY <1>1, <1>2, <1>9 DEF KqueueType, Changed
  <2>3. Entries(q.entry, p.retired \cup {r}, o2, n)
    BY <2>1, <2>2, EntriesRm, Zenon
  <2>4. QED BY <1>9, <2>3, Zenon
<1>11. \A x \in OpenIn(o2) : q.entry[x].flags = o2[x].events
  <2>1. \A x \in Regs \ {r} : en[x] = p.entry[x]
    BY <1>1, <1>2 DEF KqueueType
  <2>2. \A x \in OpenIn(o2) : x \in Regs \ {r} /\ x \in OpenIn(o)
    BY OpenHasFile DEF Gone
  <2> HIDE DEF en
  <2>3. QED BY <1>9, <2>1, <2>2 DEF Gone, KqueueRep
<1>12. Filters(left, o2)
  <2>1. IsFiniteSet(left) BY <1>1, FS_Subset DEF Filters
  <2>2. \A x \in left : x.ptr \in Regs \ {r}
    BY <1>1, <1>3 DEF Filters, KqueueType
  <2>3. \A x \in left : x.fd = o2[x.ptr].fd /\ x.filter \in o2[x.ptr].events
    BY <1>1, <2>2 DEF Filters, Gone
  <2>4. ASSUME NEW x \in OpenIn(o2), NEW e \in o2[x].events
        PROVE  [fd |-> o2[x].fd, filter |-> e, ptr |-> x] \in left
    <3>1. x \in OpenIn(o) /\ x \in Regs \ {r} /\ o2[x] = o[x] /\ o[x].fd # f
      BY OpenHasFile DEF Gone
    <3>2. [fd |-> o[x].fd, filter |-> e, ptr |-> x] \in p.filters
      BY <1>1, <2>4, <3>1 DEF Filters
    <3>3. QED BY <3>1, <3>2
  <2> HIDE DEF left
  <2>5. QED BY <2>1, <2>3, <2>4 DEF Filters
<1>13. Batch(q.ev_buf, q.retired, o2)
  BY <1>9 DEF KqueueRep, Batch, Gone
<1> HIDE DEF left
<1>14. QED BY <1>8, <1>9, <1>10, <1>11, <1>12, <1>13 DEF KqueueRep, q

(* One event is asked for, or no longer, at a time.                        *)
OneStep(a, b) ==
  \E e \in Dirs : \/ e \notin a /\ b = a \cup {e}
                  \/ e \in a /\ b = a \ {e}

LEMMA FiltersAdd ==
  ASSUME NEW o, NEW o2, NEW n, NEW r, NEW ev, Asked(o, n), Polled(o, o2, r, ev),
         NEW fs \in SUBSET [fd : Fds, filter : Dirs, ptr : Regs],
         Filters(fs, o), NEW e \in Dirs, e \notin o[r].events,
         ev = o[r].events \cup {e}
  PROVE  LET f   == o[r].fd
             fs2 == {x \in fs : x.fd # f \/ x.filter # e}
                      \cup {[fd |-> f, filter |-> e, ptr |-> r]}
         IN /\ fs2 \in SUBSET [fd : Fds, filter : Dirs, ptr : Regs]
            /\ Filters(fs2, o2)
<1> DEFINE f   == o[r].fd
           new == [fd |-> f, filter |-> e, ptr |-> r]
           old == {x \in fs : x.fd # f \/ x.filter # e}
<1>1. /\ r \in Regs /\ f \in Fds /\ r \in OpenIn(o)
      /\ o2[r].fd = f /\ o2[r].events = ev /\ OpenIn(o2) = OpenIn(o)
      /\ \A x \in OpenIn(o) \ {r} : x \in Regs /\ o2[x] = o[x] /\ o[x].fd # f
  BY OpenHasFile DEF Polled
<1>2. \A x \in fs : x.ptr \in Regs /\ x.ptr \in OpenIn(o)
  <2>1. \A x \in fs : x.ptr \in Regs /\ x.fd \in Fds OBVIOUS
  <2>2. \A x \in fs : o[x.ptr].fd # 0 BY <2>1, OpenHasFile DEF Filters
  <2>3. QED BY <2>1, <2>2 DEF OpenIn
<1>3. new \in [fd : Fds, filter : Dirs, ptr : Regs] /\ IsFiniteSet(old \cup {new})
  <2>1. IsFiniteSet(old) BY FS_Subset DEF Filters
  <2>2. new \in [fd : Fds, filter : Dirs, ptr : Regs] BY <1>1
  <2> HIDE DEF old, new
  <2>3. QED BY <2>1, <2>2, FS_AddElement
<1>4. \A x \in old : x.fd = o2[x.ptr].fd /\ x.filter \in o2[x.ptr].events
  <2> SUFFICES ASSUME NEW x \in old
               PROVE  x.fd = o2[x.ptr].fd /\ x.filter \in o2[x.ptr].events
    OBVIOUS
  <2>1. x.fd = o[x.ptr].fd /\ x.filter \in o[x.ptr].events BY DEF Filters
  <2>2. CASE x.ptr = r BY <1>1, <2>1, <2>2
  <2>3. CASE x.ptr # r
    <3>1. o2[x.ptr] = o[x.ptr] BY <1>1, <1>2, <2>3
    <3>2. QED BY <2>1, <3>1
  <2>4. QED BY <2>2, <2>3
<1>5. new.fd = o2[new.ptr].fd /\ new.filter \in o2[new.ptr].events
  BY <1>1
<1>6. ASSUME NEW x \in OpenIn(o2), NEW d \in o2[x].events
      PROVE  [fd |-> o2[x].fd, filter |-> d, ptr |-> x] \in old \cup {new}
  <2>1. CASE x = r /\ d = e BY <1>1, <2>1
  <2>2. CASE x = r /\ d # e
    <3>1. d \in o[r].events BY <1>1, <1>6, <2>2
    <3>2. [fd |-> f, filter |-> d, ptr |-> r] \in fs BY <1>1, <3>1 DEF Filters
    <3>3. QED BY <1>1, <2>2, <3>2
  <2>3. CASE x # r
    <3>1. x \in OpenIn(o) /\ o2[x] = o[x] /\ o[x].fd # f BY <1>1, <2>3
    <3>2. [fd |-> o[x].fd, filter |-> d, ptr |-> x] \in fs
      BY <1>6, <3>1 DEF Filters
    <3>3. QED BY <3>1, <3>2
  <2>4. QED BY <2>1, <2>2, <2>3
<1>7. old \subseteq fs OBVIOUS
<1> HIDE DEF old, new
<1>8. Filters(old \cup {new}, o2) BY <1>3, <1>4, <1>5, <1>6 DEF Filters
<1>9. QED BY <1>3, <1>7, <1>8 DEF old, new

LEMMA FiltersRm ==
  ASSUME NEW o, NEW o2, NEW n, NEW r, NEW ev, Asked(o, n), Polled(o, o2, r, ev),
         NEW fs \in SUBSET [fd : Fds, filter : Dirs, ptr : Regs],
         Filters(fs, o), NEW e \in Dirs, e \in o[r].events,
         ev = o[r].events \ {e}
  PROVE  LET f == o[r].fd
         IN /\ Filters({x \in fs : x.fd # f \/ x.filter # e}, o2)
            /\ \E x \in fs : x.fd = f /\ x.filter = e
<1> DEFINE f   == o[r].fd
           old == {x \in fs : x.fd # f \/ x.filter # e}
<1>1. /\ r \in Regs /\ f \in Fds /\ r \in OpenIn(o)
      /\ o2[r].fd = f /\ o2[r].events = ev /\ OpenIn(o2) = OpenIn(o)
      /\ \A x \in OpenIn(o) \ {r} : x \in Regs /\ o2[x] = o[x] /\ o[x].fd # f
  BY OpenHasFile DEF Polled
<1>2. \A x \in fs : x.ptr \in Regs /\ x.ptr \in OpenIn(o)
  <2>1. \A x \in fs : x.ptr \in Regs /\ x.fd \in Fds OBVIOUS
  <2>2. \A x \in fs : o[x.ptr].fd # 0 BY <2>1, OpenHasFile DEF Filters
  <2>3. QED BY <2>1, <2>2 DEF OpenIn
<1>3. IsFiniteSet(old) BY FS_Subset DEF Filters
<1>4. \A x \in old : x.fd = o2[x.ptr].fd /\ x.filter \in o2[x.ptr].events
  <2> SUFFICES ASSUME NEW x \in old
               PROVE  x.fd = o2[x.ptr].fd /\ x.filter \in o2[x.ptr].events
    OBVIOUS
  <2>1. x.fd = o[x.ptr].fd /\ x.filter \in o[x.ptr].events BY DEF Filters
  <2>2. CASE x.ptr = r BY <1>1, <2>1, <2>2
  <2>3. CASE x.ptr # r
    <3>1. o2[x.ptr] = o[x.ptr] BY <1>1, <1>2, <2>3
    <3>2. QED BY <2>1, <3>1
  <2>4. QED BY <2>2, <2>3
<1>5. ASSUME NEW x \in OpenIn(o2), NEW d \in o2[x].events
      PROVE  [fd |-> o2[x].fd, filter |-> d, ptr |-> x] \in old
  <2>1. CASE x = r
    <3>1. d \in o[r].events /\ d # e BY <1>1, <1>5, <2>1
    <3>2. [fd |-> f, filter |-> d, ptr |-> r] \in fs BY <1>1, <3>1 DEF Filters
    <3>3. QED BY <1>1, <2>1, <3>1, <3>2
  <2>2. CASE x # r
    <3>1. x \in OpenIn(o) /\ o2[x] = o[x] /\ o[x].fd # f BY <1>1, <2>2
    <3>2. [fd |-> o[x].fd, filter |-> d, ptr |-> x] \in fs
      BY <1>5, <3>1 DEF Filters
    <3>3. QED BY <3>1, <3>2
  <2>3. QED BY <2>1, <2>2
<1>6. \E x \in fs : x.fd = f /\ x.filter = e
  <2> DEFINE x == [fd |-> f, filter |-> e, ptr |-> r]
  <2>1. x \in fs BY <1>1 DEF Filters
  <2>2. x.fd = f /\ x.filter = e OBVIOUS
  <2> HIDE DEF x
  <2>3. QED BY <2>1, <2>2, Zenon
<1> HIDE DEF old
<1>7. Filters(old, o2) BY <1>3, <1>4, <1>5 DEF Filters
<1>8. QED BY <1>6, <1>7 DEF old

LEMMA KqueueSet ==
  ASSUME NEW o, NEW o2, NEW n, NEW r, NEW ev, NEW p, Asked(o, n),
         Polled(o, o2, r, ev), KqueueRep(p, o, n), OneStep(o[r].events, ev)
  PROVE  KqueueRep(K!set_poll(p, r, o[r].fd, ev), o2, n)
<1> DEFINE f == o[r].fd
           q == K!set_poll(p, r, f, ev)
           en == [p.entry EXCEPT ![r].flags = ev]
           without(e) == {x \in p.filters : x.fd # f \/ x.filter # e}
           new(e) == [fd |-> f, filter |-> e, ptr |-> r]
<1>1. p \in KqueueType /\ Filters(p.filters, o) BY DEF KqueueRep
<1>2. r \in Regs /\ f \in Fds /\ r \in OpenIn(o) /\ ev \in SUBSET Dirs
  BY DEF Polled
<1>3. p.entry[r].flags = o[r].events BY <1>2 DEF KqueueRep
<1>4. en \in [Regs -> [fd : Fds \cup {0}, flags : SUBSET Dirs, freed : BOOLEAN]]
  <2> DEFINE e == [p.entry[r] EXCEPT !.flags = ev]
  <2>1. e \in [fd : Fds \cup {0}, flags : SUBSET Dirs, freed : BOOLEAN]
    BY <1>1, <1>2 DEF KqueueType
  <2>2. en = [p.entry EXCEPT ![r] = e] OBVIOUS
  <2> HIDE DEF e, en
  <2>3. QED BY <1>1, <1>2, <2>1, <2>2 DEF KqueueType
<1>5. PICK e \in Dirs : \/ e \notin o[r].events /\ ev = o[r].events \cup {e}
                        \/ e \in o[r].events /\ ev = o[r].events \ {e}
  BY DEF OneStep
<1>6. \E fs \in SUBSET [fd : Fds, filter : Dirs, ptr : Regs] :
        /\ Filters(fs, o2)
        /\ q = [p EXCEPT !.entry = en, !.filters = fs, !.ok = TRUE]
  <2>0. p.filters \in SUBSET [fd : Fds, filter : Dirs, ptr : Regs] /\ p.ok = TRUE
    BY <1>1 DEF KqueueType
  <2>1. CASE e \notin o[r].events /\ ev = o[r].events \cup {e}
    <3>1. /\ without(e) \cup {new(e)} \in SUBSET [fd : Fds, filter : Dirs, ptr : Regs]
          /\ Filters(without(e) \cup {new(e)}, o2)
      BY <1>1, <2>0, <2>1, FiltersAdd
    <3>2. ev \ p.entry[r].flags = {e} BY <1>3, <2>1
    <3>3. q = [p EXCEPT !.entry = en, !.filters = without(e) \cup {new(e)}]
      <4>1. (CHOOSE d \in {e} : TRUE) = e OBVIOUS
      <4>2. q = K!kevent_add([p EXCEPT !.entry[r].flags = ev], f, e, r)
        BY <3>2, <4>1 DEF K!set_poll
      <4>3. QED BY <1>1, <4>2 DEF K!kevent_add, KqueueType
    <3>4. q = [p EXCEPT !.entry = en, !.filters = without(e) \cup {new(e)},
                        !.ok = TRUE]
      <4> HIDE DEF en, without, new, q
      <4>1. QED BY <1>1, <2>0, <3>3 DEF KqueueType
    <3> HIDE DEF en, without, new, q
    <3>5. QED BY <3>1, <3>4
  <2>2. CASE e \in o[r].events /\ ev = o[r].events \ {e}
    <3>1. Filters(without(e), o2) /\ \E x \in p.filters : x.fd = f /\ x.filter = e
      BY <1>1, <2>0, <2>2, FiltersRm
    <3>2. ev \ p.entry[r].flags = {} /\ p.entry[r].flags \ ev = {e}
      BY <1>3, <2>2
    <3>3. q = [p EXCEPT !.entry = en, !.filters = without(e),
                        !.ok = p.ok /\ K!Has([p EXCEPT !.entry = en], f, e)]
      <4>1. (CHOOSE d \in {e} : TRUE) = e OBVIOUS
      <4>2. q = K!kevent_delete([p EXCEPT !.entry[r].flags = ev], f, e)
        BY <3>2, <4>1 DEF K!set_poll
      <4>3. QED BY <1>1, <4>2 DEF K!kevent_delete, KqueueType
    <3>4. K!Has([p EXCEPT !.entry = en], f, e)
      <4>1. [p EXCEPT !.entry = en].filters = p.filters BY <1>1 DEF KqueueType
      <4>2. QED BY <3>1, <4>1 DEF K!Has
    <3>5. q = [p EXCEPT !.entry = en, !.filters = without(e), !.ok = TRUE]
      <4>1. (p.ok /\ K!Has([p EXCEPT !.entry = en], f, e)) = TRUE BY <2>0, <3>4
      <4> HIDE DEF en, without, q
      <4>2. QED BY <3>3, <4>1
    <3>6. without(e) \in SUBSET [fd : Fds, filter : Dirs, ptr : Regs]
      BY <2>0
    <3> HIDE DEF en, without, q
    <3>7. QED BY <3>1, <3>5, <3>6
  <2>3. QED BY <1>5, <2>1, <2>2
<1> HIDE DEF q
<1>7. PICK fs \in SUBSET [fd : Fds, filter : Dirs, ptr : Regs] :
        /\ Filters(fs, o2)
        /\ q = [p EXCEPT !.entry = en, !.filters = fs, !.ok = TRUE]
  BY <1>6, Zenon
<1>8. q \in KqueueType
  <2> HIDE DEF en
  <2>1. QED BY <1>1, <1>4, <1>7 DEF KqueueType
<1>9. /\ q.entry = en /\ q.filters = fs
      /\ q.retired = p.retired /\ q.ev_buf = p.ev_buf
  <2> HIDE DEF en
  <2>1. QED BY <1>1, <1>7 DEF KqueueType
<1>10. Entries(q.entry, q.retired, o2, n)
  <2>1. Entries(p.entry, p.retired, o, n) BY DEF KqueueRep
  <2>2. Changed(p.entry, q.entry, r, p.entry[r].fd, p.entry[r].freed)
    BY <1>1, <1>2, <1>9 DEF KqueueType, Changed
  <2>3. Entries(q.entry, p.retired, o2, n)
    BY <2>1, <2>2, EntriesSet, Zenon
  <2>4. QED BY <1>9, <2>3, Zenon
<1>11. \A x \in OpenIn(o2) : q.entry[x].flags = o2[x].events
  <2>1. en[r].flags = ev /\ \A x \in Regs \ {r} : en[x] = p.entry[x]
    BY <1>1, <1>2 DEF KqueueType
  <2>2. /\ o2[r].events = ev /\ OpenIn(o2) = OpenIn(o)
        /\ \A x \in OpenIn(o) \ {r} : x \in Regs /\ o2[x] = o[x]
    BY OpenHasFile DEF Polled
  <2>3. \A x \in OpenIn(o) : p.entry[x].flags = o[x].events BY DEF KqueueRep
  <2> HIDE DEF en
  <2>4. QED BY <1>9, <2>1, <2>2, <2>3
<1>12. Batch(q.ev_buf, q.retired, o2)
  BY <1>9 DEF KqueueRep, Batch, Polled
<1>13. QED BY <1>7, <1>8, <1>9, <1>10, <1>11, <1>12 DEF KqueueRep, q

LEMMA KqueueWait ==
  ASSUME NEW o, NEW n, NEW p, Asked(o, n), KqueueRep(p, o, n),
         NEW of, Owners(of, o), NEW ready \in Ready,
         NEW q \in K!wait(p, ready, of)
  PROVE  KqueueRep(q, o, n)
<1> DEFINE hot == {x \in p.filters : ready[x.fd] \cap {x.filter, "err"} # {}}
           Of(x) == [ptr |-> x.ptr, of |-> of[x.fd],
                     ev |-> {x.filter} \cup (ready[x.fd] \cap {"err"})]
<1>1. p \in KqueueType /\ Filters(p.filters, o) BY DEF KqueueRep
<1>2. PICK Y \in SUBSET hot : \E s \in SetToSeqs(Y) :
        q = [p EXCEPT !.ev_buf = [i \in DOMAIN s |-> Of(s[i])]]
  <2>1. q \in {[p EXCEPT !.ev_buf = [i \in DOMAIN s |-> Of(s[i])]] :
                  s \in UNION {K!SetToSeqs(Z) : Z \in {T \in SUBSET hot :
                          T # {} /\ K!Cardinality(T) <= MaxEvents}}}
    BY Zenon DEF K!wait
  <2> HIDE DEF hot, Of
  <2>2. PICK s \in UNION {K!SetToSeqs(Z) : Z \in {T \in SUBSET hot :
                            T # {} /\ K!Cardinality(T) <= MaxEvents}} :
          q = [p EXCEPT !.ev_buf = [i \in DOMAIN s |-> Of(s[i])]]
    BY <2>1, Zenon
  <2>3. \E Y \in SUBSET hot : s \in K!SetToSeqs(Y) BY Zenon
  <2>4. QED BY <2>2, <2>3, SameSequences, Zenon
<1>3. PICK s \in SetToSeqs(Y) :
        q = [p EXCEPT !.ev_buf = [i \in DOMAIN s |-> Of(s[i])]]
  BY <1>2, Zenon
<1>4. PICK N \in Nat : DOMAIN s = 1..N /\ \A i \in 1..N : s[i] \in hot
  <2>1. IsFiniteSet(hot) BY <1>1, FS_Subset DEF Filters
  <2> HIDE DEF hot
  <2>2. QED BY <2>1, Ordered
<1>5. ASSUME NEW x \in hot
      PROVE  Of(x) \in Event /\ Of(x).ptr = Of(x).of /\ Of(x).ptr \in OpenIn(o)
  <2>1. x.ptr \in Regs /\ x.fd \in Fds /\ x.filter \in Events
    BY <1>1 DEF KqueueType, Dirs, Events
  <2>2. o[x.ptr].fd = x.fd BY <1>1 DEF Filters
  <2>3. x.ptr \in OpenIn(o) BY <2>1, <2>2, OpenHasFile DEF OpenIn
  <2>4. of[x.fd] = x.ptr BY <2>1, <2>2 DEF Owners
  <2>5. {x.filter} \cup (ready[x.fd] \cap {"err"}) \in SUBSET Events
    BY <2>1 DEF Events
  <2>6. QED BY <2>1, <2>3, <2>4, <2>5 DEF Event
<1> DEFINE b == [i \in 1..N |-> Of(s[i])]
<1>6. q = [p EXCEPT !.ev_buf = b] BY <1>3, <1>4, Zenon
<1> HIDE DEF Of, hot
<1>7. b \in Seq(Event) /\ \A i \in DOMAIN b :
        b[i].ptr = b[i].of /\ b[i].ptr \in OpenIn(o)
  BY <1>4, <1>5
<1> HIDE DEF b
<1>8. q \in KqueueType BY <1>1, <1>6, <1>7 DEF KqueueType
<1>9. q.entry = p.entry /\ q.retired = p.retired /\ q.filters = p.filters
      /\ q.ev_buf = b
  BY <1>1, <1>6 DEF KqueueType
<1>10. Batch(q.ev_buf, q.retired, o) BY <1>7, <1>9 DEF Batch
<1>11. QED BY <1>8, <1>9, <1>10 DEF KqueueRep

LEMMA KqueueCleanup ==
  ASSUME NEW o, NEW n, NEW p, Asked(o, n), KqueueRep(p, o, n)
  PROVE  KqueueRep(K!cleanup(p), o, n)
<1> DEFINE q == K!cleanup(p)
           en == [r \in Regs |-> IF r \in p.retired
                    THEN [p.entry[r] EXCEPT !.freed = TRUE] ELSE p.entry[r]]
<1>1. p \in KqueueType /\ Entries(p.entry, p.retired, o, n) BY DEF KqueueRep
<1>2. q = [p EXCEPT !.ev_buf = <<>>, !.retired = {}, !.entry = en]
  BY <1>1 DEF KqueueType, K!cleanup
<1> HIDE DEF q
<1>3. en \in [Regs -> [fd : Fds \cup {0}, flags : SUBSET Dirs,
                       freed : BOOLEAN]]
  <2> DEFINE Entry == [fd : Fds \cup {0}, flags : SUBSET Dirs, freed : BOOLEAN]
  <2>1. \A x \in Entry : [x EXCEPT !.freed = TRUE] \in Entry OBVIOUS
  <2>2. p.entry \in [Regs -> Entry] BY <1>1 DEF KqueueType
  <2> HIDE DEF Entry
  <2>3. en \in [Regs -> Entry] BY <2>1, <2>2
  <2>4. QED BY <2>3 DEF Entry
<1>4. Entries(en, {}, o, n) /\ \A r \in OpenIn(o) : en[r] = p.entry[r]
  <2>1. \A r \in Regs : en[r].fd = p.entry[r].fd
    BY <1>1 DEF KqueueType
  <2>2. \A r \in OpenIn(o) : en[r] = p.entry[r]
    BY <1>1 DEF Entries, OpenIn
  <2> HIDE DEF en
  <2>3. QED BY <1>1, <2>1, <2>2 DEF Entries
<1> HIDE DEF en
<1>5. q \in KqueueType BY <1>1, <1>2, <1>3, EmptySeq DEF KqueueType
<1>6. /\ q.entry = en /\ q.retired = {} /\ q.filters = p.filters
      /\ q.ev_buf = <<>>
  BY <1>1, <1>2 DEF KqueueType
<1>7. Batch(<<>>, {}, o) BY EmptySeq DEF Batch
<1>8. Filters(q.filters, o) BY <1>6 DEF KqueueRep
<1>9. Entries(q.entry, q.retired, o, n) /\ Batch(q.ev_buf, q.retired, o)
  BY <1>4, <1>6, <1>7, Zenon
<1>10. \A r \in OpenIn(o) : q.entry[r].flags = o[r].events
  BY <1>4, <1>6 DEF KqueueRep
<1>11. QED BY <1>5, <1>8, <1>9, <1>10, Zenon DEF KqueueRep, q

LEMMA KqueueItem ==
  ASSUME NEW o, NEW n, NEW p, Asked(o, n), KqueueRep(p, o, n),
         NEW i \in 1..K!count(p)
  PROVE  ItemRight(K!item(p, i), o)
<1> DEFINE e == p.ev_buf[i]
<1>1. i \in DOMAIN p.ev_buf /\ p \in KqueueType
  <2>1. p \in KqueueType BY DEF KqueueRep
  <2>2. p.ev_buf \in Seq(Event) BY <2>1 DEF KqueueType
  <2>3. QED BY <2>1, <2>2, LenProperties DEF K!count
<1>2. e.ptr = e.of /\ e.ptr \in OpenIn(o) \cup p.retired
  BY <1>1 DEF KqueueRep, Batch
<1>3. e.ptr \in Regs BY <1>1, <1>2 DEF KqueueType, OpenIn
<1>4. p.entry[e.ptr].fd = o[e.ptr].fd /\ ~p.entry[e.ptr].freed
  BY <1>2, <1>3 DEF KqueueRep, Entries
<1>5. QED BY <1>2, <1>3, <1>4 DEF ItemRight, K!item, OpenIn

LEMMA KqueueWatched ==
  ASSUME NEW o, NEW n, NEW p, Asked(o, n), KqueueRep(p, o, n)
  PROVE  K!Watched(p) = {w \in Wanted(o) : w[3] # {}}
<1> DEFINE Fl(x) == {y.filter : y \in {z \in p.filters : z.fd = x.fd}}
           W(x) == <<x.ptr, x.fd, Fl(x)>>
<1>1. p \in KqueueType /\ Filters(p.filters, o) BY DEF KqueueRep
<1>2. ASSUME NEW x \in p.filters
      PROVE  /\ x.ptr \in OpenIn(o) /\ x.fd = o[x.ptr].fd
             /\ x.filter \in o[x.ptr].events
  <2>1. x.ptr \in Regs /\ x.fd \in Fds BY <1>1 DEF KqueueType
  <2>2. o[x.ptr].fd = x.fd /\ x.filter \in o[x.ptr].events BY <1>1 DEF Filters
  <2>3. QED BY <2>1, <2>2, OpenHasFile DEF OpenIn
<1>3. ASSUME NEW x \in p.filters PROVE Fl(x) = o[x.ptr].events
  <2>1. ASSUME NEW y \in p.filters, y.fd = x.fd PROVE y.filter \in o[x.ptr].events
    <3>1. y.ptr = x.ptr BY <1>2, <2>1 DEF Asked
    <3>2. QED BY <1>2, <3>1
  <2>2. ASSUME NEW e \in o[x.ptr].events
        PROVE  \E y \in p.filters : y.fd = x.fd /\ e = y.filter
    <3> DEFINE y == [fd |-> x.fd, filter |-> e, ptr |-> x.ptr]
    <3>1. y \in p.filters
      <4>1. [fd |-> o[x.ptr].fd, filter |-> e, ptr |-> x.ptr] \in p.filters
        BY <1>1, <1>2 DEF Filters
      <4>2. QED BY <1>2, <4>1
    <3>2. y.fd = x.fd /\ e = y.filter OBVIOUS
    <3> HIDE DEF y
    <3>3. QED BY <3>1, <3>2
  <2>3. QED BY <2>1, <2>2
<1>4. ASSUME NEW x \in p.filters
      PROVE  /\ W(x) = <<x.ptr, o[x.ptr].fd, o[x.ptr].events>>
             /\ x.ptr \in OpenIn(o) /\ o[x.ptr].events # {}
  BY <1>2, <1>3
<1>5. ASSUME NEW r \in OpenIn(o), o[r].events # {}
      PROVE  \E x \in p.filters : W(x) = <<r, o[r].fd, o[r].events>>
  <2>1. PICK e \in o[r].events : TRUE BY <1>5
  <2> DEFINE x == [fd |-> o[r].fd, filter |-> e, ptr |-> r]
  <2>2. x \in p.filters /\ x.ptr = r BY <1>1 DEF Filters
  <2> HIDE DEF x, W
  <2>3. W(x) = <<r, o[r].fd, o[r].events>> BY <1>4, <2>2
  <2>4. QED BY <2>2, <2>3
<1>6. K!Watched(p) = {W(x) : x \in p.filters} BY DEF K!Watched
<1> DEFINE V(r) == <<r, o[r].fd, o[r].events>>
<1>7. \A r : V(r)[3] = o[r].events OBVIOUS
<1>8. /\ \A x \in p.filters : W(x) = V(x.ptr) /\ x.ptr \in OpenIn(o)
                             /\ o[x.ptr].events # {}
      /\ \A r \in OpenIn(o) : o[r].events # {} => \E x \in p.filters : W(x) = V(r)
      /\ Wanted(o) = {V(r) : r \in OpenIn(o)}
  BY <1>4, <1>5 DEF Wanted
<1> HIDE DEF W, V
<1>9. QED BY <1>6, <1>7, <1>8

-----------------------------------------------------------------------------
(* The arrays of poll_t and select_t, and their holes.                     *)

LEMMA Least ==
  ASSUME NEW T, T \subseteq Nat, T # {}
  PROVE  \E m \in T : \A n \in T : m <= n
<1>1. PICK m \in T : \A n \in T : ~(<<n, m>> \in OpToRel(<, Nat))
  BY NatLessThanWellFounded, WFMin
<1>2. \A n \in T : ~(n < m) BY <1>1 DEF OpToRel
<1>3. QED BY <1>2

\* R is the function of the definition of WithoutHoles, up to the place k.
IsRest(R, s, k) ==
  R = [i \in 0..k |-> IF i = 0 THEN <<>>
                      ELSE IF s[i].fd # 0 THEN Append(R[i - 1], s[i])
                      ELSE R[i - 1]]

LEMMA RestExists ==
  ASSUME NEW s, NEW N \in Nat
  PROVE  \E R : IsRest(R, s, N)
<1> DEFINE T == {k \in Nat : ~\E R : IsRest(R, s, k)}
           Then(w, i) == IF s[i].fd # 0 THEN Append(w, s[i]) ELSE w
<1>1. SUFFICES ASSUME T # {} PROVE FALSE OBVIOUS
<1>2. PICK m \in T : \A n \in T : m <= n BY <1>1, Least
<1>3. m # 0
  <2> DEFINE R == [i \in 0..0 |-> <<>>]
  <2>1. R = [i \in 0..0 |-> IF i = 0 THEN <<>> ELSE Then(R[i - 1], i)]
    OBVIOUS
  <2>2. IsRest(R, s, 0) BY <2>1, Zenon DEF IsRest
  <2>3. QED BY <2>2
<1>4. m - 1 \in Nat /\ m - 1 \notin T BY <1>2, <1>3
<1>5. PICK R : IsRest(R, s, m - 1) BY <1>4
<1> DEFINE G == [i \in 0..m |-> IF i = m THEN Then(R[m - 1], m) ELSE R[i]]
           H == [i \in 0..m |-> IF i = 0 THEN <<>> ELSE Then(G[i - 1], i)]
<1>6. ASSUME NEW i \in 0..m PROVE G[i] = H[i]
  <2>1. CASE i = m
    <3>1. m - 1 \in 0..m /\ m - 1 # m /\ m # 0 /\ m \in 0..m BY <1>3, <1>4
    <3> HIDE DEF Then
    <3>2. G[m - 1] = R[m - 1] BY <3>1
    <3>3. QED BY <2>1, <3>1, <3>2
  <2>2. CASE i # m
    <3>1. i \in 0..m - 1 BY <2>2
    <3>2. R[i] = IF i = 0 THEN <<>> ELSE Then(R[i - 1], i)
      BY <1>5, <3>1, Zenon DEF IsRest
    <3>3. i # 0 => i - 1 \in 0..m /\ i - 1 # m BY <3>1
    <3> HIDE DEF Then
    <3>4. i # 0 => G[i - 1] = R[i - 1] BY <3>3
    <3>5. QED BY <2>2, <3>2, <3>4
  <2>3. QED BY <2>1, <2>2
<1>7. G = H
  <2> HIDE DEF Then
  <2>1. QED BY <1>6
<1>8. IsRest(G, s, m)
  <2> HIDE DEF G
  <2>1. QED BY <1>7, Zenon DEF IsRest
<1>9. QED BY <1>2, <1>8

\* w has, each once, what is left of the first k places of s.
Kept(s, k, w) ==
  /\ \A i \in DOMAIN w : \E j \in 1..k : s[j].fd # 0 /\ w[i] = s[j]
  /\ \A j \in 1..k : s[j].fd # 0 => \E i \in DOMAIN w : w[i] = s[j]
  /\ \A i, j \in DOMAIN w : w[i].fd = w[j].fd => i = j

LEMMA KeptNext ==
  ASSUME NEW T, NEW s \in Seq(T), OncePerFile(s), NEW k \in 1..Len(s),
         NEW w \in Seq(T), Kept(s, k - 1, w), s[k].fd # 0
  PROVE  Append(w, s[k]) \in Seq(T) /\ Kept(s, k, Append(w, s[k]))
<1> DEFINE v == Append(w, s[k])
           N == Len(w)
<1>1. N \in Nat /\ DOMAIN w = 1..N /\ s[k] \in T /\ DOMAIN s = 1..Len(s)
  OBVIOUS
<1>2. /\ v \in Seq(T) /\ DOMAIN v = 1..N + 1 /\ v[N + 1] = s[k]
      /\ \A i \in 1..N : v[i] = w[i]
  BY <1>1
<1> HIDE DEF v, N
<1>3. \A j : j \in 1..k <=> j \in 1..k - 1 \/ j = k OBVIOUS
<1>4. \A i : i \in 1..N + 1 <=> i \in 1..N \/ i = N + 1 BY <1>1
<1>5. \A i \in DOMAIN v : \E j \in 1..k : s[j].fd # 0 /\ v[i] = s[j]
  BY <1>1, <1>2, <1>3, <1>4 DEF Kept
<1>6. \A j \in 1..k : s[j].fd # 0 => \E i \in DOMAIN v : v[i] = s[j]
  <2> SUFFICES ASSUME NEW j \in 1..k, s[j].fd # 0
               PROVE  \E i \in DOMAIN v : v[i] = s[j]
    OBVIOUS
  <2>1. CASE j = k BY <1>2, <1>4, <2>1
  <2>2. CASE j # k
    <3>1. PICK i \in DOMAIN w : w[i] = s[j] BY <1>3, <2>2 DEF Kept
    <3>2. QED BY <1>1, <1>2, <1>4, <3>1
  <2>3. QED BY <2>1, <2>2
<1>7. ASSUME NEW i \in 1..N PROVE v[i].fd # s[k].fd
  <2>1. PICK j \in 1..k - 1 : s[j].fd # 0 /\ w[i] = s[j] BY <1>1 DEF Kept
  <2>2. j \in DOMAIN s /\ k \in DOMAIN s /\ j # k BY <1>1
  <2>3. QED BY <1>2, <2>1, <2>2 DEF OncePerFile
<1>8. ASSUME NEW i \in DOMAIN v, NEW j \in DOMAIN v, v[i].fd = v[j].fd
      PROVE  i = j
  <2>1. CASE i \in 1..N /\ j \in 1..N BY <1>1, <1>2, <1>8, <2>1 DEF Kept
  <2>2. CASE ~(i \in 1..N /\ j \in 1..N) BY <1>2, <1>4, <1>7, <1>8, <2>2
  <2>3. QED BY <2>1, <2>2
<1>9. QED BY <1>2, <1>5, <1>6, <1>8 DEF Kept, v

LEMMA RestKept ==
  ASSUME NEW T, NEW s \in Seq(T), OncePerFile(s), NEW R, IsRest(R, s, Len(s))
  PROVE  R[Len(s)] \in Seq(T) /\ Kept(s, Len(s), R[Len(s)])
<1> DEFINE N == Len(s)
           Bad == {k \in 0..N : ~(R[k] \in Seq(T) /\ Kept(s, k, R[k]))}
<1>1. N \in Nat OBVIOUS
<1>2. SUFFICES ASSUME Bad # {} PROVE FALSE BY <1>1
<1>3. PICK k \in Bad : \A n \in Bad : k <= n
  <2>1. Bad \subseteq Nat BY <1>1
  <2>2. QED BY <1>2, <2>1, Least
<1>4. R[k] = IF k = 0 THEN <<>>
             ELSE IF s[k].fd # 0 THEN Append(R[k - 1], s[k]) ELSE R[k - 1]
  BY Zenon DEF IsRest
<1>5. k # 0
  <2>1. Kept(s, 0, <<>>) /\ <<>> \in Seq(T) BY EmptySeq DEF Kept
  <2>2. QED BY <1>4, <2>1
<1>6. k \in 1..N /\ R[k - 1] \in Seq(T) /\ Kept(s, k - 1, R[k - 1])
  BY <1>1, <1>3, <1>5
<1>7. CASE s[k].fd # 0 BY <1>4, <1>5, <1>6, <1>7, KeptNext
<1>8. CASE s[k].fd = 0
  <2>1. R[k] = R[k - 1] BY <1>4, <1>5, <1>8
  <2>2. \A j : j \in 1..k <=> j \in 1..k - 1 \/ j = k BY <1>6
  <2>3. Kept(s, k, R[k - 1]) BY <1>6, <1>8, <2>2 DEF Kept
  <2>4. QED BY <1>6, <2>1, <2>3
<1>9. QED BY <1>7, <1>8

\* Both modules define it, in the same way.
LEMMA Filled ==
  ASSUME NEW T, NEW s \in Seq(T), OncePerFile(s)
  PROVE  /\ P!WithoutHoles(s) \in Seq(T) /\ Kept(s, Len(s), P!WithoutHoles(s))
         /\ S!WithoutHoles(s) \in Seq(T) /\ Kept(s, Len(s), S!WithoutHoles(s))
<1> DEFINE R == CHOOSE R : IsRest(R, s, Len(s))
<1>1. Len(s) \in Nat OBVIOUS
<1>2. \E Q : IsRest(Q, s, Len(s)) BY <1>1, RestExists
<1>3. IsRest(R, s, Len(s)) BY <1>2, Zenon
<1>4. P!WithoutHoles(s) = R[Len(s)] BY DEF P!WithoutHoles, IsRest
<1>5. S!WithoutHoles(s) = R[Len(s)] BY DEF S!WithoutHoles, IsRest
<1> HIDE DEF R
<1>6. QED BY <1>3, <1>4, <1>5, RestKept

-----------------------------------------------------------------------------
(* poll_t                                                                  *)

LEMMA PollAdd ==
  ASSUME NEW o, NEW o2, NEW r, NEW f, NEW p, Asked(o, r), Made(o, o2, r, f),
         PollRep(p, o, r)
  PROVE  PollRep(P!add_fd(p, f, r), o2, r + 1)
<1> DEFINE q   == P!add_fd(p, f, r)
           new == [fd |-> f, events |-> {}, revents |-> {}, of |-> 0]
           N   == Len(p.pollset)
           ps  == Append(p.pollset, new)
           ix  == [p.index EXCEPT ![f] = N + 1]
           re  == [p.reactor EXCEPT ![f] = r]
<1>0. /\ r \in Regs /\ f \in Fds /\ OpenIn(o2) = OpenIn(o) \cup {r}
      /\ o2[r].fd = f /\ o2[r].events = {} /\ o[r].fd = 0
      /\ \A x \in OpenIn(o) : /\ x \in Regs \ {r} /\ o2[x] = o[x]
                              /\ o[x].fd \in Fds \ {f}
      /\ \A x \in Regs \ {r} : o2[x] = o[x]
  BY MadeIs
<1>1. p \in PollType /\ Indexed(p.pollset, p.index, p.reactor, o) BY DEF PollRep
<1>2. p.index[f] = 0
  <2>1. \A x \in Regs : o[x].fd # f BY DEF Made
  <2>2. QED BY <1>0, <1>1, <2>1 DEF Indexed
<1>3. /\ p.pollset \in Seq(PollFd) /\ new \in PollFd /\ N \in Nat
      /\ p.index \in [Fds -> Nat] /\ p.reactor \in [Fds -> Regs \cup {0}]
      /\ p.ok = TRUE
  <2>1. new \in PollFd BY <1>0 DEF PollFd
  <2>2. /\ p.pollset \in Seq(PollFd) /\ p.ok = TRUE
        /\ p.index \in [Fds -> Nat] /\ p.reactor \in [Fds -> Regs \cup {0}]
    BY <1>1 DEF PollType
  <2> HIDE DEF new
  <2>3. QED BY <2>1, <2>2
<1>4. /\ ps \in Seq(PollFd) /\ DOMAIN ps = 1..N + 1 /\ ps[N + 1] = new
      /\ \A i \in 1..N : ps[i] = p.pollset[i]
      /\ DOMAIN p.pollset = 1..N
  <2> HIDE DEF new
  <2>1. QED BY <1>3
<1>5. /\ ix \in [Fds -> Nat] /\ ix[f] = N + 1
      /\ \A g \in Fds \ {f} : ix[g] = p.index[g]
      /\ re \in [Fds -> Regs \cup {0}] /\ re[f] = r
      /\ \A g \in Fds \ {f} : re[g] = p.reactor[g]
  BY <1>0, <1>3
<1>6. q = [p EXCEPT !.pollset = ps, !.index = ix, !.reactor = re, !.ok = TRUE]
  <2>1. (p.ok /\ p.index[f] = 0) = TRUE BY <1>2, <1>3
  <2>2. QED BY <1>1, <2>1 DEF PollType, P!add_fd
<1> HIDE DEF q, ps, ix, re
<1>7. q \in PollType BY <1>1, <1>4, <1>5, <1>6 DEF PollType
<1>8. q.pollset = ps /\ q.index = ix /\ q.reactor = re
  BY <1>1, <1>6 DEF PollType
<1>9. \A g \in Fds : ix[g] # 0 <=> \E x \in Regs : o2[x].fd = g
  <2> SUFFICES ASSUME NEW g \in Fds
               PROVE  ix[g] # 0 <=> \E x \in Regs : o2[x].fd = g
    OBVIOUS
  <2>1. CASE g = f
    <3>1. ix[g] # 0 BY <1>3, <1>5, <2>1
    <3>2. QED BY <1>0, <2>1, <3>1
  <2>2. CASE g # f
    <3>1. p.index[g] # 0 <=> \E x \in Regs : o[x].fd = g BY <1>1 DEF Indexed
    <3>2. o[r].fd # g BY <1>0, OpenHasFile
    <3>3. \A x \in Regs : o2[x].fd = g <=> o[x].fd = g
      BY <1>0, <2>2, <3>2
    <3>4. QED BY <1>5, <2>2, <3>1, <3>3
  <2>3. QED BY <2>1, <2>2
<1>10. \A x \in OpenIn(o2) : /\ re[o2[x].fd] = x
                             /\ ix[o2[x].fd] \in DOMAIN ps
                             /\ ps[ix[o2[x].fd]].fd = o2[x].fd
                             /\ ps[ix[o2[x].fd]].events = o2[x].events
  <2> SUFFICES ASSUME NEW x \in OpenIn(o2)
               PROVE  /\ re[o2[x].fd] = x
                      /\ ix[o2[x].fd] \in DOMAIN ps
                      /\ ps[ix[o2[x].fd]].fd = o2[x].fd
                      /\ ps[ix[o2[x].fd]].events = o2[x].events
    OBVIOUS
  <2>1. CASE x = r
    <3>1. ps[N + 1].fd = f /\ ps[N + 1].events = {} BY <1>4
    <3>2. ix[f] \in 1..N + 1 BY <1>3, <1>5
    <3> HIDE DEF new
    <3>3. QED BY <1>0, <1>4, <1>5, <2>1, <3>1, <3>2
  <2>2. CASE x # r
    <3>1. /\ x \in OpenIn(o) /\ o2[x] = o[x] /\ o[x].fd \in Fds \ {f}
      BY <1>0, <2>2
    <3>2. /\ p.reactor[o[x].fd] = x
          /\ p.index[o[x].fd] \in 1..N
          /\ p.pollset[p.index[o[x].fd]].fd = o[x].fd
          /\ p.pollset[p.index[o[x].fd]].events = o[x].events
      BY <1>1, <1>4, <3>1 DEF Indexed
    <3>3. ix[o[x].fd] = p.index[o[x].fd] /\ re[o[x].fd] = p.reactor[o[x].fd]
      BY <1>5, <3>1
    <3>4. p.index[o[x].fd] \in 1..N + 1 BY <1>3, <3>2
    <3>5. QED BY <1>4, <3>1, <3>2, <3>3, <3>4
  <2>3. QED BY <2>1, <2>2
<1>11. ASSUME NEW i \in DOMAIN ps, ps[i].fd # 0
       PROVE  /\ ix[ps[i].fd] = i
              /\ ps[i].revents # {} => ps[i].of = re[ps[i].fd]
  <2>1. CASE i = N + 1 BY <1>4, <1>5, <2>1
  <2>2. CASE i # N + 1
    <3>1. i \in 1..N /\ ps[i] = p.pollset[i] BY <1>3, <1>4, <2>2
    <3>2. /\ p.index[ps[i].fd] = i
          /\ ps[i].revents # {} => ps[i].of = p.reactor[ps[i].fd]
      BY <1>1, <1>4, <1>11, <3>1 DEF Indexed
    <3>3. ps[i].fd \in Fds
      <4>1. ps[i] \in PollFd BY <1>4
      <4>2. QED BY <1>11, <4>1 DEF PollFd
    <3>4. ps[i].fd # f BY <1>2, <1>3, <3>1, <3>2
    <3>5. QED BY <1>5, <3>2, <3>3, <3>4
  <2>3. QED BY <2>1, <2>2
<1>12. Indexed(ps, ix, re, o2) BY <1>9, <1>10, <1>11 DEF Indexed
<1>13. QED BY <1>7, <1>8, <1>12 DEF PollRep, q

LEMMA GoneIs ==
  ASSUME NEW o, NEW o2, NEW n, NEW r, Asked(o, n), Gone(o, o2, r)
  PROVE  /\ r \in Regs /\ r \in OpenIn(o) /\ o[r].fd \in Fds
         /\ OpenIn(o2) = OpenIn(o) \ {r} /\ o2[r].fd = 0 /\ o2[r].events = {}
         /\ \A x \in OpenIn(o2) : /\ x \in Regs \ {r} /\ o2[x] = o[x]
                                  /\ x \in OpenIn(o) /\ o[x].fd \in Fds \ {o[r].fd}
         /\ \A x \in Regs \ {r} : o2[x] = o[x] /\ o[x].fd # o[r].fd
BY OpenHasFile DEF Gone

LEMMA PolledIs ==
  ASSUME NEW o, NEW o2, NEW n, NEW r, NEW ev, Asked(o, n), Polled(o, o2, r, ev)
  PROVE  /\ r \in Regs /\ r \in OpenIn(o) /\ o[r].fd \in Fds
         /\ OpenIn(o2) = OpenIn(o) /\ o2[r].fd = o[r].fd /\ o2[r].events = ev
         /\ \A x \in OpenIn(o) \ {r} : /\ x \in Regs /\ o2[x] = o[x]
                                       /\ o[x].fd \in Fds \ {o[r].fd}
         /\ \A x \in Regs \ {r} : o2[x] = o[x] /\ o[x].fd # o[r].fd
BY OpenHasFile DEF Polled

LEMMA PollRm ==
  ASSUME NEW o, NEW o2, NEW n, NEW r, NEW p, Asked(o, n), Gone(o, o2, r),
         PollRep(p, o, n)
  PROVE  PollRep(P!rm_fd(p, r, o[r].fd), o2, n)
<1> DEFINE f   == o[r].fd
           q   == P!rm_fd(p, r, f)
           k   == p.index[f]
           gone == [p.pollset[k] EXCEPT !.fd = 0]
           ps  == [p.pollset EXCEPT ![k] = gone]
           ix  == [p.index EXCEPT ![f] = 0]
           N   == Len(p.pollset)
<1>0. /\ r \in Regs /\ r \in OpenIn(o) /\ f \in Fds
      /\ OpenIn(o2) = OpenIn(o) \ {r} /\ o2[r].fd = 0
      /\ \A x \in OpenIn(o2) : /\ x \in Regs \ {r} /\ o2[x] = o[x]
                               /\ x \in OpenIn(o) /\ o[x].fd \in Fds \ {f}
      /\ \A x \in Regs \ {r} : o2[x] = o[x] /\ o[x].fd # f
  BY GoneIs
<1>1. p \in PollType /\ Indexed(p.pollset, p.index, p.reactor, o) BY DEF PollRep
<1>3. /\ p.pollset \in Seq(PollFd) /\ N \in Nat /\ DOMAIN p.pollset = 1..N
      /\ p.index \in [Fds -> Nat] /\ p.reactor \in [Fds -> Regs \cup {0}]
  BY <1>1 DEF PollType
<1>2. k \in 1..N /\ k # 0 /\ p.pollset[k].fd = f
  BY <1>0, <1>1, <1>3 DEF Indexed
<1>4. /\ ps \in Seq(PollFd) /\ DOMAIN ps = 1..N /\ ps[k].fd = 0
      /\ \A i \in 1..N \ {k} : ps[i] = p.pollset[i]
  <2>1. gone \in PollFd /\ gone.fd = 0
    <3>1. p.pollset[k] \in PollFd BY <1>2, <1>3
    <3> HIDE DEF k
    <3>2. QED BY <3>1 DEF PollFd
  <2> HIDE DEF gone
  <2>2. QED BY <1>2, <1>3, <2>1
<1>5. ix \in [Fds -> Nat] /\ ix[f] = 0 /\ \A g \in Fds \ {f} : ix[g] = p.index[g]
  BY <1>0, <1>3
<1>6. q = [p EXCEPT !.pollset = ps, !.index = ix, !.retired = TRUE]
  BY <1>1, <1>2 DEF PollType, P!rm_fd
<1> HIDE DEF q, ps, ix, k
<1>7. q \in PollType BY <1>1, <1>4, <1>5, <1>6 DEF PollType
<1>8. q.pollset = ps /\ q.index = ix /\ q.reactor = p.reactor
  BY <1>1, <1>6 DEF PollType
<1>9. \A g \in Fds : ix[g] # 0 <=> \E x \in Regs : o2[x].fd = g
  <2> SUFFICES ASSUME NEW g \in Fds
               PROVE  ix[g] # 0 <=> \E x \in Regs : o2[x].fd = g
    OBVIOUS
  <2>1. g # 0 BY OpenHasFile
  <2>2. CASE g = f BY <1>0, <1>5, <2>1, <2>2
  <2>3. CASE g # f
    <3>1. p.index[g] # 0 <=> \E x \in Regs : o[x].fd = g BY <1>1 DEF Indexed
    <3>2. \A x \in Regs : o2[x].fd = g <=> o[x].fd = g
      BY <1>0, <2>1, <2>3
    <3>3. QED BY <1>5, <2>3, <3>1, <3>2
  <2>4. QED BY <2>2, <2>3
<1>10. \A x \in OpenIn(o2) : /\ p.reactor[o2[x].fd] = x
                             /\ ix[o2[x].fd] \in DOMAIN ps
                             /\ ps[ix[o2[x].fd]].fd = o2[x].fd
                             /\ ps[ix[o2[x].fd]].events = o2[x].events
  <2> SUFFICES ASSUME NEW x \in OpenIn(o2)
               PROVE  /\ p.reactor[o2[x].fd] = x
                      /\ ix[o2[x].fd] \in DOMAIN ps
                      /\ ps[ix[o2[x].fd]].fd = o2[x].fd
                      /\ ps[ix[o2[x].fd]].events = o2[x].events
    OBVIOUS
  <2>1. /\ x \in OpenIn(o) /\ o2[x] = o[x] /\ o[x].fd \in Fds \ {f} BY <1>0
  <2>2. /\ p.reactor[o[x].fd] = x
        /\ p.index[o[x].fd] \in 1..N
        /\ p.pollset[p.index[o[x].fd]].fd = o[x].fd
        /\ p.pollset[p.index[o[x].fd]].events = o[x].events
    BY <1>1, <1>3, <2>1 DEF Indexed
  <2>3. ix[o[x].fd] = p.index[o[x].fd] /\ p.index[o[x].fd] # k
    BY <1>2, <1>5, <2>1, <2>2
  <2>4. QED BY <1>4, <2>1, <2>2, <2>3
<1>11. ASSUME NEW i \in DOMAIN ps, ps[i].fd # 0
       PROVE  /\ ix[ps[i].fd] = i
              /\ ps[i].revents # {} => ps[i].of = p.reactor[ps[i].fd]
  <2>1. i # k /\ i \in 1..N /\ ps[i] = p.pollset[i] BY <1>4, <1>11
  <2>2. /\ p.index[ps[i].fd] = i
        /\ ps[i].revents # {} => ps[i].of = p.reactor[ps[i].fd]
    BY <1>1, <1>3, <1>11, <2>1 DEF Indexed
  <2>3. ps[i].fd \in Fds
    <3>1. ps[i] \in PollFd BY <1>4
    <3>2. QED BY <1>11, <3>1 DEF PollFd
  <2>4. ps[i].fd # f BY <2>1, <2>2 DEF k
  <2>5. QED BY <1>5, <2>2, <2>3, <2>4
<1>12. Indexed(ps, ix, p.reactor, o2) BY <1>9, <1>10, <1>11 DEF Indexed
<1>13. QED BY <1>7, <1>8, <1>12 DEF PollRep, q

LEMMA PollSetEvents ==
  ASSUME NEW o, NEW o2, NEW n, NEW r, NEW ev, NEW p, Asked(o, n),
         Polled(o, o2, r, ev), PollRep(p, o, n)
  PROVE  PollRep(P!set_poll(p, r, o[r].fd, ev), o2, n)
<1> DEFINE f   == o[r].fd
           q   == P!set_poll(p, r, f, ev)
           k   == p.index[f]
           new == [p.pollset[k] EXCEPT !.events = ev]
           ps  == [p.pollset EXCEPT ![k] = new]
           N   == Len(p.pollset)
<1>0. /\ r \in Regs /\ r \in OpenIn(o) /\ f \in Fds
      /\ OpenIn(o2) = OpenIn(o) /\ o2[r].fd = f /\ o2[r].events = ev
      /\ \A x \in OpenIn(o) \ {r} : /\ x \in Regs /\ o2[x] = o[x]
                                    /\ o[x].fd \in Fds \ {f}
      /\ \A x \in Regs \ {r} : o2[x] = o[x] /\ o[x].fd # f
  BY PolledIs
<1>1. p \in PollType /\ Indexed(p.pollset, p.index, p.reactor, o) BY DEF PollRep
<1>2. ev \in SUBSET Dirs BY DEF Polled
<1>3. /\ p.pollset \in Seq(PollFd) /\ N \in Nat /\ DOMAIN p.pollset = 1..N
      /\ p.index \in [Fds -> Nat] /\ p.reactor \in [Fds -> Regs \cup {0}]
  BY <1>1 DEF PollType
<1>4. k \in 1..N /\ p.pollset[k].fd = f
  BY <1>0, <1>1, <1>3 DEF Indexed
<1>5. /\ ps \in Seq(PollFd) /\ DOMAIN ps = 1..N /\ ps[k].events = ev
      /\ \A i \in 1..N : ps[i].fd = p.pollset[i].fd /\ ps[i].of = p.pollset[i].of
                          /\ ps[i].revents = p.pollset[i].revents
      /\ \A i \in 1..N \ {k} : ps[i] = p.pollset[i]
  <2>1. /\ new \in PollFd /\ new.events = ev /\ new.fd = p.pollset[k].fd
        /\ new.of = p.pollset[k].of /\ new.revents = p.pollset[k].revents
    <3>1. p.pollset[k] \in PollFd BY <1>3, <1>4
    <3> HIDE DEF k
    <3>2. QED BY <1>2, <3>1 DEF PollFd
  <2> HIDE DEF new, k
  <2>2. ps \in Seq(PollFd) /\ DOMAIN ps = 1..N BY <1>3, <1>4, <2>1
  <2>3. ps[k] = new /\ \A i \in 1..N \ {k} : ps[i] = p.pollset[i]
    BY <1>3, <1>4
  <2> HIDE DEF ps, N
  <2>4. \A i \in 1..N : i \in 1..N \ {k} \/ (i = k /\ ps[i] = new)
    BY <2>3
  <2>5. ps[k].events = ev BY <2>1, <2>3
  <2>6. ASSUME NEW i \in 1..N
        PROVE  /\ ps[i].fd = p.pollset[i].fd /\ ps[i].of = p.pollset[i].of
               /\ ps[i].revents = p.pollset[i].revents
    <3>1. CASE i \in 1..N \ {k}
      <4>1. ps[i] = p.pollset[i] BY <2>3, <3>1
      <4>2. QED BY <4>1
    <3>2. CASE i = k /\ ps[i] = new BY <2>1, <3>2
    <3>3. QED BY <2>4, <3>1, <3>2
  <2>7. QED BY <2>2, <2>3, <2>5, <2>6
<1>6. q = [p EXCEPT !.pollset = ps]
  BY <1>1, <1>3, <1>4 DEF PollType, P!set_poll
<1> HIDE DEF q, ps, k
<1>7. q \in PollType BY <1>1, <1>5, <1>6 DEF PollType
<1>8. q.pollset = ps /\ q.index = p.index /\ q.reactor = p.reactor
  BY <1>1, <1>6 DEF PollType
<1>9. \A g \in Fds : p.index[g] # 0 <=> \E x \in Regs : o2[x].fd = g
  <2>1. \A x \in Regs : o2[x].fd = o[x].fd BY <1>0
  <2>2. QED BY <1>1, <2>1 DEF Indexed
<1>10. \A x \in OpenIn(o2) : /\ p.reactor[o2[x].fd] = x
                             /\ p.index[o2[x].fd] \in DOMAIN ps
                             /\ ps[p.index[o2[x].fd]].fd = o2[x].fd
                             /\ ps[p.index[o2[x].fd]].events = o2[x].events
  <2> SUFFICES ASSUME NEW x \in OpenIn(o)
               PROVE  /\ p.reactor[o2[x].fd] = x
                      /\ p.index[o2[x].fd] \in DOMAIN ps
                      /\ ps[p.index[o2[x].fd]].fd = o2[x].fd
                      /\ ps[p.index[o2[x].fd]].events = o2[x].events
    BY <1>0
  <2>1. /\ p.reactor[o[x].fd] = x
        /\ p.index[o[x].fd] \in 1..N
        /\ p.pollset[p.index[o[x].fd]].fd = o[x].fd
        /\ p.pollset[p.index[o[x].fd]].events = o[x].events
    BY <1>1, <1>3 DEF Indexed
  <2>2. CASE x = r BY <1>0, <1>5, <2>1, <2>2 DEF k
  <2>3. CASE x # r
    <3>1. o2[x] = o[x] /\ o[x].fd # f BY <1>0, <2>3
    <3>2. p.index[o[x].fd] # k BY <1>4, <2>1, <3>1
    <3>3. QED BY <1>5, <2>1, <3>1, <3>2
  <2>4. QED BY <2>2, <2>3
<1>11. \A i \in DOMAIN ps : ps[i].fd # 0 =>
         /\ p.index[ps[i].fd] = i
         /\ ps[i].revents # {} => ps[i].of = p.reactor[ps[i].fd]
  BY <1>1, <1>3, <1>5 DEF Indexed
<1>12. Indexed(ps, p.index, p.reactor, o2) BY <1>9, <1>10, <1>11 DEF Indexed
<1>13. QED BY <1>7, <1>8, <1>12 DEF PollRep, q

LEMMA PollWait ==
  ASSUME NEW o, NEW n, NEW p, Asked(o, n), PollRep(p, o, n),
         NEW of, Owners(of, o), NEW ready \in Ready,
         NEW q \in P!wait(p, ready, of)
  PROVE  PollRep(q, o, n)
<1> DEFINE N == Len(p.pollset)
           Ev(x) == IF x.fd = 0 THEN {}
                    ELSE ready[x.fd] \cap (x.events \cup {"err"})
           NewFd(x) == [x EXCEPT !.revents = Ev(x),
                               !.of = IF x.fd = 0 THEN 0 ELSE of[x.fd]]
           ps == [i \in DOMAIN p.pollset |-> NewFd(p.pollset[i])]
<1>1. p \in PollType /\ Indexed(p.pollset, p.index, p.reactor, o) BY DEF PollRep
<1>2. q = [p EXCEPT !.pollset = ps] BY DEF P!wait
<1>3. p.pollset \in Seq(PollFd) /\ N \in Nat /\ DOMAIN p.pollset = 1..N
  BY <1>1 DEF PollType
<1>4. ASSUME NEW x \in PollFd
      PROVE  /\ NewFd(x) \in PollFd /\ NewFd(x).fd = x.fd /\ NewFd(x).events = x.events
             /\ x.fd # 0 => NewFd(x).of = of[x.fd]
  <2>1. Ev(x) \in SUBSET Events BY DEF PollFd, Ready
  <2>2. (IF x.fd = 0 THEN 0 ELSE of[x.fd]) \in Regs \cup {0}
    BY DEF PollFd, Owners
  <2> HIDE DEF Ev
  <2>3. QED BY <2>1, <2>2 DEF PollFd
<1> HIDE DEF NewFd
<1>5. /\ ps \in Seq(PollFd) /\ DOMAIN ps = 1..N
      /\ \A i \in 1..N :
           /\ ps[i].fd = p.pollset[i].fd /\ ps[i].events = p.pollset[i].events
           /\ p.pollset[i].fd # 0 => ps[i].of = of[p.pollset[i].fd]
  <2>1. ps = [i \in 1..N |-> NewFd(p.pollset[i])] BY <1>3
  <2>2. \A i \in 1..N : p.pollset[i] \in PollFd BY <1>3
  <2>3. QED BY <1>3, <1>4, <2>1, <2>2
<1> HIDE DEF ps
<1>6. q \in PollType BY <1>1, <1>2, <1>5 DEF PollType
<1>7. q.pollset = ps /\ q.index = p.index /\ q.reactor = p.reactor
  BY <1>1, <1>2 DEF PollType
<1>8. ASSUME NEW i \in DOMAIN ps, ps[i].fd # 0
      PROVE  p.index[ps[i].fd] = i /\ ps[i].of = p.reactor[ps[i].fd]
  <2>1. i \in 1..N /\ ps[i].fd = p.pollset[i].fd /\ ps[i].of = of[ps[i].fd]
    BY <1>5, <1>8
  <2>2. p.index[ps[i].fd] = i /\ i # 0 BY <1>1, <1>3, <1>8, <2>1 DEF Indexed
  <2>3. ps[i].fd \in Fds
    <3>1. ps[i] \in PollFd BY <1>5
    <3>2. QED BY <1>8, <3>1 DEF PollFd
  <2>4. PICK r \in Regs : o[r].fd = ps[i].fd
    BY <1>1, <2>2, <2>3 DEF Indexed
  <2>5. r \in OpenIn(o) BY <1>8, <2>4 DEF OpenIn
  <2>6. p.reactor[ps[i].fd] = r BY <1>1, <2>4, <2>5 DEF Indexed
  <2>7. of[ps[i].fd] = r BY <2>3, <2>4 DEF Owners
  <2>8. QED BY <2>1, <2>2, <2>6, <2>7
<1>9. Indexed(ps, p.index, p.reactor, o)
  <2>1. \A r \in OpenIn(o) : /\ p.reactor[o[r].fd] = r
                             /\ p.index[o[r].fd] \in DOMAIN ps
                             /\ ps[p.index[o[r].fd]].fd = o[r].fd
                             /\ ps[p.index[o[r].fd]].events = o[r].events
    BY <1>1, <1>3, <1>5 DEF Indexed
  <2>2. QED BY <1>1, <1>8, <2>1 DEF Indexed
<1>10. QED BY <1>6, <1>7, <1>9 DEF PollRep

LEMMA PollCleanup ==
  ASSUME NEW o, NEW n, NEW p, Asked(o, n), PollRep(p, o, n)
  PROVE  PollRep(P!cleanup(p), o, n)
<1> DEFINE q  == P!cleanup(p)
           ps == P!WithoutHoles(p.pollset)
           ix == [f \in Fds |-> IF \E i \in DOMAIN ps : ps[i].fd = f
                                THEN CHOOSE i \in DOMAIN ps : ps[i].fd = f
                                ELSE p.index[f]]
<1>1. p \in PollType /\ Indexed(p.pollset, p.index, p.reactor, o) BY DEF PollRep
<1>2. CASE ~p.retired BY <1>2 DEF P!cleanup
<1>3. CASE p.retired
  <2>1. q = [p EXCEPT !.pollset = ps, !.retired = FALSE, !.index = ix]
    BY <1>1, <1>3 DEF P!cleanup, PollType
  <2>2. /\ p.pollset \in Seq(PollFd) /\ p.index \in [Fds -> Nat]
        /\ DOMAIN p.pollset = 1..Len(p.pollset)
    BY <1>1 DEF PollType
  <2>3. OncePerFile(p.pollset) BY <1>1 DEF Indexed, OncePerFile
  <2>4. ps \in Seq(PollFd) /\ Kept(p.pollset, Len(p.pollset), ps)
    BY <2>2, <2>3, Filled
  <2> HIDE DEF ps, q
  <2>5. DOMAIN ps \subseteq Nat BY <2>4
  <2>6. /\ \A i \in DOMAIN ps : \E j \in DOMAIN p.pollset :
               p.pollset[j].fd # 0 /\ ps[i] = p.pollset[j]
        /\ \A j \in DOMAIN p.pollset : p.pollset[j].fd # 0 =>
               \E i \in DOMAIN ps : ps[i] = p.pollset[j]
        /\ \A i, j \in DOMAIN ps : ps[i].fd = ps[j].fd => i = j
    BY <2>2, <2>4 DEF Kept
  <2>7. \A i \in DOMAIN ps : \E j \in DOMAIN p.pollset :
          /\ ps[i] = p.pollset[j] /\ ps[i].fd \in Fds
          /\ p.index[ps[i].fd] = j /\ j # 0
          /\ ps[i].revents # {} => ps[i].of = p.reactor[ps[i].fd]
    <3> SUFFICES ASSUME NEW i \in DOMAIN ps
                 PROVE  \E j \in DOMAIN p.pollset :
                          /\ ps[i] = p.pollset[j] /\ ps[i].fd \in Fds
                          /\ p.index[ps[i].fd] = j /\ j # 0
                          /\ ps[i].revents # {} =>
                               ps[i].of = p.reactor[ps[i].fd]
      OBVIOUS
    <3>1. PICK j \in DOMAIN p.pollset :
            p.pollset[j].fd # 0 /\ ps[i] = p.pollset[j]
      BY <2>6
    <3>2. p.pollset[j] \in PollFd /\ j # 0 BY <2>2
    <3>3. ps[i].fd \in Fds BY <3>1, <3>2 DEF PollFd
    <3>4. QED BY <1>1, <3>1, <3>2, <3>3 DEF Indexed
  <2>8. \A i \in DOMAIN ps : ix[ps[i].fd] = i
    <3> SUFFICES ASSUME NEW i \in DOMAIN ps PROVE ix[ps[i].fd] = i OBVIOUS
    <3> DEFINE k == CHOOSE k \in DOMAIN ps : ps[k].fd = ps[i].fd
    <3>1. k \in DOMAIN ps /\ ps[k].fd = ps[i].fd OBVIOUS
    <3>2. k = i BY <2>6, <3>1
    <3>3. ps[i].fd \in Fds BY <2>7
    <3>4. QED BY <3>2, <3>3
  <2>9. \A f \in Fds : ix[f] = p.index[f] \/ \E i \in DOMAIN ps : ps[i].fd = f
    OBVIOUS
  <2>10. ix \in [Fds -> Nat]
    <3> SUFFICES ASSUME NEW f \in Fds PROVE ix[f] \in Nat BY DEF ix
    <3>1. CASE \E i \in DOMAIN ps : ps[i].fd = f BY <2>5, <2>8, <3>1
    <3>2. CASE ~\E i \in DOMAIN ps : ps[i].fd = f BY <2>2, <3>2
    <3>3. QED BY <3>1, <3>2
  <2> HIDE DEF ix
  <2>11. q \in PollType BY <1>1, <2>1, <2>4, <2>10 DEF PollType
  <2>12. q.pollset = ps /\ q.index = ix /\ q.reactor = p.reactor
    BY <1>1, <2>1 DEF PollType
  <2>13. \A r \in OpenIn(o) : /\ p.reactor[o[r].fd] = r
                              /\ ix[o[r].fd] \in DOMAIN ps
                              /\ ps[ix[o[r].fd]].fd = o[r].fd
                              /\ ps[ix[o[r].fd]].events = o[r].events
    <3> SUFFICES ASSUME NEW r \in OpenIn(o)
                 PROVE  /\ p.reactor[o[r].fd] = r
                        /\ ix[o[r].fd] \in DOMAIN ps
                        /\ ps[ix[o[r].fd]].fd = o[r].fd
                        /\ ps[ix[o[r].fd]].events = o[r].events
      OBVIOUS
    <3> DEFINE j == p.index[o[r].fd]
    <3>1. /\ p.reactor[o[r].fd] = r /\ j \in DOMAIN p.pollset
          /\ p.pollset[j].fd = o[r].fd /\ p.pollset[j].events = o[r].events
      BY <1>1 DEF Indexed
    <3>2. o[r].fd # 0 BY OpenHasFile
    <3>3. PICK i \in DOMAIN ps : ps[i] = p.pollset[j] BY <2>6, <3>1, <3>2
    <3>4. ix[o[r].fd] = i BY <2>8, <3>1, <3>3
    <3> HIDE DEF j
    <3>5. QED BY <3>1, <3>3, <3>4
  <2>14. \A f \in Fds : ix[f] # 0 <=> \E r \in Regs : o[r].fd = f
    <3> SUFFICES ASSUME NEW f \in Fds
                 PROVE  ix[f] # 0 <=> \E r \in Regs : o[r].fd = f
      OBVIOUS
    <3>1. p.index[f] # 0 <=> \E r \in Regs : o[r].fd = f BY <1>1 DEF Indexed
    <3>2. CASE \E i \in DOMAIN ps : ps[i].fd = f
      <4>1. PICK i \in DOMAIN ps : ps[i].fd = f BY <3>2
      <4>2. ix[f] = i /\ i # 0 BY <2>4, <2>8, <4>1
      <4>3. p.index[f] # 0 BY <2>7, <4>1
      <4>4. QED BY <3>1, <4>2, <4>3
    <3>3. CASE ~\E i \in DOMAIN ps : ps[i].fd = f BY <2>9, <3>1, <3>3
    <3>4. QED BY <3>2, <3>3
  <2>15. \A i \in DOMAIN ps : ps[i].fd # 0 =>
           /\ ix[ps[i].fd] = i
           /\ ps[i].revents # {} => ps[i].of = p.reactor[ps[i].fd]
    BY <2>7, <2>8
  <2>16. Indexed(ps, ix, p.reactor, o) BY <2>13, <2>14, <2>15 DEF Indexed
  <2>17. QED BY <2>11, <2>12, <2>16 DEF PollRep, q
<1>4. p.retired \in BOOLEAN BY <1>1 DEF PollType
<1>5. QED BY <1>2, <1>3, <1>4

LEMMA PollItem ==
  ASSUME NEW o, NEW n, NEW p, Asked(o, n), PollRep(p, o, n),
         NEW i \in 1..P!count(p)
  PROVE  ItemRight(P!item(p, i), o)
<1> DEFINE x == p.pollset[i]
<1>1. p \in PollType /\ Indexed(p.pollset, p.index, p.reactor, o) BY DEF PollRep
<1>2. i \in DOMAIN p.pollset /\ i # 0 /\ x \in PollFd
  <2>1. p.pollset \in Seq(PollFd) BY <1>1 DEF PollType
  <2>2. QED BY <2>1, LenProperties DEF P!count
<1>3. ASSUME x.fd # 0, x.revents # {}
      PROVE  x.of = p.reactor[x.fd] /\ p.reactor[x.fd] \in OpenIn(o)
  <2>1. p.index[x.fd] # 0 /\ x.of = p.reactor[x.fd]
    BY <1>1, <1>2, <1>3 DEF Indexed
  <2>2. x.fd \in Fds BY <1>2, <1>3 DEF PollFd
  <2>3. PICK r \in Regs : o[r].fd = x.fd BY <1>1, <2>1, <2>2 DEF Indexed
  <2>4. r \in OpenIn(o) BY <1>3, <2>3 DEF OpenIn
  <2>5. p.reactor[x.fd] = r BY <1>1, <2>3, <2>4 DEF Indexed
  <2>6. QED BY <2>1, <2>4, <2>5
<1>4. /\ P!item(p, i).valid = TRUE /\ P!item(p, i).live = (x.fd # 0)
      /\ P!item(p, i).ev = x.revents /\ P!item(p, i).of = x.of
      /\ x.fd # 0 => P!item(p, i).reactor = p.reactor[x.fd]
  BY DEF P!item
<1> HIDE DEF x
<1>5. QED BY <1>3, <1>4 DEF ItemRight

LEMMA PollWatched ==
  ASSUME NEW o, NEW n, NEW p, Asked(o, n), PollRep(p, o, n)
  PROVE  P!Watched(p) = Wanted(o)
<1> DEFINE Set == {p.pollset[i] : i \in {j \in DOMAIN p.pollset :
                                           p.pollset[j].fd # 0}}
           W(x) == <<p.reactor[x.fd], x.fd, x.events>>
           V(r) == <<r, o[r].fd, o[r].events>>
<1>1. p \in PollType /\ Indexed(p.pollset, p.index, p.reactor, o) BY DEF PollRep
<1>2. ASSUME NEW x \in Set PROVE \E r \in OpenIn(o) : W(x) = V(r)
  <2>1. PICK i \in DOMAIN p.pollset : p.pollset[i].fd # 0 /\ x = p.pollset[i]
    OBVIOUS
  <2>2. p.pollset \in Seq(PollFd) BY <1>1 DEF PollType
  <2>3. x \in PollFd /\ i # 0 BY <2>1, <2>2
  <2>4. x.fd \in Fds BY <2>1, <2>3 DEF PollFd
  <2>5. p.index[x.fd] = i BY <1>1, <2>1 DEF Indexed
  <2>6. PICK r \in Regs : o[r].fd = x.fd BY <1>1, <2>3, <2>4, <2>5 DEF Indexed
  <2>7. r \in OpenIn(o) BY <2>1, <2>6 DEF OpenIn
  <2>8. p.reactor[x.fd] = r /\ x.events = o[r].events
    BY <1>1, <2>1, <2>5, <2>6, <2>7 DEF Indexed
  <2>9. QED BY <2>6, <2>7, <2>8
<1>3. ASSUME NEW r \in OpenIn(o) PROVE \E x \in Set : W(x) = V(r)
  <2> DEFINE x == p.pollset[p.index[o[r].fd]]
  <2>1. /\ p.reactor[o[r].fd] = r /\ p.index[o[r].fd] \in DOMAIN p.pollset
        /\ x.fd = o[r].fd /\ x.events = o[r].events
    BY <1>1 DEF Indexed
  <2>2. o[r].fd # 0 BY OpenHasFile
  <2>3. x \in Set BY <2>1, <2>2
  <2> HIDE DEF x, Set
  <2>4. QED BY <2>1, <2>3
<1>4. P!Watched(p) = {W(x) : x \in Set} /\ Wanted(o) = {V(r) : r \in OpenIn(o)}
  BY DEF P!Watched, Wanted
<1> HIDE DEF W, V, Set
<1>5. QED BY <1>2, <1>3, <1>4

-----------------------------------------------------------------------------
(* select_t                                                                *)

LEMMA MaxIs ==
  ASSUME NEW X \in SUBSET (Fds \cup {0}), X # {}
  PROVE  /\ S!Max(X) \in X /\ \A x \in X : x <= S!Max(X)
         /\ D!Max(X) \in X /\ \A x \in X : x <= D!Max(X)
<1> DEFINE C == Cardinality(Fds)
           T == {n \in Nat : \E x \in X : n = C - x}
<1>1. Fds = 1..C /\ C \in Nat BY PollerAssumption, FS_CardinalityType
<1> HIDE DEF C
<1>2. \A x \in X : x \in Nat /\ C - x \in Nat BY <1>1
<1>3. T \subseteq Nat /\ T # {} BY <1>2
<1>4. PICK m \in T : \A n \in T : m <= n BY <1>3, Least
<1>5. PICK x \in X : m = C - x BY <1>4
<1>6. \A y \in X : x >= y
  <2> SUFFICES ASSUME NEW y \in X PROVE x >= y OBVIOUS
  <2>1. C - y \in T BY <1>2
  <2>2. m <= C - y BY <1>4, <2>1
  <2> HIDE DEF T
  <2>3. QED BY <1>1, <1>2, <1>5, <2>2
<1>7. S!Max(X) \in X /\ \A y \in X : S!Max(X) >= y BY <1>6, Zenon DEF S!Max
<1>8. D!Max(X) \in X /\ \A y \in X : D!Max(X) >= y BY <1>6, Zenon DEF D!Max
<1> HIDE DEF T
<1>9. QED BY <1>2, <1>7, <1>8

LEMMA SelectAdd ==
  ASSUME NEW o, NEW o2, NEW r, NEW f, NEW p, Asked(o, r), Made(o, o2, r, f),
         SelectRep(p, o, r)
  PROVE  SelectRep(S!add_fd(p, f, r), o2, r + 1)
<1> DEFINE q   == S!add_fd(p, f, r)
           new == [fd |-> f, reactor |-> r]
           N   == Len(p.fds)
           fds == Append(p.fds, new)
           err == p.err \cup {f}
           max == S!Max({p.maxfd, f})
<1>0. /\ r \in Regs /\ f \in Fds /\ OpenIn(o2) = OpenIn(o) \cup {r}
      /\ o2[r].fd = f /\ o2[r].events = {} /\ o[r].fd = 0
      /\ \A x \in OpenIn(o) : /\ x \in Regs \ {r} /\ o2[x] = o[x]
                              /\ o[x].fd \in Fds \ {f}
      /\ \A x \in Regs \ {r} : o2[x] = o[x]
  BY MadeIs
<1>00. f # 0 /\ f \in Nat /\ \A x \in Fds : x \in Nat BY <1>0, Numbers
<1>1. p \in SelectType /\ Rows(p.fds, o) /\ Selects(p.in, p.out, p.err, o)
      /\ Returned(p, o)
  BY DEF SelectRep
<1>2. /\ p.fds \in Seq(SelectFd) /\ N \in Nat /\ DOMAIN p.fds = 1..N
      /\ p.maxfd \in Fds \cup {0} /\ p.in \in SUBSET Fds
      /\ p.out \in SUBSET Fds /\ p.err \in SUBSET Fds
  BY <1>1 DEF SelectType
<1>3. /\ fds \in Seq(SelectFd) /\ DOMAIN fds = 1..N + 1
      /\ fds[N + 1].fd = f /\ fds[N + 1].reactor = r
      /\ \A i \in 1..N : fds[i] = p.fds[i]
  <2>1. new \in SelectFd /\ new.fd = f /\ new.reactor = r
    BY <1>0 DEF SelectFd
  <2> HIDE DEF new
  <2>2. QED BY <1>2, <2>1
<1>4. max \in Fds \cup {0} /\ p.maxfd <= max /\ f <= max
  <2> DEFINE X == {p.maxfd, f}
  <2>1. X \in SUBSET (Fds \cup {0}) /\ X # {} BY <1>0, <1>2
  <2>2. p.maxfd \in X /\ f \in X OBVIOUS
  <2> HIDE DEF X
  <2>3. S!Max(X) \in X /\ \A x \in X : x <= S!Max(X) BY <2>1, MaxIs
  <2>4. QED BY <2>1, <2>2, <2>3 DEF X
<1>5. q = [p EXCEPT !.fds = fds, !.err = err, !.maxfd = max]
  BY <1>1 DEF SelectType, S!add_fd
<1> HIDE DEF q, fds, max
<1>6. q \in SelectType BY <1>0, <1>1, <1>3, <1>4, <1>5 DEF SelectType
<1>7. /\ q.fds = fds /\ q.err = err /\ q.maxfd = max /\ q.in = p.in
      /\ q.out = p.out /\ q.readfds = p.readfds /\ q.writefds = p.writefds
      /\ q.exceptfds = p.exceptfds /\ q.seen = p.seen
  BY <1>1, <1>5 DEF SelectType
<1>8. f \notin p.err
  <2>1. \A x \in Regs : o[x].fd # f BY DEF Made
  <2>2. QED BY <1>0, <1>1, <2>1 DEF Selects
<1>9. Rows(fds, o2)
  <2>1. \A i \in 1..N + 1 : i \in 1..N \/ i = N + 1 BY <1>2
  <2>2. 1..N \subseteq 1..N + 1 /\ N + 1 \in 1..N + 1 BY <1>2
  <2>3. \A x \in OpenIn(o2) : \E i \in DOMAIN fds :
                                fds[i].fd = o2[x].fd /\ fds[i].reactor = x
    <3> SUFFICES ASSUME NEW x \in OpenIn(o2)
                 PROVE  \E i \in DOMAIN fds :
                          fds[i].fd = o2[x].fd /\ fds[i].reactor = x
      OBVIOUS
    <3>1. CASE x = r BY <1>0, <1>3, <2>2, <3>1
    <3>2. CASE x # r
      <4>1. x \in OpenIn(o) /\ o2[x] = o[x] BY <1>0, <3>2
      <4>2. PICK i \in 1..N : p.fds[i].fd = o[x].fd /\ p.fds[i].reactor = x
        BY <1>1, <1>2, <4>1 DEF Rows
      <4>3. QED BY <1>3, <2>2, <4>1, <4>2
    <3>3. QED BY <3>1, <3>2
  <2>4. ASSUME NEW i \in 1..N, fds[i].fd # 0
        PROVE  o2[fds[i].reactor].fd = fds[i].fd /\ fds[i].fd # f
    <3>1. fds[i] = p.fds[i] /\ p.fds[i] \in SelectFd BY <1>2, <1>3
    <3>2. p.fds[i].reactor \in Regs BY <3>1 DEF SelectFd
    <3>3. o[p.fds[i].reactor].fd = p.fds[i].fd BY <1>1, <1>2, <2>4, <3>1 DEF Rows
    <3>4. p.fds[i].reactor \in OpenIn(o) BY <2>4, <3>1, <3>2, <3>3 DEF OpenIn
    <3>5. QED BY <1>0, <3>1, <3>3, <3>4
  <2>5. \A i \in DOMAIN fds : fds[i].fd # 0 => o2[fds[i].reactor].fd = fds[i].fd
    BY <1>0, <1>3, <2>1, <2>4
  <2>6. ASSUME NEW i \in DOMAIN fds, NEW j \in DOMAIN fds,
               fds[i].fd = fds[j].fd, fds[i].fd # 0
        PROVE  i = j
    <3>1. CASE i \in 1..N /\ j \in 1..N
      BY <1>1, <1>2, <1>3, <2>6, <3>1 DEF Rows, OncePerFile
    <3>2. CASE ~(i \in 1..N /\ j \in 1..N)
      BY <1>3, <2>1, <2>4, <2>6, <3>2
    <3>3. QED BY <3>1, <3>2
  <2>7. QED BY <2>3, <2>5, <2>6 DEF Rows, OncePerFile
<1>10. Selects(p.in, p.out, err, o2)
  <2>1. \A g \in Fds : g \in err <=> \E x \in Regs : o2[x].fd = g
    <3> SUFFICES ASSUME NEW g \in Fds
                 PROVE  g \in err <=> \E x \in Regs : o2[x].fd = g
      OBVIOUS
    <3>1. CASE g = f BY <1>0, <3>1
    <3>2. CASE g # f
      <4>1. g \in p.err <=> \E x \in Regs : o[x].fd = g BY <1>1 DEF Selects
      <4>2. o[r].fd # g BY <1>0, OpenHasFile
      <4>3. \A x \in Regs : o2[x].fd = g <=> o[x].fd = g BY <1>0, <3>2, <4>2
      <4>4. QED BY <3>2, <4>1, <4>3
    <3>3. QED BY <3>1, <3>2
  <2>2. \A x \in OpenIn(o) : /\ o2[x].fd \in p.in <=> "in" \in o2[x].events
                             /\ o2[x].fd \in p.out <=> "out" \in o2[x].events
    BY <1>0, <1>1 DEF Selects
  <2>3. f \notin p.in /\ f \notin p.out BY <1>1, <1>8 DEF Selects
  <2>4. p.in \subseteq err /\ p.out \subseteq err BY <1>1 DEF Selects
  <2>5. \A x \in OpenIn(o2) : /\ o2[x].fd \in p.in <=> "in" \in o2[x].events
                              /\ o2[x].fd \in p.out <=> "out" \in o2[x].events
    BY <1>0, <2>2, <2>3
  <2> HIDE DEF err
  <2>6. QED BY <2>1, <2>4, <2>5, Zenon DEF Selects
<1>11. \A g \in err : g <= max
  <2>1. \A g \in p.err : g <= p.maxfd BY DEF SelectRep
  <2>2. max \in Nat /\ p.maxfd \in Nat /\ \A g \in p.err : g \in Nat
    BY <1>2, <1>4, <1>00
  <2>3. QED BY <1>4, <2>1, <2>2
<1>12. Returned(q, o2)
  <2> SUFFICES ASSUME NEW g \in q.readfds \cup q.writefds \cup q.exceptfds
               PROVE  g \in q.err /\ \A x \in Regs : o2[x].fd = g => q.seen[g] = x
    BY DEF Returned
  <2>1. g \in p.err /\ \A x \in Regs : o[x].fd = g => p.seen[g] = x
    BY <1>1, <1>7 DEF Returned
  <2>2. g # f BY <1>8, <2>1
  <2>3. QED BY <1>0, <1>7, <2>1, <2>2
<1> HIDE DEF err
<1>13. QED BY <1>6, <1>7, <1>9, <1>10, <1>11, <1>12 DEF SelectRep, q

LEMMA SelectRm ==
  ASSUME NEW o, NEW o2, NEW n, NEW r, NEW p, Asked(o, n), Gone(o, o2, r),
         SelectRep(p, o, n)
  PROVE  SelectRep(S!rm_fd(p, r, o[r].fd), o2, n)
<1> DEFINE f    == o[r].fd
           q    == S!rm_fd(p, r, f)
           N    == Len(p.fds)
           here == {i \in DOMAIN p.fds : p.fds[i].fd = f}
<1>0. /\ r \in Regs /\ r \in OpenIn(o) /\ f \in Fds
      /\ OpenIn(o2) = OpenIn(o) \ {r} /\ o2[r].fd = 0
      /\ \A x \in OpenIn(o2) : /\ x \in Regs \ {r} /\ o2[x] = o[x]
                               /\ x \in OpenIn(o) /\ o[x].fd \in Fds \ {f}
      /\ \A x \in Regs \ {r} : o2[x] = o[x] /\ o[x].fd # f
  BY GoneIs
<1>00. f # 0 /\ f \in Nat /\ \A x \in Fds : x \in Nat /\ x # 0 BY <1>0, Numbers
<1>1. p \in SelectType /\ Rows(p.fds, o) /\ Selects(p.in, p.out, p.err, o)
      /\ Returned(p, o)
  BY DEF SelectRep
<1>2. /\ p.fds \in Seq(SelectFd) /\ N \in Nat /\ DOMAIN p.fds = 1..N
      /\ p.maxfd \in Fds \cup {0} /\ p.in \in SUBSET Fds
      /\ p.out \in SUBSET Fds /\ p.err \in SUBSET Fds
  BY <1>1 DEF SelectType
<1>3. PICK k \in 1..N : p.fds[k].fd = f /\ p.fds[k].reactor = r
  BY <1>0, <1>1, <1>2 DEF Rows
<1>4. here = {k} /\ S!Min(here) = k
  <2>1. \A i \in here : i = k
    BY <1>00, <1>1, <1>2, <1>3 DEF Rows, OncePerFile
  <2>2. here = {k} BY <1>2, <1>3, <2>1
  <2> HIDE DEF here
  <2>3. S!Min(here) = CHOOSE i \in {k} : \A j \in {k} : i <= j
    BY <2>2, Zenon DEF S!Min
  <2>4. k <= k BY <1>2, <1>3
  <2>5. QED BY <2>2, <2>3, <2>4
<1> DEFINE gone == [p.fds[k] EXCEPT !.fd = 0]
           fds  == [p.fds EXCEPT ![k] = gone]
           in   == p.in \ {f}
           out  == p.out \ {f}
           err  == p.err \ {f}
           left == {p.fds[j].fd : j \in DOMAIN p.fds \ {k}}
           max  == IF f = p.maxfd THEN S!Max(left \cup {0}) ELSE p.maxfd
<1>5. /\ fds \in Seq(SelectFd) /\ DOMAIN fds = 1..N /\ fds[k].fd = 0
      /\ \A i \in 1..N \ {k} : fds[i] = p.fds[i]
  <2>1. gone \in SelectFd /\ gone.fd = 0
    <3>1. p.fds[k] \in SelectFd BY <1>2, <1>3
    <3>2. QED BY <3>1 DEF SelectFd
  <2> HIDE DEF gone
  <2>2. QED BY <1>2, <1>3, <2>1
<1>6. max \in Fds \cup {0} /\ \A g \in err : g <= max
  <2>1. \A g \in p.err : g <= p.maxfd BY DEF SelectRep
  <2>2. CASE f # p.maxfd BY <1>2, <2>1, <2>2
  <2>3. CASE f = p.maxfd
    <3> DEFINE X == left \cup {0}
    <3>1. X \in SUBSET (Fds \cup {0}) /\ X # {}
      <4>1. \A j \in DOMAIN p.fds : p.fds[j] \in SelectFd BY <1>2
      <4>2. \A x \in SelectFd : x.fd \in Fds \cup {0} BY DEF SelectFd
      <4>3. QED BY <4>1, <4>2
    <3>2. err \subseteq X
      <4> SUFFICES ASSUME NEW g \in err PROVE g \in left OBVIOUS
      <4>1. g \in Fds \ {f} /\ g \in p.err BY <1>2
      <4>2. PICK x \in Regs : o[x].fd = g BY <1>1, <4>1 DEF Selects
      <4>3. x \in OpenIn(o) BY <1>00, <4>1, <4>2 DEF OpenIn
      <4>4. PICK j \in DOMAIN p.fds : p.fds[j].fd = g
        BY <1>1, <4>2, <4>3 DEF Rows
      <4>5. j # k BY <1>3, <4>1, <4>4
      <4>6. QED BY <4>4, <4>5
    <3>3. max = S!Max(X) BY <2>3
    <3> HIDE DEF X, max, err
    <3>4. S!Max(X) \in X /\ \A x \in X : x <= S!Max(X) BY <3>1, MaxIs
    <3>5. QED BY <3>1, <3>2, <3>3, <3>4
  <2>4. QED BY <2>2, <2>3
<1>7. q = [p EXCEPT !.fds = fds, !.retired = TRUE, !.in = in, !.out = out,
                    !.err = err, !.readfds = p.readfds \ {f},
                    !.writefds = p.writefds \ {f},
                    !.exceptfds = p.exceptfds \ {f}, !.maxfd = max]
  <2>1. here # {} /\ S!Min(here) = k BY <1>4
  <2>2. q = [p EXCEPT !.fds[k].fd = 0, !.retired = TRUE,
                    !.in = @ \ {f}, !.out = @ \ {f}, !.err = @ \ {f},
                    !.readfds = @ \ {f}, !.writefds = @ \ {f},
                    !.exceptfds = @ \ {f},
                    !.maxfd = IF f = @ THEN S!Max(left \cup {0}) ELSE @]
    BY <2>1, Zenon DEF S!rm_fd
  <2>3. QED BY <1>1, <2>2 DEF SelectType
<1> HIDE DEF q, fds, max
<1>8. q \in SelectType BY <1>1, <1>5, <1>6, <1>7 DEF SelectType
<1>9. /\ q.fds = fds /\ q.err = err /\ q.maxfd = max /\ q.in = in /\ q.out = out
      /\ q.readfds = p.readfds \ {f} /\ q.writefds = p.writefds \ {f}
      /\ q.exceptfds = p.exceptfds \ {f} /\ q.seen = p.seen
  BY <1>1, <1>7 DEF SelectType
<1>10. Rows(fds, o2)
  <2>1. ASSUME NEW x \in OpenIn(o2)
        PROVE  \E i \in DOMAIN fds : fds[i].fd = o2[x].fd /\ fds[i].reactor = x
    <3>1. x \in OpenIn(o) /\ o2[x] = o[x] /\ o[x].fd # f BY <1>0
    <3>2. PICK i \in 1..N : p.fds[i].fd = o[x].fd /\ p.fds[i].reactor = x
      BY <1>1, <1>2, <3>1 DEF Rows
    <3>3. i # k BY <1>3, <3>1, <3>2
    <3>4. QED BY <1>5, <3>1, <3>2, <3>3
  <2>2. ASSUME NEW i \in DOMAIN fds, fds[i].fd # 0
        PROVE  i \in 1..N \ {k} /\ fds[i] = p.fds[i] /\ p.fds[i] \in SelectFd
    BY <1>2, <1>5, <2>2
  <2>3. ASSUME NEW i \in DOMAIN fds, fds[i].fd # 0
        PROVE  o2[fds[i].reactor].fd = fds[i].fd
    <3>1. i \in 1..N \ {k} /\ fds[i] = p.fds[i] /\ p.fds[i] \in SelectFd
      BY <2>2, <2>3
    <3>2. p.fds[i].reactor \in Regs BY <3>1 DEF SelectFd
    <3>3. o[p.fds[i].reactor].fd = p.fds[i].fd
      BY <1>1, <1>2, <2>3, <3>1 DEF Rows
    <3>4. p.fds[i].fd # f
      BY <1>00, <1>1, <1>2, <1>3, <3>1 DEF Rows, OncePerFile
    <3>5. p.fds[i].reactor # r BY <3>3, <3>4
    <3>6. QED BY <1>0, <3>1, <3>2, <3>3, <3>5
  <2>4. OncePerFile(fds)
    BY <1>1, <1>2, <2>2, <1>5 DEF Rows, OncePerFile
  <2>5. QED BY <2>1, <2>3, <2>4 DEF Rows
<1>11. Selects(in, out, err, o2)
  <2>1. \A g \in Fds : g \in err <=> \E x \in Regs : o2[x].fd = g
    <3> SUFFICES ASSUME NEW g \in Fds
                 PROVE  g \in err <=> \E x \in Regs : o2[x].fd = g
      OBVIOUS
    <3>1. CASE g = f BY <1>0, <1>00, <3>1
    <3>2. CASE g # f
      <4>1. g \in p.err <=> \E x \in Regs : o[x].fd = g BY <1>1 DEF Selects
      <4>2. \A x \in Regs : o2[x].fd = g <=> o[x].fd = g
        BY <1>0, <1>00, <3>2
      <4>3. QED BY <3>2, <4>1, <4>2
    <3>3. QED BY <3>1, <3>2
  <2>2. in \subseteq err /\ out \subseteq err BY <1>1 DEF Selects
  <2>3. \A x \in OpenIn(o2) : o2[x].fd = o[x].fd /\ o[x].fd # f
                              /\ o2[x].events = o[x].events /\ x \in OpenIn(o)
    BY <1>0
  <2>4. \A x \in OpenIn(o) : /\ o[x].fd \in p.in <=> "in" \in o[x].events
                             /\ o[x].fd \in p.out <=> "out" \in o[x].events
    BY <1>1 DEF Selects
  <2>5. \A x \in OpenIn(o2) : /\ o2[x].fd \in in <=> "in" \in o2[x].events
                              /\ o2[x].fd \in out <=> "out" \in o2[x].events
    BY <2>3, <2>4
  <2> HIDE DEF err, in, out
  <2>6. QED BY <2>1, <2>2, <2>5, Zenon DEF Selects
<1>12. Returned(q, o2)
  <2> SUFFICES ASSUME NEW g \in q.readfds \cup q.writefds \cup q.exceptfds
               PROVE  g \in q.err /\ \A x \in Regs : o2[x].fd = g => q.seen[g] = x
    BY DEF Returned
  <2>1. /\ g \in p.err /\ \A x \in Regs : o[x].fd = g => p.seen[g] = x
        /\ g # f
    BY <1>1, <1>9 DEF Returned
  <2>2. g # 0 BY <1>00, <1>2, <2>1
  <2>3. QED BY <1>0, <1>9, <2>1, <2>2
<1> HIDE DEF err, in, out
<1>13. QED BY <1>6, <1>8, <1>9, <1>10, <1>11, <1>12 DEF SelectRep, q

LEMMA SelectSetEvents ==
  ASSUME NEW o, NEW o2, NEW n, NEW r, NEW ev, NEW p, Asked(o, n),
         Polled(o, o2, r, ev), SelectRep(p, o, n)
  PROVE  SelectRep(S!set_poll(p, r, o[r].fd, ev), o2, n)
<1> DEFINE f   == o[r].fd
           q   == S!set_poll(p, r, f, ev)
           in  == IF "in" \in ev THEN p.in \cup {f} ELSE p.in \ {f}
           out == IF "out" \in ev THEN p.out \cup {f} ELSE p.out \ {f}
<1>0. /\ r \in Regs /\ r \in OpenIn(o) /\ f \in Fds
      /\ OpenIn(o2) = OpenIn(o) /\ o2[r].fd = f /\ o2[r].events = ev
      /\ \A x \in OpenIn(o) \ {r} : /\ x \in Regs /\ o2[x] = o[x]
                                    /\ o[x].fd \in Fds \ {f}
      /\ \A x \in Regs \ {r} : o2[x] = o[x] /\ o[x].fd # f
  BY PolledIs
<1>1. p \in SelectType /\ Rows(p.fds, o) /\ Selects(p.in, p.out, p.err, o)
      /\ Returned(p, o)
  BY DEF SelectRep
<1>2. /\ p.fds \in Seq(SelectFd) /\ DOMAIN p.fds = 1..Len(p.fds)
      /\ p.in \in SUBSET Fds /\ p.out \in SUBSET Fds
  BY <1>1 DEF SelectType
<1>3. \A x \in Regs : o2[x].fd = o[x].fd BY <1>0
<1>4. in \in SUBSET Fds /\ out \in SUBSET Fds BY <1>0, <1>2
<1>5. q = [p EXCEPT !.in = in, !.out = out]
  BY <1>1 DEF SelectType, S!set_poll
<1> HIDE DEF q
<1>6. q \in SelectType
  <2> HIDE DEF in, out
  <2>1. QED BY <1>1, <1>4, <1>5 DEF SelectType
<1>7. /\ q.fds = p.fds /\ q.err = p.err /\ q.maxfd = p.maxfd /\ q.in = in
      /\ q.out = out /\ q.readfds = p.readfds /\ q.writefds = p.writefds
      /\ q.exceptfds = p.exceptfds /\ q.seen = p.seen
  <2> HIDE DEF in, out
  <2>1. QED BY <1>1, <1>5 DEF SelectType
<1>8. Rows(p.fds, o2)
  <2>1. \A i \in DOMAIN p.fds : p.fds[i].reactor \in Regs
    <3>1. \A i \in DOMAIN p.fds : p.fds[i] \in SelectFd BY <1>2
    <3>2. QED BY <3>1 DEF SelectFd
  <2>2. \A x \in OpenIn(o) : x \in Regs BY OpenHasFile
  <2>3. QED BY <1>0, <1>1, <1>3, <2>1, <2>2 DEF Rows
<1>9. Selects(in, out, p.err, o2)
  <2>1. \A g \in Fds : g \in p.err <=> \E x \in Regs : o2[x].fd = g
    BY <1>1, <1>3 DEF Selects
  <2>2. f \in p.err BY <1>0, <1>1 DEF Selects
  <2>3. in \subseteq p.err /\ out \subseteq p.err BY <1>1, <2>2 DEF Selects
  <2>4. \A x \in OpenIn(o) : /\ o[x].fd \in p.in <=> "in" \in o[x].events
                             /\ o[x].fd \in p.out <=> "out" \in o[x].events
    BY <1>1 DEF Selects
  <2>5. \A x \in OpenIn(o2) : /\ o2[x].fd \in in <=> "in" \in o2[x].events
                              /\ o2[x].fd \in out <=> "out" \in o2[x].events
    <3> SUFFICES ASSUME NEW x \in OpenIn(o)
                 PROVE  /\ o2[x].fd \in in <=> "in" \in o2[x].events
                        /\ o2[x].fd \in out <=> "out" \in o2[x].events
      BY <1>0
    <3>1. CASE x = r BY <1>0, <3>1
    <3>2. CASE x # r BY <1>0, <2>4, <3>2
    <3>3. QED BY <3>1, <3>2
  <2> HIDE DEF in, out
  <2>6. QED BY <2>1, <2>3, <2>5, Zenon DEF Selects
<1>10. Returned(q, o2) BY <1>1, <1>3, <1>7 DEF Returned
<1>11. \A g \in p.err : g <= p.maxfd BY DEF SelectRep
<1> HIDE DEF in, out
<1>12. QED BY <1>6, <1>7, <1>8, <1>9, <1>10, <1>11 DEF SelectRep, q

LEMMA SelectWait ==
  ASSUME NEW o, NEW n, NEW p, Asked(o, n), SelectRep(p, o, n),
         NEW of, Owners(of, o), NEW ready \in Ready,
         NEW q \in S!wait(p, ready, of)
  PROVE  SelectRep(q, o, n)
<1> DEFINE Sel(set, e) == S!Selected(p, set, ready, e)
<1>1. p \in SelectType /\ Rows(p.fds, o) /\ Selects(p.in, p.out, p.err, o)
  BY DEF SelectRep
<1>2. q = [p EXCEPT !.readfds = Sel(p.in, "in"), !.writefds = Sel(p.out, "out"),
                    !.exceptfds = Sel(p.err, "err"), !.seen = of]
  BY DEF S!wait
<1>3. \A X, e : Sel(X, e) \subseteq X BY DEF S!Selected
<1>4. of \in [Fds -> Regs \cup {0}] BY DEF Owners
<1>5. p.in \in SUBSET Fds /\ p.out \in SUBSET Fds /\ p.err \in SUBSET Fds
  BY <1>1 DEF SelectType
<1>6. /\ Sel(p.in, "in") \in SUBSET p.err /\ Sel(p.out, "out") \in SUBSET p.err
      /\ Sel(p.err, "err") \in SUBSET p.err
  BY <1>1, <1>3 DEF Selects
<1> HIDE DEF Sel
<1>7. q \in SelectType BY <1>1, <1>2, <1>4, <1>5, <1>6 DEF SelectType
<1>8. /\ q.fds = p.fds /\ q.err = p.err /\ q.maxfd = p.maxfd /\ q.in = p.in
      /\ q.out = p.out /\ q.readfds \subseteq p.err /\ q.seen = of
      /\ q.writefds \subseteq p.err /\ q.exceptfds \subseteq p.err
  BY <1>1, <1>2, <1>6 DEF SelectType
<1>9. Returned(q, o) BY <1>5, <1>8 DEF Returned, Owners
<1>10. QED BY <1>1, <1>7, <1>8, <1>9 DEF SelectRep

LEMMA SelectCleanup ==
  ASSUME NEW o, NEW n, NEW p, Asked(o, n), SelectRep(p, o, n)
  PROVE  SelectRep(S!cleanup(p), o, n)
<1> DEFINE q   == S!cleanup(p)
           fds == S!WithoutHoles(p.fds)
<1>1. p \in SelectType /\ Rows(p.fds, o) BY DEF SelectRep
<1>2. q = [p EXCEPT !.fds = fds, !.retired = FALSE]
  BY <1>1 DEF S!cleanup, SelectType
<1>3. p.fds \in Seq(SelectFd) /\ DOMAIN p.fds = 1..Len(p.fds)
  BY <1>1 DEF SelectType
<1>4. fds \in Seq(SelectFd) /\ Kept(p.fds, Len(p.fds), fds)
  BY <1>1, <1>3, Filled DEF Rows
<1> HIDE DEF fds, q
<1>5. Rows(fds, o)
  <2>1. ASSUME NEW r \in OpenIn(o)
        PROVE  \E i \in DOMAIN fds : fds[i].fd = o[r].fd /\ fds[i].reactor = r
    <3>1. PICK j \in DOMAIN p.fds : p.fds[j].fd = o[r].fd /\ p.fds[j].reactor = r
      BY <1>1 DEF Rows
    <3>2. o[r].fd # 0 BY OpenHasFile
    <3>3. PICK i \in DOMAIN fds : fds[i] = p.fds[j]
      BY <1>3, <1>4, <3>1, <3>2 DEF Kept
    <3>4. QED BY <3>1, <3>3
  <2>2. ASSUME NEW i \in DOMAIN fds, fds[i].fd # 0
        PROVE  o[fds[i].reactor].fd = fds[i].fd
    <3>1. PICK j \in DOMAIN p.fds : fds[i] = p.fds[j]
      BY <1>3, <1>4 DEF Kept
    <3>2. p.fds[j].fd # 0 => o[p.fds[j].reactor].fd = p.fds[j].fd
      BY <1>1 DEF Rows
    <3>3. QED BY <2>2, <3>1, <3>2
  <2>3. OncePerFile(fds) BY <1>4 DEF Kept, OncePerFile
  <2>4. QED BY <2>1, <2>2, <2>3 DEF Rows
<1>6. q \in SelectType BY <1>1, <1>2, <1>4 DEF SelectType
<1>7. /\ q.fds = fds /\ q.err = p.err /\ q.maxfd = p.maxfd /\ q.in = p.in
      /\ q.out = p.out /\ q.readfds = p.readfds /\ q.writefds = p.writefds
      /\ q.exceptfds = p.exceptfds /\ q.seen = p.seen
  BY <1>1, <1>2 DEF SelectType
<1>8. Returned(q, o) BY <1>7 DEF SelectRep, Returned
<1>9. QED BY <1>5, <1>6, <1>7, <1>8 DEF SelectRep, q

LEMMA SelectItem ==
  ASSUME NEW o, NEW n, NEW p, Asked(o, n), SelectRep(p, o, n),
         NEW i \in 1..S!count(p)
  PROVE  ItemRight(S!item(p, i), o)
<1> DEFINE x == p.fds[i]
           f == x.fd
           y == S!item(p, i)
<1>1. p \in SelectType /\ Rows(p.fds, o) /\ Returned(p, o) BY DEF SelectRep
<1>2. i \in DOMAIN p.fds /\ x \in SelectFd
  <2>1. p.fds \in Seq(SelectFd) BY <1>1 DEF SelectType
  <2>2. QED BY <2>1, LenProperties DEF S!count
<1>3. /\ y.valid = TRUE /\ y.live = (f # 0) /\ y.reactor = x.reactor
      /\ f # 0 => y.of = p.seen[f]
      /\ \A e \in y.ev : f \in p.readfds \cup p.writefds \cup p.exceptfds
  BY DEF S!item
<1>4. ASSUME f # 0, f \in p.readfds \cup p.writefds \cup p.exceptfds
      PROVE  x.reactor = p.seen[f] /\ x.reactor \in OpenIn(o)
  <2>1. x.reactor \in Regs BY <1>2 DEF SelectFd
  <2>2. o[x.reactor].fd = f BY <1>1, <1>2, <1>4 DEF Rows
  <2>3. p.seen[f] = x.reactor BY <1>1, <1>4, <2>1, <2>2 DEF Returned
  <2>4. QED BY <1>4, <2>1, <2>2, <2>3 DEF OpenIn
<1> HIDE DEF y, x
<1>5. QED BY <1>3, <1>4 DEF ItemRight, y

LEMMA SelectWatched ==
  ASSUME NEW o, NEW n, NEW p, Asked(o, n), SelectRep(p, o, n)
  PROVE  S!Watched(p) = Wanted(o)
<1> DEFINE Set == {p.fds[i] : i \in {j \in DOMAIN p.fds :
                     p.fds[j].fd # 0 /\ p.fds[j].fd <= p.maxfd
                                     /\ p.fds[j].fd \in p.err}}
           Ev(x) == {e \in {"in", "out"} :
                       x.fd \in (IF e = "in" THEN p.in ELSE p.out)}
           W(x) == <<x.reactor, x.fd, Ev(x)>>
           V(r) == <<r, o[r].fd, o[r].events>>
<1>1. /\ p \in SelectType /\ Rows(p.fds, o) /\ Selects(p.in, p.out, p.err, o)
      /\ \A f \in p.err : f <= p.maxfd
  BY DEF SelectRep
<1>2. ASSUME NEW r \in OpenIn(o), NEW x, x.fd = o[r].fd, x.reactor = r
      PROVE  W(x) = V(r)
  <2>1. o[r].events \in SUBSET {"in", "out"} BY OpenHasFile DEF Dirs
  <2>2. /\ x.fd \in p.in <=> "in" \in o[r].events
        /\ x.fd \in p.out <=> "out" \in o[r].events
    BY <1>1, <1>2 DEF Selects
  <2>3. Ev(x) = o[r].events BY <2>1, <2>2
  <2>4. QED BY <1>2, <2>3
<1>3. ASSUME NEW x \in Set PROVE \E r \in OpenIn(o) : x.fd = o[r].fd /\ x.reactor = r
  <2>1. PICK i \in DOMAIN p.fds : p.fds[i].fd # 0 /\ x = p.fds[i] OBVIOUS
  <2>2. p.fds \in Seq(SelectFd) BY <1>1 DEF SelectType
  <2>3. x.reactor \in Regs
    <3>1. x \in SelectFd BY <2>1, <2>2
    <3>2. QED BY <3>1 DEF SelectFd
  <2>4. o[x.reactor].fd = x.fd BY <1>1, <2>1 DEF Rows
  <2>5. x.reactor \in OpenIn(o) BY <2>1, <2>3, <2>4 DEF OpenIn
  <2>6. QED BY <2>4, <2>5
<1>4. ASSUME NEW r \in OpenIn(o)
      PROVE  \E x \in Set : x.fd = o[r].fd /\ x.reactor = r
  <2>1. PICK i \in DOMAIN p.fds : p.fds[i].fd = o[r].fd /\ p.fds[i].reactor = r
    BY <1>1 DEF Rows
  <2>2. o[r].fd \in Fds /\ o[r].fd # 0 /\ r \in Regs BY OpenHasFile
  <2>3. o[r].fd \in p.err BY <1>1, <2>2 DEF Selects
  <2>4. p.fds[i] \in Set BY <1>1, <2>1, <2>2, <2>3
  <2> HIDE DEF Set
  <2>5. QED BY <2>1, <2>4
<1>5. S!Watched(p) = {W(x) : x \in Set} /\ Wanted(o) = {V(r) : r \in OpenIn(o)}
  BY DEF S!Watched, Wanted
<1> HIDE DEF W, V, Set
<1>6. QED BY <1>2, <1>3, <1>4, <1>5

-----------------------------------------------------------------------------
(* devpoll_t                                                               *)

\* The row of f has changed from t to t2.
Elsewhere(t, t2, f) == \A g \in Fds \ {f} : t2[g] = t[g]

LEMMA DevPollAdd ==
  ASSUME NEW o, NEW o2, NEW r, NEW f, NEW p, Asked(o, r), Made(o, o2, r, f),
         DevPollRep(p, o, r)
  PROVE  DevPollRep(D!add_fd(p, f, r), o2, r + 1)
<1> DEFINE q   == D!add_fd(p, f, r)
           row == [valid |-> TRUE, accepted |-> FALSE, events |-> {},
                   reactor |-> r]
           ker == [on |-> TRUE, events |-> {}]
           t   == [p.table EXCEPT ![f] = row]
           k   == [p.kernel EXCEPT ![f] = ker]
           max == D!Max({p.size, f})
<1>0. /\ r \in Regs /\ f \in Fds /\ OpenIn(o2) = OpenIn(o) \cup {r}
      /\ o2[r].fd = f /\ o2[r].events = {} /\ o[r].fd = 0
      /\ \A x \in OpenIn(o) : /\ x \in Regs \ {r} /\ o2[x] = o[x]
                              /\ o[x].fd \in Fds \ {f}
      /\ \A x \in Regs \ {r} : o2[x] = o[x]
  BY MadeIs
<1>1. /\ p \in DevPollType /\ Registered(p.table, p.kernel, o)
      /\ NotTaken(p.ev_buf, p.table)
  BY DEF DevPollRep
<1>2. /\ p.table \in [Fds -> DevRow] /\ p.kernel \in [Fds -> DevKernel]
      /\ p.size \in Fds \cup {0} /\ p.ev_buf \in Seq(DevEvent)
  BY <1>1 DEF DevPollType
<1>3. row \in DevRow /\ ker \in DevKernel BY <1>0 DEF DevRow, DevKernel
<1>4. /\ row.valid = TRUE /\ row.accepted = FALSE /\ row.reactor = r
      /\ ker.on = TRUE /\ ker.events = {}
  OBVIOUS
<1>5. max \in Fds \cup {0}
  <2> DEFINE X == {p.size, f}
  <2>1. X \in SUBSET (Fds \cup {0}) /\ X # {} BY <1>0, <1>2
  <2> HIDE DEF X
  <2>2. D!Max(X) \in X BY <2>1, MaxIs
  <2>3. QED BY <2>1, <2>2 DEF X
<1>6. q = [p EXCEPT !.ok = TRUE, !.moved = q.moved, !.size = max, !.table = t,
                    !.kernel = k, !.pending = p.pending \cup {f}]
      /\ q.moved \in BOOLEAN
  <2>1. \A x \in Regs : o[x].fd # f
    <3>1. o[r].fd # f BY <1>0, Numbers
    <3>2. \A x \in Regs \ {r} : x \in OpenIn(o) \/ o[x].fd = 0 BY DEF OpenIn
    <3>3. QED BY <1>0, <3>1, <3>2, Numbers
  <2>2. ~p.table[f].valid BY <1>0, <1>1, <2>1 DEF Registered
  <2>3. (p.ok /\ ~p.table[f].valid) = TRUE BY <1>1, <2>2 DEF DevPollType
  <2>4. (p.moved \/ (f > p.size /\ p.held)) \in BOOLEAN OBVIOUS
  <2>5. q = [p EXCEPT !.ok = TRUE, !.moved = p.moved \/ (f > p.size /\ p.held),
                      !.size = max, !.table = t, !.kernel = k,
                      !.pending = p.pending \cup {f}]
    BY <2>3 DEF D!add_fd
  <2> HIDE DEF q, t, k, max
  <2>6. QED BY <1>1, <2>4, <2>5 DEF DevPollType
<1> HIDE DEF q, row, ker, max
<1>7. /\ t \in [Fds -> DevRow] /\ t[f] = row /\ Elsewhere(p.table, t, f)
      /\ k \in [Fds -> DevKernel] /\ k[f] = ker /\ Elsewhere(p.kernel, k, f)
  BY <1>0, <1>2, <1>3 DEF Elsewhere
<1> HIDE DEF t, k
<1>8. q \in DevPollType
  <2> DEFINE pen == p.pending \cup {f}
  <2>1. pen \in SUBSET Fds BY <1>0, <1>1 DEF DevPollType
  <2>2. q = [p EXCEPT !.ok = TRUE, !.moved = q.moved, !.size = max,
                      !.table = t, !.kernel = k, !.pending = pen]
    BY <1>6
  <2> HIDE DEF pen
  <2>3. QED BY <1>1, <1>5, <1>6, <1>7, <2>1, <2>2 DEF DevPollType
<1>9. q.table = t /\ q.kernel = k /\ q.ev_buf = p.ev_buf
  BY <1>1, <1>6 DEF DevPollType
<1>10. Registered(t, k, o2)
  <2>1. ASSUME NEW g \in Fds
        PROVE  /\ t[g].valid <=> \E x \in Regs : o2[x].fd = g
               /\ k[g].on <=> t[g].valid
    <3>1. CASE g = f BY <1>0, <1>4, <1>7, <3>1
    <3>2. CASE g # f
      <4>1. \A x \in Regs : o2[x].fd = g <=> o[x].fd = g
        BY <1>0, <3>2, OpenHasFile
      <4>2. t[g] = p.table[g] /\ k[g] = p.kernel[g] BY <1>7, <3>2 DEF Elsewhere
      <4>3. QED BY <1>1, <4>1, <4>2 DEF Registered
    <3>3. QED BY <3>1, <3>2
  <2>2. ASSUME NEW x \in OpenIn(o2)
        PROVE  t[o2[x].fd].reactor = x /\ k[o2[x].fd].events = o2[x].events
    <3>1. CASE x = r BY <1>0, <1>4, <1>7, <3>1
    <3>2. CASE x # r
      <4>1. x \in OpenIn(o) /\ o2[x] = o[x] /\ o[x].fd \in Fds \ {f}
        BY <1>0, <3>2
      <4>2. t[o[x].fd] = p.table[o[x].fd] /\ k[o[x].fd] = p.kernel[o[x].fd]
        BY <1>7, <4>1 DEF Elsewhere
      <4>3. QED BY <1>1, <4>1, <4>2 DEF Registered
    <3>3. QED BY <3>1, <3>2
  <2>3. QED BY <2>1, <2>2 DEF Registered
<1>11. NotTaken(p.ev_buf, t)
  <2>1. \A i \in DOMAIN p.ev_buf : p.ev_buf[i].fd \in Fds
    <3>1. \A i \in DOMAIN p.ev_buf : p.ev_buf[i] \in DevEvent BY <1>2
    <3>2. QED BY <3>1 DEF DevEvent
  <2>2. QED BY <1>1, <1>4, <1>7, <2>1 DEF NotTaken, Elsewhere
<1>12. QED BY <1>8, <1>9, <1>10, <1>11 DEF DevPollRep, q

LEMMA DevPollRm ==
  ASSUME NEW o, NEW o2, NEW n, NEW r, NEW p, Asked(o, n), Gone(o, o2, r),
         DevPollRep(p, o, n)
  PROVE  DevPollRep(D!rm_fd(p, r, o[r].fd), o2, n)
<1> DEFINE f   == o[r].fd
           q   == D!rm_fd(p, r, f)
           row == [p.table[f] EXCEPT !.valid = FALSE]
           ker == [on |-> FALSE, events |-> {}]
           t   == [p.table EXCEPT ![f] = row]
           k   == [p.kernel EXCEPT ![f] = ker]
<1>0. /\ r \in Regs /\ r \in OpenIn(o) /\ f \in Fds
      /\ OpenIn(o2) = OpenIn(o) \ {r} /\ o2[r].fd = 0 /\ o2[r].events = {}
      /\ \A x \in OpenIn(o2) : /\ x \in Regs \ {r} /\ o2[x] = o[x]
                               /\ x \in OpenIn(o) /\ o[x].fd \in Fds \ {f}
      /\ \A x \in Regs \ {r} : o2[x] = o[x] /\ o[x].fd # f
  BY GoneIs
<1>1. /\ p \in DevPollType /\ Registered(p.table, p.kernel, o)
      /\ NotTaken(p.ev_buf, p.table)
  BY DEF DevPollRep
<1>2. /\ p.table \in [Fds -> DevRow] /\ p.kernel \in [Fds -> DevKernel]
      /\ p.ev_buf \in Seq(DevEvent)
  BY <1>1 DEF DevPollType
<1>3. row \in DevRow /\ ker \in DevKernel
  <2>1. \A x \in DevRow : [x EXCEPT !.valid = FALSE] \in DevRow BY DEF DevRow
  <2>2. p.table[f] \in DevRow BY <1>0, <1>2
  <2>3. ker \in DevKernel BY DEF DevKernel
  <2>4. QED BY <2>1, <2>2, <2>3
<1>4. row.valid = FALSE /\ ker.on = FALSE BY <1>0, <1>2 DEF DevRow
<1>5. q = [p EXCEPT !.ok = TRUE, !.table = t, !.kernel = k]
  <2>1. p.table[f].valid = TRUE
    <3>1. p.table[f].valid BY <1>0, <1>1 DEF Registered
    <3>2. p.table[f] \in DevRow BY <1>0, <1>2
    <3>3. QED BY <3>1, <3>2 DEF DevRow
  <2>2. (p.ok /\ p.table[f].valid) = TRUE BY <1>1, <2>1 DEF DevPollType
  <2>3. QED BY <1>0, <1>1, <1>2, <2>2 DEF DevPollType, DevRow, D!rm_fd, D!NoWatch
<1> HIDE DEF q, row, ker
<1>6. /\ t \in [Fds -> DevRow] /\ t[f] = row /\ Elsewhere(p.table, t, f)
      /\ k \in [Fds -> DevKernel] /\ k[f] = ker /\ Elsewhere(p.kernel, k, f)
  BY <1>0, <1>2, <1>3 DEF Elsewhere
<1> HIDE DEF t, k
<1>7. q \in DevPollType BY <1>1, <1>5, <1>6 DEF DevPollType
<1>8. q.table = t /\ q.kernel = k /\ q.ev_buf = p.ev_buf
  BY <1>1, <1>5 DEF DevPollType
<1> HIDE DEF f
<1>9. Registered(t, k, o2)
  <2>1. ASSUME NEW g \in Fds
        PROVE  /\ t[g].valid <=> \E x \in Regs : o2[x].fd = g
               /\ k[g].on <=> t[g].valid
    <3>1. CASE g = f
      <4>1. \A x \in Regs : o2[x].fd # f BY <1>0, OpenHasFile
      <4>2. QED BY <1>4, <1>6, <3>1, <4>1
    <3>2. CASE g # f
      <4>1. \A x \in Regs : o2[x].fd = g <=> o[x].fd = g
        BY <1>0, <3>2, OpenHasFile DEF f
      <4>2. t[g] = p.table[g] /\ k[g] = p.kernel[g] BY <1>6, <3>2 DEF Elsewhere
      <4>3. QED BY <1>1, <4>1, <4>2 DEF Registered
    <3>3. QED BY <3>1, <3>2
  <2>2. ASSUME NEW x \in OpenIn(o2)
        PROVE  t[o2[x].fd].reactor = x /\ k[o2[x].fd].events = o2[x].events
    <3>1. x \in OpenIn(o) /\ o2[x] = o[x] /\ o[x].fd \in Fds \ {f}
      BY <1>0
    <3>2. t[o[x].fd] = p.table[o[x].fd] /\ k[o[x].fd] = p.kernel[o[x].fd]
      BY <1>6, <3>1 DEF Elsewhere
    <3>3. QED BY <1>1, <3>1, <3>2 DEF Registered
  <2>3. QED BY <2>1, <2>2 DEF Registered
<1>10. NotTaken(p.ev_buf, t)
  <2>1. \A i \in DOMAIN p.ev_buf : p.ev_buf[i].fd \in Fds
    <3>1. \A i \in DOMAIN p.ev_buf : p.ev_buf[i] \in DevEvent BY <1>2
    <3>2. QED BY <3>1 DEF DevEvent
  <2>2. QED BY <1>1, <1>4, <1>6, <2>1 DEF NotTaken, Elsewhere
<1>11. QED BY <1>7, <1>8, <1>9, <1>10 DEF DevPollRep, q, f

LEMMA DevPollSet ==
  ASSUME NEW o, NEW o2, NEW n, NEW r, NEW ev, NEW p, Asked(o, n),
         Polled(o, o2, r, ev), DevPollRep(p, o, n)
  PROVE  DevPollRep(D!set_poll(p, r, o[r].fd, ev), o2, n)
<1> DEFINE f   == o[r].fd
           q   == D!set_poll(p, r, f, ev)
           row == [p.table[f] EXCEPT !.events = ev]
           ker == [on |-> TRUE, events |-> ev]
           t   == [p.table EXCEPT ![f] = row]
           k   == [p.kernel EXCEPT ![f] = ker]
<1>0. /\ r \in Regs /\ r \in OpenIn(o) /\ f \in Fds
      /\ OpenIn(o2) = OpenIn(o) /\ o2[r].fd = f /\ o2[r].events = ev
      /\ \A x \in OpenIn(o) \ {r} : /\ x \in Regs /\ o2[x] = o[x]
                                    /\ o[x].fd \in Fds \ {f}
      /\ \A x \in Regs \ {r} : o2[x] = o[x] /\ o[x].fd # f
  BY PolledIs
<1>1. /\ p \in DevPollType /\ Registered(p.table, p.kernel, o)
      /\ NotTaken(p.ev_buf, p.table)
  BY DEF DevPollRep
<1>2. /\ p.table \in [Fds -> DevRow] /\ p.kernel \in [Fds -> DevKernel]
      /\ p.ev_buf \in Seq(DevEvent) /\ ev \in SUBSET Dirs
  BY <1>1 DEF DevPollType, Polled
<1>3. row \in DevRow /\ ker \in DevKernel
  <2>1. \A x \in DevRow : [x EXCEPT !.events = ev] \in DevRow
    BY <1>2 DEF DevRow
  <2>2. p.table[f] \in DevRow BY <1>0, <1>2
  <2>3. ker \in DevKernel BY <1>2 DEF DevKernel
  <2>4. QED BY <2>1, <2>2, <2>3
<1>4. /\ row.valid = p.table[f].valid /\ row.accepted = p.table[f].accepted
      /\ row.reactor = p.table[f].reactor /\ ker.on = TRUE /\ ker.events = ev
  BY <1>0, <1>2 DEF DevRow
<1>5. q = [p EXCEPT !.table = t, !.kernel = k]
  BY <1>0, <1>1, <1>2 DEF DevPollType, DevRow, D!set_poll
<1> HIDE DEF q, row, ker
<1>6. /\ t \in [Fds -> DevRow] /\ t[f] = row /\ Elsewhere(p.table, t, f)
      /\ k \in [Fds -> DevKernel] /\ k[f] = ker /\ Elsewhere(p.kernel, k, f)
  BY <1>0, <1>2, <1>3 DEF Elsewhere
<1> HIDE DEF t, k
<1>7. q \in DevPollType BY <1>1, <1>5, <1>6 DEF DevPollType
<1>8. q.table = t /\ q.kernel = k /\ q.ev_buf = p.ev_buf
  BY <1>1, <1>5 DEF DevPollType
<1>9. p.table[f].valid /\ p.table[f].reactor = r BY <1>0, <1>1 DEF Registered
<1>10. \A x \in Regs : o2[x].fd = o[x].fd BY <1>0
<1> HIDE DEF f
<1>11. Registered(t, k, o2)
  <2>1. ASSUME NEW g \in Fds
        PROVE  /\ t[g].valid <=> \E x \in Regs : o2[x].fd = g
               /\ k[g].on <=> t[g].valid
    <3>1. CASE g = f BY <1>0, <1>4, <1>6, <1>9, <3>1
    <3>2. CASE g # f
      <4>1. t[g] = p.table[g] /\ k[g] = p.kernel[g] BY <1>6, <3>2 DEF Elsewhere
      <4>2. QED BY <1>1, <1>10, <4>1 DEF Registered
    <3>3. QED BY <3>1, <3>2
  <2>2. ASSUME NEW x \in OpenIn(o2)
        PROVE  t[o2[x].fd].reactor = x /\ k[o2[x].fd].events = o2[x].events
    <3>1. CASE x = r BY <1>0, <1>4, <1>6, <1>9, <3>1
    <3>2. CASE x # r
      <4>1. x \in OpenIn(o) /\ o2[x] = o[x] /\ o[x].fd \in Fds \ {f}
        BY <1>0, <3>2
      <4>2. t[o[x].fd] = p.table[o[x].fd] /\ k[o[x].fd] = p.kernel[o[x].fd]
        BY <1>6, <4>1 DEF Elsewhere
      <4>3. QED BY <1>1, <4>1, <4>2 DEF Registered
    <3>3. QED BY <3>1, <3>2
  <2>3. QED BY <2>1, <2>2 DEF Registered
<1>12. NotTaken(p.ev_buf, t)
  <2>1. \A i \in DOMAIN p.ev_buf : p.ev_buf[i].fd \in Fds
    <3>1. \A i \in DOMAIN p.ev_buf : p.ev_buf[i] \in DevEvent BY <1>2
    <3>2. QED BY <3>1 DEF DevEvent
  <2>2. QED BY <1>1, <1>4, <1>6, <2>1 DEF NotTaken, Elsewhere
<1>13. QED BY <1>7, <1>8, <1>11, <1>12 DEF DevPollRep, q, f

\* The top of the loop accepts what was added; no event is left then.
LEMMA DevPollBegin ==
  ASSUME NEW o, NEW n, NEW p, Asked(o, n), DevPollRep(p, o, n), p.ev_buf = <<>>
  PROVE  DevPollRep(D!begin(p), o, n) /\ D!begin(p).ev_buf = <<>>
<1> DEFINE q == D!begin(p)
           t == [f \in Fds |-> [p.table[f] EXCEPT !.accepted =
                                  p.table[f].accepted \/ f \in p.pending]]
<1>1. p \in DevPollType /\ Registered(p.table, p.kernel, o) BY DEF DevPollRep
<1>2. p.table \in [Fds -> DevRow] BY <1>1 DEF DevPollType
<1>3. q = [p EXCEPT !.pending = {}, !.table = t]
  BY <1>1 DEF DevPollType, D!begin
<1> HIDE DEF q
<1>4. ASSUME NEW f \in Fds
      PROVE  /\ t[f] \in DevRow /\ t[f].valid = p.table[f].valid
             /\ t[f].reactor = p.table[f].reactor
  <2> DEFINE a == p.table[f].accepted \/ f \in p.pending
             x == p.table[f]
  <2>1. x \in DevRow BY <1>2
  <2>2. x.accepted \in BOOLEAN BY <2>1 DEF DevRow
  <2>3. a \in BOOLEAN BY <2>2
  <2>4. t[f] = [x EXCEPT !.accepted = a] OBVIOUS
  <2> HIDE DEF t, x, a
  <2>5. QED BY <2>1, <2>3, <2>4 DEF DevRow, x
<1>5. t \in [Fds -> DevRow] BY <1>4
<1> HIDE DEF t
<1>6. q \in DevPollType BY <1>1, <1>3, <1>5 DEF DevPollType
<1>7. q.table = t /\ q.kernel = p.kernel /\ q.ev_buf = p.ev_buf
  BY <1>1, <1>3 DEF DevPollType
<1>8. Registered(t, p.kernel, o) BY <1>1, <1>4, OpenHasFile DEF Registered
<1>9. NotTaken(<<>>, t) BY DEF NotTaken
<1>10. QED BY <1>6, <1>7, <1>8, <1>9 DEF DevPollRep, q

LEMMA DevPollWait ==
  ASSUME NEW o, NEW n, NEW p, Asked(o, n), DevPollRep(p, o, n),
         NEW of, Owners(of, o), NEW ready \in Ready,
         NEW q \in D!wait(p, ready, of)
  PROVE  DevPollRep(q, o, n)
<1> DEFINE hot == {f \in Fds : p.kernel[f].on
                               /\ D!Reported(p, ready, f) # {}}
           Of(f) == [fd |-> f, ev |-> D!Reported(p, ready, f), of |-> of[f]]
<1>1. p \in DevPollType /\ Registered(p.table, p.kernel, o) BY DEF DevPollRep
<1>2. PICK Y \in SUBSET hot : \E s \in SetToSeqs(Y) :
        q = [p EXCEPT !.ev_buf = [i \in DOMAIN s |-> Of(s[i])], !.held = TRUE]
  <2>1. q \in {[p EXCEPT !.ev_buf = [i \in DOMAIN s |-> Of(s[i])],
                         !.held = TRUE] :
                  s \in UNION {D!SetToSeqs(Z) : Z \in {T \in SUBSET hot :
                          T # {} /\ D!Cardinality(T) <= MaxEvents}}}
    BY Zenon DEF D!wait
  <2> HIDE DEF hot, Of
  <2>2. PICK s \in UNION {D!SetToSeqs(Z) : Z \in {T \in SUBSET hot :
                            T # {} /\ D!Cardinality(T) <= MaxEvents}} :
          q = [p EXCEPT !.ev_buf = [i \in DOMAIN s |-> Of(s[i])], !.held = TRUE]
    BY <2>1, Zenon
  <2>3. \E Y \in SUBSET hot : s \in D!SetToSeqs(Y) BY Zenon
  <2>4. QED BY <2>2, <2>3, SameSequences, Zenon
<1>20. PICK s \in SetToSeqs(Y) :
         q = [p EXCEPT !.ev_buf = [i \in DOMAIN s |-> Of(s[i])], !.held = TRUE]
  BY <1>2, Zenon
<1>3. IsFiniteSet(hot) BY Numbers, FS_Subset
<1>4. PICK N \in Nat : DOMAIN s = 1..N /\ \A i \in 1..N : s[i] \in hot
  <2> HIDE DEF hot
  <2>1. QED BY <1>3, Ordered
<1>5. ASSUME NEW f \in hot
      PROVE  Of(f) \in DevEvent /\ p.table[Of(f).fd].reactor = Of(f).of
  <2>1. f \in Fds /\ p.table[f].valid BY <1>1 DEF Registered
  <2>2. PICK r \in Regs : o[r].fd = f BY <1>1, <2>1 DEF Registered
  <2>3. r \in OpenIn(o) BY <2>1, <2>2, OpenHasFile DEF OpenIn
  <2>4. of[f] = r /\ p.table[f].reactor = r
    BY <1>1, <2>1, <2>2, <2>3 DEF Owners, Registered
  <2>5. D!Reported(p, ready, f) \in SUBSET Events
    BY DEF D!Reported, Ready
  <2>6. QED BY <2>1, <2>4, <2>5 DEF DevEvent
<1> DEFINE b == [i \in 1..N |-> Of(s[i])]
<1>6. q = [p EXCEPT !.ev_buf = b, !.held = TRUE] BY <1>20, <1>4, Zenon
<1> HIDE DEF Of, hot
<1>7. b \in Seq(DevEvent) /\ \A i \in DOMAIN b :
        p.table[b[i].fd].reactor = b[i].of
  BY <1>4, <1>5
<1> HIDE DEF b
<1>8. q \in DevPollType BY <1>1, <1>6, <1>7 DEF DevPollType
<1>9. q.table = p.table /\ q.kernel = p.kernel /\ q.ev_buf = b
  BY <1>1, <1>6 DEF DevPollType
<1>10. NotTaken(q.ev_buf, q.table) BY <1>7, <1>9 DEF NotTaken
<1>11. QED BY <1>1, <1>8, <1>9, <1>10 DEF DevPollRep

LEMMA DevPollCleanup ==
  ASSUME NEW o, NEW n, NEW p, Asked(o, n), DevPollRep(p, o, n)
  PROVE  DevPollRep(D!cleanup(p), o, n) /\ D!cleanup(p).ev_buf = <<>>
<1> DEFINE q == D!cleanup(p)
<1>1. p \in DevPollType /\ Registered(p.table, p.kernel, o) BY DEF DevPollRep
<1>2. q \in DevPollType BY <1>1, EmptySeq DEF DevPollType, D!cleanup
<1>3. q.table = p.table /\ q.kernel = p.kernel /\ q.ev_buf = <<>>
  BY <1>1 DEF DevPollType, D!cleanup
<1>4. NotTaken(<<>>, p.table) BY DEF NotTaken
<1> HIDE DEF q
<1>5. QED BY <1>1, <1>2, <1>3, <1>4 DEF DevPollRep, q

LEMMA DevPollItem ==
  ASSUME NEW o, NEW n, NEW p, Asked(o, n), DevPollRep(p, o, n),
         NEW i \in 1..D!count(p)
  PROVE  ItemRight(D!item(p, i), o)
<1> DEFINE e == p.ev_buf[i]
           x == p.table[e.fd]
<1>1. /\ p \in DevPollType /\ Registered(p.table, p.kernel, o)
      /\ NotTaken(p.ev_buf, p.table)
  BY DEF DevPollRep
<1>2. i \in DOMAIN p.ev_buf /\ e \in DevEvent
  <2>1. p.ev_buf \in Seq(DevEvent) BY <1>1 DEF DevPollType
  <2>2. QED BY <2>1, LenProperties DEF D!count
<1>3. e.fd \in Fds BY <1>2 DEF DevEvent
<1>4. ASSUME x.valid, x.accepted
      PROVE  x.reactor = e.of /\ x.reactor \in OpenIn(o)
  <2>1. x.reactor = e.of BY <1>1, <1>2, <1>4 DEF NotTaken
  <2>2. PICK r \in Regs : o[r].fd = e.fd BY <1>1, <1>3, <1>4 DEF Registered
  <2>3. r \in OpenIn(o) BY <1>3, <2>2, OpenHasFile DEF OpenIn
  <2>4. x.reactor = r BY <1>1, <2>2, <2>3 DEF Registered
  <2>5. QED BY <2>1, <2>3, <2>4
<1>5. QED BY <1>4 DEF ItemRight, D!item

LEMMA DevPollWatched ==
  ASSUME NEW o, NEW n, NEW p, Asked(o, n), DevPollRep(p, o, n)
  PROVE  D!Watched(p) = Wanted(o)
<1> DEFINE on == {f \in Fds : p.table[f].valid /\ p.kernel[f].on}
           W(f) == <<p.table[f].reactor, f, p.kernel[f].events>>
<1>1. p \in DevPollType /\ Registered(p.table, p.kernel, o) BY DEF DevPollRep
<1>2. ASSUME NEW f \in on
      PROVE  \E r \in OpenIn(o) : W(f) = <<r, o[r].fd, o[r].events>>
  <2>1. PICK r \in Regs : o[r].fd = f BY <1>1 DEF Registered
  <2>2. r \in OpenIn(o) BY <2>1, OpenHasFile DEF OpenIn
  <2>3. p.table[f].reactor = r /\ p.kernel[f].events = o[r].events
    BY <1>1, <2>1, <2>2 DEF Registered
  <2>4. QED BY <2>1, <2>2, <2>3
<1>3. ASSUME NEW r \in OpenIn(o)
      PROVE  o[r].fd \in on /\ W(o[r].fd) = <<r, o[r].fd, o[r].events>>
  <2>1. r \in Regs /\ o[r].fd \in Fds /\ r # 0 BY OpenHasFile
  <2>2. QED BY <1>1, <2>1 DEF Registered
<1>4. D!Watched(p) = {W(f) : f \in on} BY DEF D!Watched
<1> HIDE DEF W, on
<1>5. QED BY <1>2, <1>3, <1>4 DEF Wanted

-----------------------------------------------------------------------------
(* The poller that was built.                                              *)

LEMMA RepIs ==
  ASSUME NEW p, NEW o, NEW n
  PROVE  /\ plan.impl = "epoll"   => (Rep(p, o, n) <=> EpollRep(p, o, n))
         /\ plan.impl = "kqueue"  => (Rep(p, o, n) <=> KqueueRep(p, o, n))
         /\ plan.impl = "poll"    => (Rep(p, o, n) <=> PollRep(p, o, n))
         /\ plan.impl = "select"  => (Rep(p, o, n) <=> SelectRep(p, o, n))
         /\ plan.impl = "devpoll" => (Rep(p, o, n) <=> DevPollRep(p, o, n))
BY DEF Rep, Represents

LEMMA AddRep ==
  ASSUME NEW o, NEW o2, NEW r, NEW f, NEW p, Asked(o, r), Made(o, o2, r, f),
         plan.impl \in Impls, Rep(p, o, r)
  PROVE  Rep(AddFd(plan.impl, p, f, r), o2, r + 1)
<1>1. CASE plan.impl = "epoll"
  <2>1. EpollRep(p, o, r) BY <1>1 DEF Rep, Represents
  <2>2. AddFd(plan.impl, p, f, r) = E!add_fd(p, f, r) BY <1>1 DEF AddFd
  <2>3. EpollRep(E!add_fd(p, f, r), o2, r + 1) BY <2>1, EpollAdd
  <2>4. QED BY <1>1, <2>2, <2>3, RepIs
<1>2. CASE plan.impl = "kqueue"
  <2>1. KqueueRep(p, o, r) BY <1>2 DEF Rep, Represents
  <2>2. AddFd(plan.impl, p, f, r) = K!add_fd(p, f, r) BY <1>2 DEF AddFd
  <2>3. KqueueRep(K!add_fd(p, f, r), o2, r + 1) BY <2>1, KqueueAdd
  <2>4. QED BY <1>2, <2>2, <2>3, RepIs
<1>3. CASE plan.impl = "poll"
  <2>1. PollRep(p, o, r) BY <1>3 DEF Rep, Represents
  <2>2. AddFd(plan.impl, p, f, r) = P!add_fd(p, f, r) BY <1>3 DEF AddFd
  <2>3. PollRep(P!add_fd(p, f, r), o2, r + 1) BY <2>1, PollAdd
  <2>4. QED BY <1>3, <2>2, <2>3, RepIs
<1>4. CASE plan.impl = "select"
  <2>1. SelectRep(p, o, r) BY <1>4 DEF Rep, Represents
  <2>2. AddFd(plan.impl, p, f, r) = S!add_fd(p, f, r) BY <1>4 DEF AddFd
  <2>3. SelectRep(S!add_fd(p, f, r), o2, r + 1) BY <2>1, SelectAdd
  <2>4. QED BY <1>4, <2>2, <2>3, RepIs
<1>5. CASE plan.impl = "devpoll"
  <2>1. DevPollRep(p, o, r) BY <1>5 DEF Rep, Represents
  <2>2. AddFd(plan.impl, p, f, r) = D!add_fd(p, f, r) BY <1>5 DEF AddFd
  <2>3. DevPollRep(D!add_fd(p, f, r), o2, r + 1) BY <2>1, DevPollAdd
  <2>4. QED BY <1>5, <2>2, <2>3, RepIs
<1>6. QED BY <1>1, <1>2, <1>3, <1>4, <1>5 DEF Impls

LEMMA RmRep ==
  ASSUME NEW o, NEW o2, NEW n, NEW r, NEW p, Asked(o, n), Gone(o, o2, r),
         plan.impl \in Impls, Rep(p, o, n)
  PROVE  Rep(RmFd(p, r, o[r].fd), o2, n)
<1>1. CASE plan.impl = "epoll"
  <2>1. EpollRep(p, o, n) BY <1>1 DEF Rep, Represents
  <2>2. RmFd(p, r, o[r].fd) = E!rm_fd(p, r, o[r].fd) BY <1>1 DEF RmFd
  <2>3. EpollRep(E!rm_fd(p, r, o[r].fd), o2, n) BY <2>1, EpollRm
  <2>4. QED BY <1>1, <2>2, <2>3, RepIs
<1>2. CASE plan.impl = "kqueue"
  <2>1. KqueueRep(p, o, n) BY <1>2 DEF Rep, Represents
  <2>2. RmFd(p, r, o[r].fd) = K!rm_fd(p, r, o[r].fd) BY <1>2 DEF RmFd
  <2>3. KqueueRep(K!rm_fd(p, r, o[r].fd), o2, n) BY <2>1, KqueueRm
  <2>4. QED BY <1>2, <2>2, <2>3, RepIs
<1>3. CASE plan.impl = "poll"
  <2>1. PollRep(p, o, n) BY <1>3 DEF Rep, Represents
  <2>2. RmFd(p, r, o[r].fd) = P!rm_fd(p, r, o[r].fd) BY <1>3 DEF RmFd
  <2>3. PollRep(P!rm_fd(p, r, o[r].fd), o2, n) BY <2>1, PollRm
  <2>4. QED BY <1>3, <2>2, <2>3, RepIs
<1>4. CASE plan.impl = "select"
  <2>1. SelectRep(p, o, n) BY <1>4 DEF Rep, Represents
  <2>2. RmFd(p, r, o[r].fd) = S!rm_fd(p, r, o[r].fd) BY <1>4 DEF RmFd
  <2>3. SelectRep(S!rm_fd(p, r, o[r].fd), o2, n) BY <2>1, SelectRm
  <2>4. QED BY <1>4, <2>2, <2>3, RepIs
<1>5. CASE plan.impl = "devpoll"
  <2>1. DevPollRep(p, o, n) BY <1>5 DEF Rep, Represents
  <2>2. RmFd(p, r, o[r].fd) = D!rm_fd(p, r, o[r].fd) BY <1>5 DEF RmFd
  <2>3. DevPollRep(D!rm_fd(p, r, o[r].fd), o2, n) BY <2>1, DevPollRm
  <2>4. QED BY <1>5, <2>2, <2>3, RepIs
<1>6. QED BY <1>1, <1>2, <1>3, <1>4, <1>5 DEF Impls

LEMMA SetRep ==
  ASSUME NEW o, NEW o2, NEW n, NEW r, NEW ev, NEW p, Asked(o, n),
         Polled(o, o2, r, ev), OneStep(o[r].events, ev),
         plan.impl \in Impls, Rep(p, o, n)
  PROVE  Rep(SetPoll(plan.impl, p, r, o[r].fd, ev), o2, n)
<1>1. CASE plan.impl = "epoll"
  <2>1. EpollRep(p, o, n) BY <1>1 DEF Rep, Represents
  <2>2. SetPoll(plan.impl, p, r, o[r].fd, ev) = E!set_poll(p, r, o[r].fd, ev) BY <1>1 DEF SetPoll
  <2>3. EpollRep(E!set_poll(p, r, o[r].fd, ev), o2, n) BY <2>1, EpollSet
  <2>4. QED BY <1>1, <2>2, <2>3, RepIs
<1>2. CASE plan.impl = "kqueue"
  <2>1. KqueueRep(p, o, n) BY <1>2 DEF Rep, Represents
  <2>2. SetPoll(plan.impl, p, r, o[r].fd, ev) = K!set_poll(p, r, o[r].fd, ev) BY <1>2 DEF SetPoll
  <2>3. KqueueRep(K!set_poll(p, r, o[r].fd, ev), o2, n) BY <2>1, KqueueSet
  <2>4. QED BY <1>2, <2>2, <2>3, RepIs
<1>3. CASE plan.impl = "poll"
  <2>1. PollRep(p, o, n) BY <1>3 DEF Rep, Represents
  <2>2. SetPoll(plan.impl, p, r, o[r].fd, ev) = P!set_poll(p, r, o[r].fd, ev) BY <1>3 DEF SetPoll
  <2>3. PollRep(P!set_poll(p, r, o[r].fd, ev), o2, n) BY <2>1, PollSetEvents
  <2>4. QED BY <1>3, <2>2, <2>3, RepIs
<1>4. CASE plan.impl = "select"
  <2>1. SelectRep(p, o, n) BY <1>4 DEF Rep, Represents
  <2>2. SetPoll(plan.impl, p, r, o[r].fd, ev) = S!set_poll(p, r, o[r].fd, ev) BY <1>4 DEF SetPoll
  <2>3. SelectRep(S!set_poll(p, r, o[r].fd, ev), o2, n) BY <2>1, SelectSetEvents
  <2>4. QED BY <1>4, <2>2, <2>3, RepIs
<1>5. CASE plan.impl = "devpoll"
  <2>1. DevPollRep(p, o, n) BY <1>5 DEF Rep, Represents
  <2>2. SetPoll(plan.impl, p, r, o[r].fd, ev) = D!set_poll(p, r, o[r].fd, ev) BY <1>5 DEF SetPoll
  <2>3. DevPollRep(D!set_poll(p, r, o[r].fd, ev), o2, n) BY <2>1, DevPollSet
  <2>4. QED BY <1>5, <2>2, <2>3, RepIs
<1>6. QED BY <1>1, <1>2, <1>3, <1>4, <1>5 DEF Impls

LEMMA WaitRep ==
  ASSUME NEW o, NEW n, NEW p, Asked(o, n), plan.impl \in Impls, Rep(p, o, n),
         NEW of, Owners(of, o), NEW ready \in Ready,
         NEW q \in Waited(p, ready, of)
  PROVE  Rep(q, o, n)
<1>1. CASE plan.impl = "epoll"
  <2>1. EpollRep(p, o, n) BY <1>1 DEF Rep, Represents
  <2>2. q \in E!wait(p, ready, of) BY <1>1 DEF Waited
  <2>3. EpollRep(q, o, n) BY <2>1, <2>2, EpollWait
  <2>4. QED BY <1>1, <2>3, RepIs
<1>2. CASE plan.impl = "kqueue"
  <2>1. KqueueRep(p, o, n) BY <1>2 DEF Rep, Represents
  <2>2. q \in K!wait(p, ready, of) BY <1>2 DEF Waited
  <2>3. KqueueRep(q, o, n) BY <2>1, <2>2, KqueueWait
  <2>4. QED BY <1>2, <2>3, RepIs
<1>3. CASE plan.impl = "poll"
  <2>1. PollRep(p, o, n) BY <1>3 DEF Rep, Represents
  <2>2. q \in P!wait(p, ready, of) BY <1>3 DEF Waited
  <2>3. PollRep(q, o, n) BY <2>1, <2>2, PollWait
  <2>4. QED BY <1>3, <2>3, RepIs
<1>4. CASE plan.impl = "select"
  <2>1. SelectRep(p, o, n) BY <1>4 DEF Rep, Represents
  <2>2. q \in S!wait(p, ready, of) BY <1>4 DEF Waited
  <2>3. SelectRep(q, o, n) BY <2>1, <2>2, SelectWait
  <2>4. QED BY <1>4, <2>3, RepIs
<1>5. CASE plan.impl = "devpoll"
  <2>1. DevPollRep(p, o, n) BY <1>5 DEF Rep, Represents
  <2>2. q \in D!wait(p, ready, of) BY <1>5 DEF Waited
  <2>3. DevPollRep(q, o, n) BY <2>1, <2>2, DevPollWait
  <2>4. QED BY <1>5, <2>3, RepIs
<1>6. QED BY <1>1, <1>2, <1>3, <1>4, <1>5 DEF Impls

LEMMA CleanupRep ==
  ASSUME NEW o, NEW n, NEW p, Asked(o, n), plan.impl \in Impls, Rep(p, o, n)
  PROVE  /\ Rep(Cleanup(p), o, n)
         /\ plan.impl = "devpoll" => Cleanup(p).ev_buf = <<>>
<1>1. CASE plan.impl = "epoll"
  <2>1. EpollRep(p, o, n) BY <1>1 DEF Rep, Represents
  <2>2. Cleanup(p) = E!cleanup(p) BY <1>1 DEF Cleanup
  <2>3. EpollRep(E!cleanup(p), o, n) BY <2>1, EpollCleanup
  <2>4. QED BY <1>1, <2>2, <2>3, RepIs
<1>2. CASE plan.impl = "kqueue"
  <2>1. KqueueRep(p, o, n) BY <1>2 DEF Rep, Represents
  <2>2. Cleanup(p) = K!cleanup(p) BY <1>2 DEF Cleanup
  <2>3. KqueueRep(K!cleanup(p), o, n) BY <2>1, KqueueCleanup
  <2>4. QED BY <1>2, <2>2, <2>3, RepIs
<1>3. CASE plan.impl = "poll"
  <2>1. PollRep(p, o, n) BY <1>3 DEF Rep, Represents
  <2>2. Cleanup(p) = P!cleanup(p) BY <1>3 DEF Cleanup
  <2>3. PollRep(P!cleanup(p), o, n) BY <2>1, PollCleanup
  <2>4. QED BY <1>3, <2>2, <2>3, RepIs
<1>4. CASE plan.impl = "select"
  <2>1. SelectRep(p, o, n) BY <1>4 DEF Rep, Represents
  <2>2. Cleanup(p) = S!cleanup(p) BY <1>4 DEF Cleanup
  <2>3. SelectRep(S!cleanup(p), o, n) BY <2>1, SelectCleanup
  <2>4. QED BY <1>4, <2>2, <2>3, RepIs
<1>5. CASE plan.impl = "devpoll"
  <2>1. DevPollRep(p, o, n) BY <1>5 DEF Rep, Represents
  <2>2. Cleanup(p) = D!cleanup(p) BY <1>5 DEF Cleanup
  <2>3. DevPollRep(D!cleanup(p), o, n) /\ D!cleanup(p).ev_buf = <<>>
    BY <2>1, DevPollCleanup
  <2>4. QED BY <1>5, <2>2, <2>3, RepIs
<1>6. QED BY <1>1, <1>2, <1>3, <1>4, <1>5 DEF Impls

LEMMA BeginRep ==
  ASSUME NEW o, NEW n, NEW p, Asked(o, n), plan.impl \in Impls, Rep(p, o, n),
         plan.impl = "devpoll" => p.ev_buf = <<>>
  PROVE  /\ Rep(BeginPass(p), o, n)
         /\ plan.impl = "devpoll" => BeginPass(p).ev_buf = <<>>
<1>1. CASE plan.impl = "devpoll"
  <2>1. DevPollRep(p, o, n) BY <1>1 DEF Rep, Represents
  <2>2. BeginPass(p) = D!begin(p) BY <1>1 DEF BeginPass
  <2>3. DevPollRep(D!begin(p), o, n) /\ D!begin(p).ev_buf = <<>>
    BY <1>1, <2>1, DevPollBegin
  <2>4. QED BY <1>1, <2>2, <2>3, RepIs
<1>2. CASE plan.impl # "devpoll" BY <1>2 DEF BeginPass
<1>3. QED BY <1>1, <1>2

LEMMA ItemOfBatch ==
  ASSUME NEW o, NEW n, NEW p, Asked(o, n), plan.impl \in Impls, Rep(p, o, n),
         NEW i \in Nat \ {0}, i <= Count(p)
  PROVE  ItemRight(Item(p, i), o)
<1>1. CASE plan.impl = "epoll"
  <2>1. EpollRep(p, o, n) BY <1>1 DEF Rep, Represents
  <2>2. Item(p, i) = E!item(p, i) /\ Count(p) = E!count(p)
    BY <1>1 DEF Item, Count
  <2>3. E!count(p) \in Nat
    BY <2>1, LenProperties DEF EpollRep, EpollType, E!count
  <2>4. i \in 1..E!count(p) BY <2>2, <2>3
  <2>5. QED BY <2>1, <2>2, <2>4, EpollItem
<1>2. CASE plan.impl = "kqueue"
  <2>1. KqueueRep(p, o, n) BY <1>2 DEF Rep, Represents
  <2>2. Item(p, i) = K!item(p, i) /\ Count(p) = K!count(p)
    BY <1>2 DEF Item, Count
  <2>3. K!count(p) \in Nat
    BY <2>1, LenProperties DEF KqueueRep, KqueueType, K!count
  <2>4. i \in 1..K!count(p) BY <2>2, <2>3
  <2>5. QED BY <2>1, <2>2, <2>4, KqueueItem
<1>3. CASE plan.impl = "poll"
  <2>1. PollRep(p, o, n) BY <1>3 DEF Rep, Represents
  <2>2. Item(p, i) = P!item(p, i) /\ Count(p) = P!count(p)
    BY <1>3 DEF Item, Count
  <2>3. P!count(p) \in Nat
    BY <2>1, LenProperties DEF PollRep, PollType, P!count
  <2>4. i \in 1..P!count(p) BY <2>2, <2>3
  <2>5. QED BY <2>1, <2>2, <2>4, PollItem
<1>4. CASE plan.impl = "select"
  <2>1. SelectRep(p, o, n) BY <1>4 DEF Rep, Represents
  <2>2. Item(p, i) = S!item(p, i) /\ Count(p) = S!count(p)
    BY <1>4 DEF Item, Count
  <2>3. S!count(p) \in Nat
    BY <2>1, LenProperties DEF SelectRep, SelectType, S!count
  <2>4. i \in 1..S!count(p) BY <2>2, <2>3
  <2>5. QED BY <2>1, <2>2, <2>4, SelectItem
<1>5. CASE plan.impl = "devpoll"
  <2>1. DevPollRep(p, o, n) BY <1>5 DEF Rep, Represents
  <2>2. Item(p, i) = D!item(p, i) /\ Count(p) = D!count(p)
    BY <1>5 DEF Item, Count
  <2>3. D!count(p) \in Nat
    BY <2>1, LenProperties DEF DevPollRep, DevPollType, D!count
  <2>4. i \in 1..D!count(p) BY <2>2, <2>3
  <2>5. QED BY <2>1, <2>2, <2>4, DevPollItem
<1>6. QED BY <1>1, <1>2, <1>3, <1>4, <1>5 DEF Impls

LEMMA WatchedIs ==
  ASSUME NEW o, NEW n, NEW p, Asked(o, n), plan.impl \in Impls, Rep(p, o, n)
  PROVE  Watched(p) = {<<r, o[r].fd, o[r].events>> :
           r \in {x \in OpenIn(o) : plan.impl = "kqueue" => o[x].events # {}}}
<1> DEFINE All == {<<r, o[r].fd, o[r].events>> :
                     r \in {x \in OpenIn(o) :
                              plan.impl = "kqueue" => o[x].events # {}}}
<1>1. CASE plan.impl = "epoll"
  <2>1. EpollRep(p, o, n) BY <1>1 DEF Rep, Represents
  <2>2. Watched(p) = E!Watched(p) BY <1>1 DEF Watched
  <2>3. E!Watched(p) = Wanted(o) BY <2>1, EpollWatched
  <2>4. Wanted(o) = All BY <1>1 DEF Wanted
  <2>5. QED BY <2>2, <2>3, <2>4
<1>2. CASE plan.impl = "kqueue"
  <2>1. KqueueRep(p, o, n) BY <1>2 DEF Rep, Represents
  <2>2. Watched(p) = K!Watched(p) BY <1>2 DEF Watched
  <2>3. K!Watched(p) = {w \in Wanted(o) : w[3] # {}}
    BY <2>1, KqueueWatched
  <2>4. {w \in Wanted(o) : w[3] # {}} = All BY <1>2 DEF Wanted
  <2>5. QED BY <2>2, <2>3, <2>4
<1>3. CASE plan.impl = "poll"
  <2>1. PollRep(p, o, n) BY <1>3 DEF Rep, Represents
  <2>2. Watched(p) = P!Watched(p) BY <1>3 DEF Watched
  <2>3. P!Watched(p) = Wanted(o) BY <2>1, PollWatched
  <2>4. Wanted(o) = All BY <1>3 DEF Wanted
  <2>5. QED BY <2>2, <2>3, <2>4
<1>4. CASE plan.impl = "select"
  <2>1. SelectRep(p, o, n) BY <1>4 DEF Rep, Represents
  <2>2. Watched(p) = S!Watched(p) BY <1>4 DEF Watched
  <2>3. S!Watched(p) = Wanted(o) BY <2>1, SelectWatched
  <2>4. Wanted(o) = All BY <1>4 DEF Wanted
  <2>5. QED BY <2>2, <2>3, <2>4
<1>5. CASE plan.impl = "devpoll"
  <2>1. DevPollRep(p, o, n) BY <1>5 DEF Rep, Represents
  <2>2. Watched(p) = D!Watched(p) BY <1>5 DEF Watched
  <2>3. D!Watched(p) = Wanted(o) BY <2>1, DevPollWatched
  <2>4. Wanted(o) = All BY <1>5 DEF Wanted
  <2>5. QED BY <2>2, <2>3, <2>4
<1>6. QED BY <1>1, <1>2, <1>3, <1>4, <1>5 DEF Impls

\* The assertions of the poller hold, and only the wait fills devpoll's batch.
LEMMA RepOk ==
  ASSUME NEW o, NEW n, NEW p, plan.impl \in Impls, Rep(p, o, n)
  PROVE  p.ok = TRUE
<1>1. CASE plan.impl = "epoll"
  <2>1. p \in EpollType BY <1>1 DEF Rep, Represents, EpollRep
  <2>2. QED BY <2>1 DEF EpollType
<1>2. CASE plan.impl = "kqueue"
  <2>1. p \in KqueueType BY <1>2 DEF Rep, Represents, KqueueRep
  <2>2. QED BY <2>1 DEF KqueueType
<1>3. CASE plan.impl = "poll"
  <2>1. p \in PollType BY <1>3 DEF Rep, Represents, PollRep
  <2>2. QED BY <2>1 DEF PollType
<1>4. CASE plan.impl = "select"
  <2>1. p \in SelectType BY <1>4 DEF Rep, Represents, SelectRep
  <2>2. QED BY <2>1 DEF SelectType
<1>5. CASE plan.impl = "devpoll"
  <2>1. p \in DevPollType BY <1>5 DEF Rep, Represents, DevPollRep
  <2>2. QED BY <2>1 DEF DevPollType
<1>6. QED BY <1>1, <1>2, <1>3, <1>4, <1>5 DEF Impls

LEMMA BatchKept ==
  ASSUME plan.impl = "devpoll", NEW o, NEW n, NEW p, Rep(p, o, n),
         NEW r, NEW f, NEW ev
  PROVE  /\ AddFd(plan.impl, p, f, r).ev_buf = p.ev_buf
         /\ RmFd(p, r, f).ev_buf = p.ev_buf
         /\ SetPoll(plan.impl, p, r, f, ev).ev_buf = p.ev_buf
<1>1. p \in DevPollType BY DEF Rep, Represents, DevPollRep
<1>2. AddFd(plan.impl, p, f, r).ev_buf = p.ev_buf
  BY <1>1 DEF DevPollType, AddFd, D!add_fd
<1>3. RmFd(p, r, f).ev_buf = p.ev_buf
  BY <1>1 DEF DevPollType, RmFd, D!rm_fd
<1>4. SetPoll(plan.impl, p, r, f, ev).ev_buf = p.ev_buf
  BY <1>1 DEF DevPollType, SetPoll, D!set_poll
<1>5. QED BY <1>2, <1>3, <1>4

(* A new poller represents that nothing is registered.                     *)
NoObj == [r \in Regs |-> [fd |-> 0, events |-> {}]]

LEMMA NoneAsked == Asked(NoObj, 1) /\ OpenIn(NoObj) = {}
BY DEF Asked, NoObj, OpenIn, Objs

LEMMA EpollNew == EpollRep(E!New, NoObj, 1)
<1> DEFINE en == [r \in Regs |-> [fd |-> 0, events |-> {}, freed |-> TRUE]]
           k  == [f \in Fds |-> [ptr |-> 0, events |-> {}]]
<1>1. E!New = [entry |-> en, kernel |-> k, retired |-> {}, ev_buf |-> <<>>,
               ok |-> TRUE]
  BY DEF E!New, E!NoWatch
<1>2. en \in [Regs -> [fd : Fds \cup {0}, events : SUBSET Dirs,
                       freed : BOOLEAN]]
  OBVIOUS
<1>3. k \in [Fds -> [ptr : Regs \cup {0}, events : SUBSET Dirs]] OBVIOUS
<1>4. Entries(en, {}, NoObj, 1) BY NoneAsked DEF Entries, NoObj
<1>5. Kernel(k, NoObj) BY NoneAsked, Numbers DEF Kernel, NoObj
<1>6. Batch(<<>>, {}, NoObj) BY EmptySeq DEF Batch
<1> HIDE DEF en, k
<1>7. E!New \in EpollType BY <1>1, <1>2, <1>3, EmptySeq DEF EpollType
<1>8. QED BY <1>1, <1>4, <1>5, <1>6, <1>7 DEF EpollRep

LEMMA KqueueNew == KqueueRep(K!New, NoObj, 1)
<1> DEFINE en == [r \in Regs |-> [fd |-> 0, flags |-> {}, freed |-> TRUE]]
<1>1. K!New = [entry |-> en, filters |-> {}, retired |-> {}, ev_buf |-> <<>>,
               ok |-> TRUE]
  BY DEF K!New
<1>2. en \in [Regs -> [fd : Fds \cup {0}, flags : SUBSET Dirs,
                       freed : BOOLEAN]]
  OBVIOUS
<1>3. Entries(en, {}, NoObj, 1) BY NoneAsked DEF Entries, NoObj
<1>4. Filters({}, NoObj) BY NoneAsked, FS_EmptySet DEF Filters
<1>5. Batch(<<>>, {}, NoObj) BY EmptySeq DEF Batch
<1> HIDE DEF en
<1>6. K!New \in KqueueType BY <1>1, <1>2, EmptySeq DEF KqueueType
<1>7. QED BY <1>1, <1>3, <1>4, <1>5, <1>6, NoneAsked DEF KqueueRep

LEMMA PollNew == PollRep(P!New, NoObj, 1)
<1> DEFINE zero == [f \in Fds |-> 0]
<1>1. P!New = [pollset |-> <<>>, index |-> zero, reactor |-> zero,
               retired |-> FALSE, ok |-> TRUE]
  BY DEF P!New
<1>2. zero \in [Fds -> Nat] /\ zero \in [Fds -> Regs \cup {0}] OBVIOUS
<1>3. Indexed(<<>>, zero, zero, NoObj)
  <2>1. \A r \in Regs : NoObj[r].fd = 0 BY DEF NoObj
  <2>2. \A f \in Fds : zero[f] = 0 /\ f # 0 BY Numbers
  <2>3. DOMAIN <<>> = {} OBVIOUS
  <2> HIDE DEF zero
  <2>4. QED BY <2>1, <2>2, <2>3, NoneAsked DEF Indexed
<1> HIDE DEF zero
<1>4. P!New \in PollType BY <1>1, <1>2, EmptySeq DEF PollType
<1>5. QED BY <1>1, <1>3, <1>4 DEF PollRep

LEMMA SelectNew == SelectRep(S!New, NoObj, 1)
<1> DEFINE zero == [f \in Fds |-> 0]
<1>1. S!New = [fds |-> <<>>, in |-> {}, out |-> {}, err |-> {}, readfds |-> {},
               writefds |-> {}, exceptfds |-> {}, seen |-> zero, maxfd |-> 0,
               retired |-> FALSE, ok |-> TRUE]
  BY DEF S!New
<1>2. zero \in [Fds -> Regs \cup {0}] OBVIOUS
<1> HIDE DEF zero
<1>3. S!New \in SelectType BY <1>1, <1>2, EmptySeq DEF SelectType
<1>4. Rows(<<>>, NoObj) BY NoneAsked DEF Rows, OncePerFile
<1>5. Selects({}, {}, {}, NoObj) BY NoneAsked, Numbers DEF Selects, NoObj
<1>6. /\ S!New.fds = <<>> /\ S!New.in = {} /\ S!New.out = {} /\ S!New.err = {}
      /\ S!New.readfds = {} /\ S!New.writefds = {} /\ S!New.exceptfds = {}
  BY <1>1
<1>7. Returned(S!New, NoObj) BY <1>6 DEF Returned
<1>8. QED BY <1>3, <1>4, <1>5, <1>6, <1>7 DEF SelectRep

LEMMA DevPollNew == DevPollRep(D!New, NoObj, 1) /\ D!New.ev_buf = <<>>
<1> DEFINE t == [f \in Fds |-> [valid |-> FALSE, accepted |-> FALSE,
                                events |-> {}, reactor |-> 0]]
           k == [f \in Fds |-> [on |-> FALSE, events |-> {}]]
<1>1. D!New = [table |-> t, size |-> 0, kernel |-> k, pending |-> {},
               ev_buf |-> <<>>, held |-> FALSE, moved |-> FALSE, ok |-> TRUE]
  BY DEF D!New, D!NoWatch
<1>2. t \in [Fds -> DevRow] /\ k \in [Fds -> DevKernel]
  BY DEF DevRow, DevKernel
<1>3. Registered(t, k, NoObj) BY NoneAsked, Numbers DEF Registered, NoObj
<1> HIDE DEF t, k
<1>4. D!New \in DevPollType BY <1>1, <1>2, EmptySeq DEF DevPollType
<1>5. D!New.ev_buf = <<>> /\ D!New.table = t /\ D!New.kernel = k BY <1>1
<1>6. NotTaken(<<>>, t) BY DEF NotTaken
<1>7. QED BY <1>3, <1>4, <1>5, <1>6 DEF DevPollRep

LEMMA NewRep ==
  ASSUME plan.impl \in Impls
  PROVE  /\ Rep(New(plan.impl), NoObj, 1)
         /\ plan.impl = "devpoll" => New(plan.impl).ev_buf = <<>>
<1>1. CASE plan.impl = "epoll" BY <1>1, EpollNew DEF Rep, Represents, New
<1>2. CASE plan.impl = "kqueue" BY <1>2, KqueueNew DEF Rep, Represents, New
<1>3. CASE plan.impl = "poll" BY <1>3, PollNew DEF Rep, Represents, New
<1>4. CASE plan.impl = "select" BY <1>4, SelectNew DEF Rep, Represents, New
<1>5. CASE plan.impl = "devpoll" BY <1>5, DevPollNew DEF Rep, Represents, New
<1>6. QED BY <1>1, <1>2, <1>3, <1>4, <1>5 DEF Impls

(* The thread starts with its mailbox registered.                          *)
FirstObj == [r \in Regs |-> IF r = 1 THEN [fd |-> 1, events |-> {"in"}]
                            ELSE [fd |-> 0, events |-> {}]]

LEMMA FirstRep ==
  ASSUME plan.impl \in Impls,
         NEW q, q = SetPoll(plan.impl, AddFd(plan.impl, New(plan.impl), 1, 1),
                            1, 1, {"in"})
  PROVE  /\ Asked(FirstObj, 2) /\ Rep(q, FirstObj, 2)
         /\ OpenIn(FirstObj) = {1}
         /\ plan.impl = "devpoll" => q.ev_buf = <<>>
<1> DEFINE new == New(plan.impl)
           p   == AddFd(plan.impl, new, 1, 1)
           o   == [NoObj EXCEPT ![1] = [fd |-> 1, events |-> {}]]
           o2  == [o EXCEPT ![1].events = {"in"}]
<1>1. Rep(new, NoObj, 1) /\ (plan.impl = "devpoll" => new.ev_buf = <<>>)
  BY NewRep
<1>2. 1 \in Regs /\ 1 \in Fds BY Numbers
<1>3. Asked(o, 2) /\ Made(NoObj, o, 1, 1)
  BY <1>2, NoneAsked, AskedAdd
<1> HIDE DEF new
<1>4. Rep(p, o, 2) BY <1>1, <1>3, NoneAsked, AddRep
<1>5. o[1].fd = 1 /\ o[1].events = {} /\ 1 \in OpenIn(o)
  BY <1>2 DEF NoObj, OpenIn
<1> HIDE DEF o, p
<1>6. Asked(o2, 2) /\ Polled(o, o2, 1, {"in"})
  <2>1. {"in"} \in SUBSET Dirs BY DEF Dirs
  <2>2. QED BY <1>3, <1>5, <2>1, AskedSet
<1>7. OneStep(o[1].events, {"in"})
  <2>1. "in" \in Dirs /\ "in" \notin {} /\ {"in"} = {} \cup {"in"} BY DEF Dirs
  <2>2. QED BY <1>5, <2>1, Zenon DEF OneStep
<1>8. Rep(q, o2, 2)
  <2>1. Rep(SetPoll(plan.impl, p, 1, o[1].fd, {"in"}), o2, 2)
    BY <1>3, <1>4, <1>6, <1>7, SetRep
  <2>2. q = SetPoll(plan.impl, p, 1, o[1].fd, {"in"}) BY <1>5 DEF p, new
  <2>3. QED BY <2>1, <2>2
<1>9. o2 = FirstObj
  <2>1. \A r \in Regs : o[r] = IF r = 1 THEN [fd |-> 1, events |-> {}]
                                       ELSE [fd |-> 0, events |-> {}]
    BY <1>2 DEF o, NoObj
  <2>2. DOMAIN o = Regs BY DEF o, NoObj
  <2>3. [o[1] EXCEPT !.events = {"in"}] = [fd |-> 1, events |-> {"in"}]
    BY <1>2, <2>1
  <2>4. o2 = [r \in Regs |-> IF r = 1 THEN [o[1] EXCEPT !.events = {"in"}]
                                      ELSE o[r]]
    BY <2>2
  <2>5. \A r \in Regs : r # 1 => o[r] = [fd |-> 0, events |-> {}] BY <2>1
  <2> HIDE DEF o2
  <2>6. QED BY <2>3, <2>4, <2>5 DEF FirstObj
<1>10. OpenIn(FirstObj) = {1} BY <1>2 DEF OpenIn, FirstObj
<1>11. plan.impl = "devpoll" => q.ev_buf = <<>>
  <2>1. SUFFICES ASSUME plan.impl = "devpoll" PROVE q.ev_buf = <<>> OBVIOUS
  <2>2. p.ev_buf = new.ev_buf BY <1>1, <2>1, BatchKept DEF p
  <2>3. SetPoll(plan.impl, p, 1, 1, {"in"}).ev_buf = p.ev_buf
    BY <1>4, <2>1, BatchKept
  <2>4. QED BY <1>1, <2>1, <2>2, <2>3 DEF p, new
<1>12. QED BY <1>6, <1>8, <1>9, <1>10, <1>11

-----------------------------------------------------------------------------
(* The timers.                                                             *)

\* Where multimap::insert puts a timer.
LEMMA PlaceExists ==
  ASSUME NEW t \in Seq(Timer), Sorted(t), NEW e \in Nat
  PROVE  \E k \in 1..Len(t) + 1 : /\ \A j \in 1..k - 1 : t[j].exp <= e
                                  /\ \A j \in k..Len(t) : t[j].exp > e
<1> DEFINE N == Len(t)
           X == {i \in 1..N + 1 : \A j \in i..N : t[j].exp > e}
<1>1. N \in Nat /\ DOMAIN t = 1..N BY LenProperties
<1>2. \A i \in 1..N : t[i].exp \in Nat
  <2>1. \A i \in 1..N : t[i] \in Timer BY <1>1
  <2>2. QED BY <2>1, Numbers DEF Timer
<1> HIDE DEF N
<1>3. X \subseteq Nat /\ N + 1 \in X BY <1>1
<1>4. PICK k \in X : \A i \in X : k <= i BY <1>3, Least
<1>5. k \in 1..N + 1 /\ \A j \in k..N : t[j].exp > e OBVIOUS
<1>6. ASSUME NEW j \in 1..k - 1 PROVE t[j].exp <= e
  <2>1. k - 1 \in 1..N /\ k - 1 \notin X
    <3>1. k - 1 \in 1..N /\ ~(k <= k - 1) BY <1>1, <1>5, <1>6
    <3> HIDE DEF X
    <3>2. QED BY <1>4, <3>1
  <2>2. PICK i \in k - 1..N : ~(t[i].exp > e) BY <1>1, <1>5, <2>1
  <2>3. i = k - 1 BY <1>1, <1>5, <2>1, <2>2
  <2>4. t[k - 1].exp <= e BY <1>2, <2>1, <2>2, <2>3
  <2>5. j \in 1..N /\ (j = k - 1 \/ j < k - 1) BY <1>1, <1>5, <2>1
  <2>6. t[j].exp <= t[k - 1].exp
    <3>1. CASE j = k - 1
      <4>1. t[j].exp = t[k - 1].exp /\ t[j].exp \in Nat BY <1>2, <2>5, <3>1
      <4>2. QED BY <4>1
    <3>2. CASE j < k - 1
      <4>1. j \in DOMAIN t /\ k - 1 \in DOMAIN t BY <1>1, <2>1, <2>5
      <4>2. QED BY <3>2, <4>1 DEF Sorted
    <3>3. QED BY <2>5, <3>1, <3>2
  <2>7. QED BY <1>2, <2>1, <2>4, <2>5, <2>6
<1>7. QED BY <1>5, <1>6 DEF N

\* t has the timers of s and x at the place k.
With(t, s, k, x) ==
  /\ t \in Seq(Timer) /\ Len(t) = Len(s) + 1 /\ Sorted(t) /\ t[k] = x
  /\ \A j \in 1..Len(s) : \/ j < k /\ t[j] = s[j] /\ s[j].exp <= x.exp
                          \/ k <= j /\ t[j + 1] = s[j] /\ s[j].exp > x.exp
  /\ \A j \in 1..Len(t) :
       j # k => \E i \in 1..Len(s) : t[j] = s[i] /\ i <= j
                   /\ (j < k => i = j) /\ (k < j => i = j - 1)

LEMMA Inserted ==
  ASSUME timers \in Seq(Timer), Sorted(timers), NEW e \in 0..MaxTime,
         NEW s \in Sinks
  PROVE  \E k \in 1..Len(timers) + 1 :
           With(Insert(e, s), timers, k,
                [exp |-> e, sink |-> s, running |-> FALSE])
<1> DEFINE t == Insert(e, s)
<1> DEFINE N   == Len(timers)
           new == [exp |-> e, sink |-> s, running |-> FALSE]
           Fits(k) == /\ \A j \in 1..k - 1 : timers[j].exp <= e
                      /\ \A j \in k..N : timers[j].exp > e
           k == CHOOSE i \in 1..N + 1 : Fits(i)
<1>1. N \in Nat /\ DOMAIN timers = 1..N BY LenProperties
<1>2. e \in Nat BY Numbers
<1>3. k \in 1..N + 1 /\ Fits(k) BY <1>2, PlaceExists, Zenon
<1>4. t = InsertAt(timers, k, new) BY Zenon DEF Insert
<1>5. new \in Timer /\ new.exp = e BY DEF Timer
<1> HIDE DEF new, N, k
<1> HIDE DEF t
<1>6. t = [j \in 1..N + 1 |-> IF j < k THEN timers[j]
                              ELSE IF j = k THEN new ELSE timers[j - 1]]
  <2> DEFINE a == SubSeq(timers, 1, k - 1)
             b == SubSeq(timers, k, N)
  <2>1. t = a \o <<new>> \o b BY <1>4 DEF InsertAt, N
  <2>2. /\ a \in Seq(Timer) /\ Len(a) = k - 1 /\ b \in Seq(Timer)
        /\ Len(b) = N - k + 1
        /\ \A j \in 1..k - 1 : a[j] = timers[j]
        /\ \A j \in 1..N - k + 1 : b[j] = timers[k + j - 1]
    BY <1>1, <1>3 DEF N
  <2> HIDE DEF a, b
  <2>3. /\ a \o <<new>> \in Seq(Timer) /\ Len(a \o <<new>>) = k
        /\ \A j \in 1..k - 1 : (a \o <<new>>)[j] = timers[j]
        /\ (a \o <<new>>)[k] = new
    <3> DEFINE one == <<new>>
    <3>1. one \in Seq(Timer) /\ Len(one) = 1 /\ one[1] = new BY <1>5
    <3> HIDE DEF one
    <3>0. a \in Seq(Timer) /\ Len(a) = k - 1 BY <2>2
    <3>2. a \o one \in Seq(Timer) /\ Len(a \o one) = Len(a) + Len(one)
          /\ \A i \in 1..Len(a) + Len(one) :
               (a \o one)[i] = IF i <= Len(a) THEN a[i] ELSE one[i - Len(a)]
      BY <3>0, <3>1, ConcatProperties, Zenon
    <3>3. \A j \in 1..k - 1 : (a \o one)[j] = timers[j]
      BY <1>1, <1>3, <2>2, <3>1
    <3>5. k \in Nat /\ (k - 1) + 1 = k /\ k - (k - 1) = 1 BY <1>1, <1>3
    <3>4. (a \o one)[k] = new
      <4>1. k \in 1..Len(a) + Len(one) /\ ~(k <= Len(a))
        BY <1>3, <3>0, <3>1, <3>5
      <4>2. (a \o one)[k] = one[k - Len(a)] BY <3>2, <4>1
      <4>3. QED BY <3>0, <3>1, <3>5, <4>2
    <3>6. QED BY <3>0, <3>1, <3>2, <3>3, <3>4, <3>5 DEF one
  <2> DEFINE c == a \o <<new>>
  <2>4. t = c \o b BY <2>1
  <2>5. c \in Seq(Timer) /\ Len(c) = k
        /\ (\A j \in 1..k - 1 : c[j] = timers[j]) /\ c[k] = new
    BY <2>3
  <2> HIDE DEF c
  <2>6. t \in Seq(Timer) /\ Len(t) = N + 1
    <3>0. c \in Seq(Timer) /\ b \in Seq(Timer) /\ t = c \o b
      BY <2>2, <2>4, <2>5
    <3>1. t \in Seq(Timer) /\ Len(t) = Len(c) + Len(b)
      BY <3>0, ConcatProperties
    <3>2. k + (N - k + 1) = N + 1 BY <1>1, <1>3
    <3>3. QED BY <2>2, <2>5, <3>1, <3>2
  <2>7. ASSUME NEW j \in 1..N + 1
        PROVE  t[j] = IF j < k THEN timers[j]
                      ELSE IF j = k THEN new ELSE timers[j - 1]
    <3>1. CASE j <= k
      <4>1. t[j] = c[j] BY <1>1, <1>3, <2>2, <2>4, <2>5, <3>1
      <4>2. QED BY <1>1, <1>3, <2>5, <3>1, <4>1
    <3>2. CASE j > k
      <4>1. t[j] = b[j - k] /\ j - k \in 1..N - k + 1
        BY <1>1, <1>3, <2>2, <2>4, <2>5, <3>2
      <4>2. b[j - k] = timers[k + (j - k) - 1] BY <2>2, <4>1
      <4>3. k + (j - k) - 1 = j - 1 BY <1>1, <1>3
      <4>4. QED BY <1>1, <1>3, <3>2, <4>1, <4>2, <4>3
    <3>3. QED BY <1>1, <1>3, <3>1, <3>2
  <2>8. t = [j \in 1..N + 1 |-> t[j]] BY <1>1, <2>6
  <2>9. QED BY <2>7, <2>8
<1>7. /\ \A j \in 1..N + 1 : j < k => t[j] = timers[j] /\ j \in 1..N
      /\ t[k] = new
      /\ \A j \in 1..N + 1 : k < j => t[j] = timers[j - 1] /\ j - 1 \in 1..N
  BY <1>1, <1>3, <1>6
<1>8. \A i \in 1..N : timers[i] \in Timer /\ timers[i].exp \in Nat
  <2>1. \A i \in 1..N : timers[i] \in Timer BY <1>1
  <2>2. QED BY <2>1, Numbers DEF Timer
<1>9. t \in Seq(Timer) /\ Len(t) = N + 1 /\ DOMAIN t = 1..N + 1
  BY <1>1, <1>3, <1>5, <1>6, <1>8
<1>10. \A j \in 1..N :
         \/ j < k /\ t[j] = timers[j] /\ timers[j].exp <= e
         \/ k <= j /\ t[j + 1] = timers[j] /\ timers[j].exp > e
  BY <1>1, <1>3, <1>7
<1>11. \A j \in 1..N + 1 :
         j # k => \E i \in 1..N : t[j] = timers[i] /\ i <= j
                     /\ (j < k => i = j) /\ (k < j => i = j - 1)
  BY <1>1, <1>3, <1>7
<1>12. Sorted(t)
  <2> SUFFICES ASSUME NEW i \in 1..N + 1, NEW j \in 1..N + 1, i < j
               PROVE  t[i].exp <= t[j].exp
    BY <1>9 DEF Sorted
  <2>1. CASE j < k
    BY <1>1, <1>3, <1>7, <2>1 DEF Sorted
  <2>2. CASE j = k
    BY <1>1, <1>3, <1>5, <1>7, <2>2
  <2>3. CASE j > k /\ i = k
    <3>1. j - 1 \in k..N BY <1>1, <1>3, <2>3
    <3>2. timers[j - 1].exp > e BY <1>3, <3>1
    <3>3. timers[j - 1].exp \in Nat BY <1>7, <1>8, <2>3
    <3>4. QED BY <1>2, <1>5, <1>7, <2>3, <3>2, <3>3
  <2>4. CASE j > k /\ i < k
    <3>1. i \in 1..N /\ j - 1 \in 1..N /\ (i < j - 1 \/ i = j - 1)
      BY <1>1, <1>3, <1>7, <2>4
    <3>2. t[i] = timers[i] /\ t[j] = timers[j - 1] BY <1>7, <2>4
    <3>3. timers[i].exp <= timers[j - 1].exp
      BY <1>1, <1>3, <1>7, <1>8, <2>4, <3>1 DEF Sorted
    <3>4. QED BY <3>2, <3>3
  <2>5. CASE i > k
    <3>1. i - 1 \in 1..N /\ j - 1 \in 1..N /\ i - 1 < j - 1
      BY <1>1, <1>3, <1>7, <2>5
    <3>2. t[i] = timers[i - 1] /\ t[j] = timers[j - 1]
      BY <1>1, <1>3, <1>7, <2>5
    <3>3. QED BY <1>1, <3>1, <3>2 DEF Sorted
  <2>6. QED BY <1>1, <1>3, <2>1, <2>2, <2>3, <2>4, <2>5
<1>13. With(t, timers, k, new)
  BY <1>5, <1>7, <1>9, <1>10, <1>11, <1>12 DEF N, With
<1>14. QED BY <1>3, <1>13 DEF new, N, t

\* t has the timers but the one at k.
Without(t, s, k) ==
  /\ t \in Seq(Timer) /\ Len(t) = Len(s) - 1 /\ Sorted(t)
  /\ \A j \in DOMAIN t : \/ j < k /\ t[j] = s[j] /\ j \in DOMAIN s
                         \/ k <= j /\ t[j] = s[j + 1] /\ j + 1 \in DOMAIN s
  /\ \A i \in DOMAIN s \ {k} : \E j \in DOMAIN t : t[j] = s[i]

LEMMA Removed ==
  ASSUME timers \in Seq(Timer), Sorted(timers), NEW k \in DOMAIN timers
  PROVE  Without(RemoveAt(timers, k), timers, k)
<1> DEFINE t == RemoveAt(timers, k)
<1> DEFINE N == Len(timers)
<1>1. N \in Nat /\ DOMAIN timers = 1..N BY LenProperties
<1>2. t = SubSeq(timers, 1, k - 1) \o SubSeq(timers, k + 1, N)
  BY DEF RemoveAt
<1>3. /\ SubSeq(timers, 1, k - 1) \in Seq(Timer)
      /\ SubSeq(timers, k + 1, N) \in Seq(Timer)
      /\ Len(SubSeq(timers, 1, k - 1)) = k - 1
      /\ Len(SubSeq(timers, k + 1, N)) = N - k
      /\ \A j \in 1..k - 1 : SubSeq(timers, 1, k - 1)[j] = timers[j]
      /\ \A j \in 1..N - k : SubSeq(timers, k + 1, N)[j] = timers[k + j]
  <2> HIDE DEF t, N
  <2>1. k \in 1..N /\ Len(timers) = N BY <1>1 DEF N
  <2>2. k - 1 \in 0..N /\ k + 1 \in 1..N + 1 /\ N - (k + 1) + 1 = N - k
    BY <1>1, <2>1
  <2>3. \A i \in 1..N : timers[i] \in Timer BY <1>1, <2>1
  <2>4. /\ SubSeq(timers, 1, k - 1) \in Seq(Timer)
        /\ Len(SubSeq(timers, 1, k - 1)) = k - 1
    BY <1>1, <2>1, <2>2, <2>3
  <2>5. /\ SubSeq(timers, k + 1, N) \in Seq(Timer)
        /\ Len(SubSeq(timers, k + 1, N)) = N - k
    BY <1>1, <2>1, <2>2, <2>3
  <2>6. \A j \in 1..k - 1 : SubSeq(timers, 1, k - 1)[j] = timers[j]
    BY <1>1, <2>1, <2>2
  <2>7. ASSUME NEW j \in 1..N - k
        PROVE  SubSeq(timers, k + 1, N)[j] = timers[k + j]
    <3>1. SubSeq(timers, k + 1, N)[j] = timers[(k + 1) + j - 1]
      BY <1>1, <2>1, <2>2
    <3>2. (k + 1) + j - 1 = k + j BY <1>1, <2>1
    <3>3. QED BY <3>1, <3>2
  <2>8. QED BY <2>4, <2>5, <2>6, <2>7
<1> DEFINE a == SubSeq(timers, 1, k - 1)
           b == SubSeq(timers, k + 1, N)
<1> HIDE DEF a, b, N
<1>4. t \in Seq(Timer) /\ Len(t) = N - 1
  BY <1>1, <1>2, <1>3 DEF a, b
<1>5. DOMAIN t = 1..N - 1 BY <1>4, LenProperties
<1>6. ASSUME NEW j \in 1..N - 1
      PROVE  \/ j < k /\ t[j] = timers[j] /\ j \in 1..N
             \/ k <= j /\ t[j] = timers[j + 1] /\ j + 1 \in 1..N
  <2>1. t = a \o b /\ a \in Seq(Timer) /\ b \in Seq(Timer)
        /\ Len(a) = k - 1 /\ Len(b) = N - k
        /\ (\A i \in 1..k - 1 : a[i] = timers[i])
        /\ (\A i \in 1..N - k : b[i] = timers[k + i])
    BY <1>2, <1>3 DEF a, b
  <2>2. CASE j < k
    <3>1. t[j] = a[j] BY <1>1, <2>1, <2>2
    <3>2. QED BY <1>1, <2>1, <2>2, <3>1
  <2>3. CASE j >= k
    <3>1. t[j] = b[j - (k - 1)] /\ j - (k - 1) \in 1..N - k
      BY <1>1, <2>1, <2>3
    <3>2. b[j - (k - 1)] = timers[k + (j - (k - 1))] BY <2>1, <3>1
    <3>3. k + (j - (k - 1)) = j + 1 BY <1>1
    <3>4. QED BY <1>1, <2>3, <3>1, <3>2, <3>3
  <2>4. QED BY <1>1, <2>2, <2>3
<1>7. ASSUME NEW i \in 1..N, i # k PROVE \E j \in 1..N - 1 : t[j] = timers[i]
  <2>1. CASE i < k
    <3>1. i \in 1..N - 1 BY <1>1, <2>1
    <3>2. t[i] = timers[i] BY <1>1, <1>6, <2>1, <3>1
    <3>3. QED BY <3>1, <3>2
  <2>2. CASE i > k
    <3>1. i - 1 \in 1..N - 1 /\ i - 1 >= k /\ (i - 1) + 1 = i BY <1>1, <2>2
    <3>2. t[i - 1] = timers[(i - 1) + 1] BY <1>1, <1>6, <3>1
    <3>3. QED BY <3>1, <3>2
  <2>3. QED BY <1>1, <1>7, <2>1, <2>2
<1>8. Sorted(t)
  <2> SUFFICES ASSUME NEW i \in 1..N - 1, NEW j \in 1..N - 1, i < j
               PROVE  t[i].exp <= t[j].exp
    BY <1>5 DEF Sorted
  <2>1. PICK x \in 1..N : t[i] = timers[x]
                        /\ ((i < k /\ x = i) \/ (k <= i /\ x = i + 1))
    BY <1>6
  <2>2. PICK y \in 1..N : t[j] = timers[y]
                        /\ ((j < k /\ y = j) \/ (k <= j /\ y = j + 1))
    BY <1>6
  <2>3. x < y BY <1>1, <2>1, <2>2
  <2>4. QED BY <1>1, <2>1, <2>2, <2>3 DEF Sorted
<1> HIDE DEF t
<1>9. QED BY <1>1, <1>4, <1>5, <1>6, <1>7, <1>8 DEF N, Without, t

-----------------------------------------------------------------------------
(* The steps keep the invariant.                                           *)

LEMMA Facts ==
  ASSUME IInv
  PROVE  /\ plan.impl \in Impls /\ plan.events \in SUBSET Events
         /\ Asked(obj, at.next) /\ Rep(poller, obj, at.next)
         /\ Open = OpenIn(obj) /\ IsFiniteSet(Open)
         /\ now \in Nat /\ MaxTime \in Nat /\ now <= MaxTime
         /\ at \in Where /\ at.i \in Nat \ {0} /\ at.stage \in Events
         /\ at.timeout \in Nat /\ at.current \in Nat /\ at.next \in Nat
<1>1. plan.impl \in Impls /\ plan.events \in SUBSET Events
  BY Numbers DEF IInv, Values
<1>2. Asked(obj, at.next) /\ Rep(poller, obj, at.next)
  BY DEF IInv, Registrations
<1>3. Open = OpenIn(obj) BY DEF Open, OpenIn
<1>4. IsFiniteSet(Open)
  <2>1. Open \subseteq Regs BY DEF Open
  <2>2. QED BY <2>1, Numbers, FS_Subset
<1>5. now \in Nat /\ MaxTime \in Nat /\ now <= MaxTime
  BY Numbers DEF IInv, Values
<1>6. at \in Where BY DEF IInv, Place
<1>7. /\ at.i \in Nat \ {0} /\ at.stage \in Events /\ at.timeout \in Nat
      /\ at.current \in Nat /\ at.next \in Nat
  BY <1>6 DEF Where
<1>8. QED BY <1>1, <1>2, <1>3, <1>4, <1>5, <1>6, <1>7

\* A step that leaves the registrations as they are.
LEMMA RegistrationsKept ==
  ASSUME Registrations, UNCHANGED <<plan, poller, obj, load>>,
         at'.next = at.next, at'.stopping = at.stopping
  PROVE  Registrations'
BY DEF Registrations, Rep, Open

\* A step that leaves the timers as they are, within one callback or from one
\* place of the loop to another that has nothing to do with them.
LEMMA TimersKept ==
  ASSUME Timers, UNCHANGED <<timers, started>>, now \in Nat, now' \in Nat,
         now <= now', at \in Where,
         \/ /\ at'.pc = at.pc /\ at'.current = at.current /\ at'.i = at.i
            /\ at'.timeout = at.timeout /\ called' = called
         \/ ~TimerRuns /\ ~TimerRuns' /\ at'.pc \notin {"timer", "wait"}
  PROVE  Timers'
<1>1. at.current \in Nat BY DEF Where
<1>2. \A i \in DOMAIN timers : timers[i].exp \in Nat
  <2>1. \A i \in DOMAIN timers : timers[i] \in Timer BY DEF Timers
  <2>2. QED BY <2>1, Numbers DEF Timer
<1>3. /\ timers' = timers /\ timers \in Seq(Timer) /\ Sorted(timers)
      /\ \A s \in started' : \E i \in DOMAIN timers' :
           timers'[i].sink = s /\ ~timers'[i].running
  BY DEF Timers
<1>4. CASE /\ at'.pc = at.pc /\ at'.current = at.current /\ at'.i = at.i
           /\ at'.timeout = at.timeout /\ called' = called
  <2>1. TimerRuns' <=> TimerRuns BY <1>4 DEF TimerRuns
  <2>2. TimerRuns => timers # <<>> /\ timers[1].exp \in Nat
    BY <1>2, <1>3 DEF Timers
  <2>3. \A i \in DOMAIN timers : timers[i].running => i = 1 /\ TimerRuns'
    BY <2>1 DEF Timers
  <2>4. TimerRuns' => /\ timers # <<>> /\ timers[1].running
                      /\ timers[1].sink = called'.reactor
                      /\ timers[1].exp <= now'
    BY <1>4, <2>1, <2>2 DEF Timers
  <2>5. /\ at'.pc = "timer" \/ TimerRuns' => at'.current <= now'
        /\ at'.pc = "timer" => at'.i = 1
    BY <1>1, <1>4, <2>1 DEF Timers
  <2>6. NeverOversleeps' BY <1>3, <1>4 DEF Timers, NeverOversleeps
  <2>7. QED BY <1>3, <2>3, <2>4, <2>5, <2>6 DEF Timers
<1>5. CASE ~TimerRuns /\ ~TimerRuns' /\ at'.pc \notin {"timer", "wait"}
  <2>1. \A i \in DOMAIN timers : ~timers[i].running BY <1>5 DEF Timers
  <2>2. NeverOversleeps' BY <1>5 DEF NeverOversleeps
  <2>3. QED BY <1>3, <1>5, <2>1, <2>2 DEF Timers
<1>6. QED BY <1>4, <1>5

LEMMA InitIInv == Init => IInv
<1> SUFFICES ASSUME Init PROVE IInv OBVIOUS
<1>1. /\ plan \in Plans /\ obj = FirstObj /\ load = 1 /\ timers = <<>>
      /\ started = {} /\ now = 0 /\ ok = TRUE
      /\ at = [pc |-> "top", i |-> 1, stage |-> "err", timeout |-> 0,
               current |-> 0, stopping |-> FALSE, next |-> 2]
      /\ poller = SetPoll(plan.impl, AddFd(plan.impl, New(plan.impl), 1, 1),
                          1, 1, {"in"})
  BY DEF Init, FirstObj
<1>2. plan.impl \in Impls BY <1>1, Numbers
<1>3. /\ Asked(FirstObj, 2) /\ Rep(poller, FirstObj, 2) /\ OpenIn(FirstObj) = {1}
      /\ plan.impl = "devpoll" => poller.ev_buf = <<>>
  BY <1>1, <1>2, FirstRep
<1>4. Values BY <1>1, Numbers DEF Values
<1>5. Place BY <1>1, <1>3 DEF Place, Where, Events
<1>6. Registrations
  <2>1. Open = {1} BY <1>1, <1>3 DEF Open, OpenIn
  <2>2. load = Cardinality(Open) BY <1>1, <2>1, FS_Singleton
  <2>3. at.next = 2 /\ at.stopping = FALSE BY <1>1
  <2>4. QED BY <1>1, <1>3, <2>2, <2>3 DEF Registrations
<1>7. Timers
  <2>1. ~TimerRuns /\ at.pc = "top" BY <1>1 DEF TimerRuns
  <2>2. timers \in Seq(Timer) /\ DOMAIN timers = {} BY <1>1, EmptySeq
  <2>3. QED BY <1>1, <2>1, <2>2 DEF Timers, Sorted, NeverOversleeps
<1>8. QED BY <1>4, <1>5, <1>6, <1>7 DEF IInv

-----------------------------------------------------------------------------
(* The timers.                                                             *)

LEMMA AddTimerIInv ==
  ASSUME IInv, NEW s \in Sinks, NEW d \in Timeouts, add_timer(s, d)
  PROVE  IInv'
<1> DEFINE e == now + d
           N == Len(timers)
<1>1. /\ timers' = Insert(e, s) /\ started' = started \cup {s}
      /\ UNCHANGED <<plan, poller, obj, load, now, at, called, ok>>
      /\ at.pc = "handler" /\ e \in 0..MaxTime
  BY Facts, Numbers DEF add_timer, fdVars
<1>2. Values' BY <1>1 DEF IInv, Values
<1>3. Place' BY <1>1 DEF IInv, Place, InBatch
<1>4. Registrations' BY <1>1, RegistrationsKept DEF IInv
<1>5. Timers'
  <2>1. timers \in Seq(Timer) /\ Sorted(timers) /\ N \in Nat
        /\ DOMAIN timers = 1..N
    BY LenProperties DEF IInv, Timers
  <2> DEFINE x == [exp |-> e, sink |-> s, running |-> FALSE]
  <2>0. PICK k \in 1..N + 1 : With(timers', timers, k, x)
    <3> HIDE DEF e
    <3>1. QED BY <1>1, <2>1, Inserted, Zenon
  <2>2. /\ timers' \in Seq(Timer) /\ Len(timers') = N + 1 /\ Sorted(timers')
        /\ timers'[k] = [exp |-> e, sink |-> s, running |-> FALSE]
        /\ \A j \in 1..N : \/ j < k /\ timers'[j] = timers[j]
                              /\ timers[j].exp <= e
                           \/ k <= j /\ timers'[j + 1] = timers[j]
                              /\ timers[j].exp > e
        /\ \A j \in 1..N + 1 :
             j # k => \E i \in 1..N : timers'[j] = timers[i] /\ i <= j
                         /\ (j < k => i = j) /\ (k < j => i = j - 1)
    <3>1. x.exp = e OBVIOUS
    <3> HIDE DEF x
    <3>2. QED BY <2>0, <3>1 DEF With, x
  <2>3. DOMAIN timers' = 1..N + 1 BY <2>1, <2>2, LenProperties
  <2>4. TimerRuns' <=> TimerRuns BY <1>1 DEF TimerRuns
  <2>5. ASSUME TimerRuns PROVE 1 < k /\ 1 \in 1..N /\ timers'[1] = timers[1]
    <3>1. 1 \in 1..N /\ timers[1].exp <= now
      BY <2>1, <2>5 DEF IInv, Timers
    <3>2. timers[1] \in Timer /\ timers[1].exp \in Nat
      <4>1. timers[1] \in Timer BY <2>1, <3>1
      <4>2. QED BY <4>1, Numbers DEF Timer
    <3>3. timers[1].exp <= e BY <3>1, <3>2, Facts, Numbers
    <3>4. ~(k <= 1) BY <1>1, <2>2, <3>1, <3>2, <3>3, Numbers
    <3>5. QED BY <2>1, <2>2, <3>1, <3>4
  <2>6. ASSUME NEW j \in DOMAIN timers', timers'[j].running
        PROVE  j = 1 /\ TimerRuns'
    <3>1. j # k BY <2>2, <2>6
    <3>2. PICK i \in 1..N : timers'[j] = timers[i] /\ (j < k => i = j)
                            /\ (k < j => i = j - 1)
      BY <2>2, <2>3, <3>1
    <3>3. i = 1 /\ TimerRuns BY <2>1, <2>6, <3>2 DEF IInv, Timers
    <3>4. j < k
      <4>1. CASE k < j
        <5>1. timers'[k].running = FALSE BY <2>2
        <5>2. j = 2 /\ k = 1 BY <2>1, <2>2, <2>3, <3>2, <3>3, <4>1
        <5>3. QED BY <2>5, <3>3, <5>2
      <4>2. QED BY <2>1, <2>3, <3>1, <4>1
    <3>5. QED BY <2>4, <3>2, <3>3, <3>4
  <2>7. TimerRuns' => /\ timers' # <<>> /\ timers'[1].running
                      /\ timers'[1].sink = called'.reactor
                      /\ timers'[1].exp <= now'
    BY <1>1, <2>1, <2>3, <2>4, <2>5 DEF IInv, Timers
  <2>8. ASSUME NEW z \in started'
        PROVE  \E i \in DOMAIN timers' : timers'[i].sink = z /\ ~timers'[i].running
    <3>1. CASE z = s BY <2>2, <2>3, <3>1
    <3>2. CASE z # s
      <4>1. PICK i \in 1..N : timers[i].sink = z /\ ~timers[i].running
        BY <1>1, <2>1, <3>2 DEF IInv, Timers
      <4>2. \E j \in 1..N + 1 : timers'[j] = timers[i]
        <5>1. CASE i < k BY <2>1, <2>2, <5>1
        <5>2. CASE k <= i
          <6>1. timers'[i + 1] = timers[i] BY <2>1, <2>2, <5>2
          <6>2. i + 1 \in 1..N + 1 BY <2>1
          <6>3. QED BY <6>1, <6>2
        <5>3. QED BY <2>1, <2>2, <5>1, <5>2
      <4>3. QED BY <2>3, <4>1, <4>2
    <3>3. QED BY <3>1, <3>2
  <2>9. /\ at'.pc = "timer" \/ TimerRuns' => at'.current <= now'
        /\ at'.pc = "timer" => at'.i = 1
    BY <1>1, <2>4 DEF IInv, Timers
  <2>10. NeverOversleeps' BY <1>1 DEF NeverOversleeps
  <2>11. QED BY <2>2, <2>6, <2>7, <2>8, <2>9, <2>10 DEF Timers
<1>6. QED BY <1>2, <1>3, <1>4, <1>5 DEF IInv

LEMMA CancelTimerIInv ==
  ASSUME IInv, NEW s \in Sinks, cancel_timer(s)
  PROVE  IInv'
<1> DEFINE found == {i \in DOMAIN timers : timers[i].sink = s}
           k == CHOOSE i \in found : \A j \in found : i <= j
<1>1. /\ at.pc = "handler" /\ s \in started
      /\ called.what = "timer" => called.reactor # s
      /\ started' = started \ {s}
      /\ UNCHANGED <<plan, poller, obj, load, now, at, called>>
  BY DEF cancel_timer, fdVars
<1>2. timers \in Seq(Timer) /\ Sorted(timers) /\ Len(timers) \in Nat
      /\ DOMAIN timers = 1..Len(timers)
  BY LenProperties DEF IInv, Timers
<1>3. found # {} /\ found \subseteq Nat BY <1>1, <1>2 DEF IInv, Timers
<1>4. k \in found BY <1>3, Least
<1>5. ok' = ok /\ timers' = RemoveAt(timers, k)
  BY <1>3 DEF cancel_timer
<1> HIDE DEF k
<1>6. k \in DOMAIN timers /\ timers[k].sink = s BY <1>4
<1> HIDE DEF found
<1>7. Values' BY <1>1, <1>5 DEF IInv, Values
<1>8. Place' BY <1>1 DEF IInv, Place, InBatch
<1>9. Registrations' BY <1>1, RegistrationsKept DEF IInv
<1>10. Timers'
  <2>1. /\ timers' \in Seq(Timer) /\ Len(timers') = Len(timers) - 1
        /\ Sorted(timers')
        /\ \A j \in DOMAIN timers' :
              \/ j < k /\ timers'[j] = timers[j] /\ j \in DOMAIN timers
              \/ k <= j /\ timers'[j] = timers[j + 1] /\ j + 1 \in DOMAIN timers
        /\ \A i \in DOMAIN timers \ {k} :
              \E j \in DOMAIN timers' : timers'[j] = timers[i]
    <3>1. Without(timers', timers, k) BY <1>2, <1>6, <1>5, Removed, Zenon
    <3>2. QED BY <3>1, Zenon DEF Without
  <2>2. DOMAIN timers' = 1..Len(timers) - 1 BY <1>2, <2>1, LenProperties
  <2>3. TimerRuns' <=> TimerRuns BY <1>1 DEF TimerRuns
  <2>4. ASSUME TimerRuns
        PROVE  k # 1 /\ 1 \in DOMAIN timers' /\ timers'[1] = timers[1]
    <3>1. timers[1].sink # s BY <1>1, <2>4 DEF IInv, Timers, TimerRuns
    <3>2. k # 1 BY <1>6, <3>1
    <3>3. 1 \in DOMAIN timers' BY <1>2, <1>6, <2>2, <3>2
    <3>4. ~(k <= 1) BY <1>2, <1>6, <3>2
    <3>5. QED BY <2>1, <3>2, <3>3, <3>4
  <2>5. ASSUME NEW j \in DOMAIN timers', timers'[j].running
        PROVE  j = 1 /\ TimerRuns'
    <3>1. CASE j < k /\ timers'[j] = timers[j] /\ j \in DOMAIN timers
      BY <2>3, <2>5, <3>1 DEF IInv, Timers
    <3>2. CASE k <= j /\ timers'[j] = timers[j + 1] /\ j + 1 \in DOMAIN timers
      <4>1. j + 1 = 1 BY <2>5, <3>2 DEF IInv, Timers
      <4>2. QED BY <1>2, <2>2, <4>1
    <3>3. QED BY <2>1, <3>1, <3>2
  <2>6. TimerRuns' => /\ timers' # <<>> /\ timers'[1].running
                      /\ timers'[1].sink = called'.reactor
                      /\ timers'[1].exp <= now'
    BY <1>1, <2>3, <2>4 DEF IInv, Timers
  <2>7. ASSUME NEW x \in started'
        PROVE  \E i \in DOMAIN timers' : timers'[i].sink = x /\ ~timers'[i].running
    <3>1. PICK i \in DOMAIN timers : timers[i].sink = x /\ ~timers[i].running
      BY <1>1 DEF IInv, Timers
    <3>2. i # k BY <1>1, <1>6, <3>1
    <3>3. QED BY <2>1, <3>1, <3>2
  <2>8. /\ at'.pc = "timer" \/ TimerRuns' => at'.current <= now'
        /\ at'.pc = "timer" => at'.i = 1
    BY <1>1, <2>3 DEF IInv, Timers
  <2>9. NeverOversleeps' BY <1>1 DEF NeverOversleeps
  <2>10. QED BY <2>1, <2>5, <2>6, <2>7, <2>8, <2>9 DEF Timers
<1>11. QED BY <1>7, <1>8, <1>9, <1>10 DEF IInv

LEMMA ExecuteTimersIInv == ASSUME IInv, execute_timers PROVE IInv'
<1>1. /\ at.pc = "top" /\ poller' = BeginPass(poller)
      /\ at' = IF timers = <<>> THEN [at EXCEPT !.pc = "wait", !.timeout = 0]
               ELSE [at EXCEPT !.pc = "timer", !.i = 1, !.current = now]
      /\ UNCHANGED <<plan, obj, load, timers, started, now, called, ok>>
  BY DEF execute_timers, timerVars
<1>2. /\ at' \in Where /\ at'.next = at.next /\ at'.stopping = at.stopping
      /\ \/ timers = <<>> /\ at'.pc = "wait" /\ at'.timeout = 0
         \/ timers # <<>> /\ at'.pc = "timer" /\ at'.i = 1 /\ at'.current = now
  <2>1. at \in Where /\ now \in Nat BY Facts
  <2>2. CASE timers = <<>> BY <1>1, <2>1, <2>2 DEF Where
  <2>3. CASE timers # <<>>
    <3>1. at' = [at EXCEPT !.pc = "timer", !.i = 1, !.current = now]
          /\ 1 \in Nat \ {0}
      BY <1>1, <2>3
    <3>2. at' \in Where BY <2>1, <3>1 DEF Where
    <3>3. QED BY <2>1, <2>3, <3>1, <3>2 DEF Where
  <2>4. QED BY <2>2, <2>3
<1>3. /\ Rep(poller', obj, at.next)
      /\ plan.impl = "devpoll" => poller'.ev_buf = <<>>
  <2>1. plan.impl = "devpoll" => poller.ev_buf = <<>>
    BY <1>1 DEF IInv, Place, InBatch
  <2>2. QED BY <1>1, <2>1, Facts, BeginRep
<1>4. Values' BY <1>1 DEF IInv, Values
<1>5. Place' BY <1>1, <1>2, <1>3 DEF Place, InBatch
<1>6. Registrations'
  BY <1>1, <1>2, <1>3 DEF IInv, Registrations, Rep, Open
<1>7. Timers'
  <2>1. ~TimerRuns /\ ~TimerRuns' BY <1>1, <1>2 DEF TimerRuns
  <2>2. NeverOversleeps' BY <1>1, <1>2 DEF NeverOversleeps
  <2>3. at'.pc = "timer" => at'.current <= now' /\ at'.i = 1
    BY <1>1, <1>2, Facts
  <2>4. QED BY <1>1, <2>1, <2>2, <2>3 DEF IInv, Timers
<1>8. QED BY <1>4, <1>5, <1>6, <1>7 DEF IInv

LEMMA NextTimerIInv == ASSUME IInv, NextTimer PROVE IInv'
<1>1. at.pc = "timer" /\ at.i = 1 /\ at.current <= now /\ ~TimerRuns
      /\ UNCHANGED <<plan, poller, obj, load, now, ok>>
  BY DEF NextTimer, fdVars, IInv, Timers, TimerRuns
<1>2. timers \in Seq(Timer) /\ Sorted(timers) /\ Len(timers) \in Nat
      /\ DOMAIN timers = 1..Len(timers)
  BY LenProperties DEF IInv, Timers
<1>3. \A i \in DOMAIN timers : timers[i] \in Timer /\ timers[i].exp \in Nat
                               /\ timers[i].sink \in Sinks
  <2>1. \A i \in DOMAIN timers : timers[i] \in Timer BY <1>2
  <2>2. QED BY <2>1, Numbers DEF Timer
<1>4. \A i \in DOMAIN timers : ~timers[i].running
  BY <1>1 DEF IInv, Timers
<1>5. UNCHANGED started => Values' BY <1>1 DEF IInv, Values
<1>6. CASE timers = <<>> \/ (timers # <<>> /\ timers[1].exp > at.current)
  <2>1. /\ UNCHANGED <<timers, started, called>> /\ at' \in Where
        /\ at'.next = at.next /\ at'.stopping = at.stopping /\ at'.pc = "wait"
        /\ at'.current = at.current
        /\ \/ timers = <<>> /\ at'.timeout = 0
           \/ timers # <<>> /\ at'.timeout = timers[1].exp - at.current
              /\ at'.timeout > 0
    <3>1. CASE timers = <<>>
      <4>1. at.i > Len(timers) BY <1>1, <3>1
      <4>2. at' = [at EXCEPT !.pc = "wait", !.timeout = 0]
            /\ UNCHANGED <<timers, started, called>>
        BY <4>1 DEF NextTimer, timerVars
      <4>3. at \in Where BY Facts
      <4>4. QED BY <3>1, <4>2, <4>3 DEF Where
    <3>2. CASE timers # <<>>
      <4>1. ~(at.i > Len(timers)) /\ timers[1].exp > at.current /\ 1 \in DOMAIN timers
        BY <1>1, <1>2, <1>6, <3>2
      <4>2. /\ UNCHANGED <<timers, started, called>>
            /\ at' = [at EXCEPT !.pc = "wait",
                                !.timeout = timers[1].exp - at.current]
        BY <1>1, <4>1 DEF NextTimer, timerVars
      <4>3. timers[1].exp - at.current \in Nat /\ timers[1].exp - at.current > 0
        BY <1>3, <4>1, Facts
      <4>4. QED BY <3>2, <4>2, <4>3, Facts DEF Where
    <3>3. QED BY <3>1, <3>2
  <2>2. Place' BY <1>1, <2>1 DEF IInv, Place, InBatch
  <2>3. Registrations' BY <1>1, <2>1, RegistrationsKept DEF IInv
  <2>4. Timers'
    <3>1. ~TimerRuns' BY <2>1 DEF TimerRuns
    <3>2. NeverOversleeps'
      <4>1. CASE timers = <<>> BY <2>1, <4>1 DEF NeverOversleeps
      <4>2. CASE timers # <<>>
        <5>1. 1 \in DOMAIN timers BY <1>2, <4>2
        <5>2. \A i \in DOMAIN timers : timers[1].exp <= timers[i].exp
          BY <1>2, <1>3, <5>1 DEF Sorted
        <5>3. at'.current + at'.timeout = timers[1].exp
          BY <1>3, <2>1, <4>2, <5>1, Facts
        <5>4. at'.timeout # 0 BY <2>1, <4>2
        <5>5. QED BY <1>3, <2>1, <5>1, <5>2, <5>3, <5>4 DEF NeverOversleeps
      <4>3. QED BY <4>1, <4>2
    <3>3. QED BY <1>2, <1>4, <2>1, <3>1, <3>2 DEF IInv, Timers
  <2>5. QED BY <1>5, <2>1, <2>2, <2>3, <2>4 DEF IInv
<1>7. CASE timers # <<>> /\ ~(timers[1].exp > at.current)
  <2> DEFINE x == timers[1]
             y == [x EXCEPT !.running = TRUE]
  <2>1. 1 \in DOMAIN timers /\ ~(at.i > Len(timers)) /\ x \in Timer
    BY <1>1, <1>2, <1>3, <1>7
  <2>2. /\ at' = [at EXCEPT !.pc = "handler"]
        /\ called' = [what |-> "timer", reactor |-> x.sink, of |-> x.sink]
        /\ timers' = [timers EXCEPT ![1].running = TRUE]
        /\ started' = started \ {x.sink}
    BY <1>1, <1>7, <2>1 DEF NextTimer
  <2>3. /\ at' \in Where /\ at'.next = at.next /\ at'.stopping = at.stopping
        /\ at'.pc = "handler" /\ at'.current = at.current
        /\ called'.what = "timer" /\ called'.reactor = x.sink
    BY <2>2, Facts DEF Where
  <2>4. /\ y \in Timer /\ y.running = TRUE /\ y.sink = x.sink /\ y.exp = x.exp
    BY <2>1 DEF Timer
  <2>5. timers' = [timers EXCEPT ![1] = y] BY <2>2
  <2> HIDE DEF x, y
  <2>6. /\ timers' \in Seq(Timer) /\ DOMAIN timers' = DOMAIN timers
        /\ timers'[1] = y /\ \A i \in DOMAIN timers \ {1} : timers'[i] = timers[i]
    BY <1>2, <2>1, <2>4, <2>5
  <2>7. Place' BY <1>1, <2>3 DEF IInv, Place, InBatch, Events
  <2>8. Registrations' BY <1>1, <2>3, RegistrationsKept DEF IInv
  <2>9. Timers'
    <3>1. TimerRuns' /\ ~(at'.pc \in {"timer", "wait"}) BY <2>3 DEF TimerRuns
    <3>2. Sorted(timers')
      <4>1. \A i \in DOMAIN timers : timers'[i].exp = timers[i].exp
        BY <2>1, <2>4, <2>6 DEF x
      <4>2. QED BY <1>2, <2>6, <4>1 DEF Sorted
    <3>3. \A i \in DOMAIN timers' : timers'[i].running => i = 1
      BY <1>4, <2>6
    <3>4. timers'[1].running /\ timers'[1].sink = called'.reactor
          /\ timers' # <<>>
      BY <2>1, <2>3, <2>4, <2>6
    <3>5. timers'[1].exp <= now'
      BY <1>1, <1>3, <1>7, <2>1, <2>4, <2>6, Facts DEF x
    <3>6. ASSUME NEW z \in started'
          PROVE  \E i \in DOMAIN timers' :
                   timers'[i].sink = z /\ ~timers'[i].running
      <4>1. PICK i \in DOMAIN timers : timers[i].sink = z /\ ~timers[i].running
        BY <2>2 DEF IInv, Timers, x
      <4>2. i # 1 BY <2>2, <4>1 DEF x
      <4>3. QED BY <2>6, <4>1, <4>2
    <3>7. NeverOversleeps' BY <3>1 DEF NeverOversleeps
    <3>8. at'.current <= now' BY <1>1, <2>3
    <3>9. QED BY <2>6, <3>1, <3>2, <3>3, <3>4, <3>5, <3>6, <3>7, <3>8 DEF Timers
  <2>10. Values' BY <1>1, <2>2 DEF IInv, Values
  <2>11. QED BY <2>7, <2>8, <2>9, <2>10 DEF IInv
<1>8. QED BY <1>6, <1>7

LEMMA TimerReturnsIInv == ASSUME IInv, TimerReturns PROVE IInv'
<1> DEFINE running == {i \in DOMAIN timers : timers[i].running}
<1>1. /\ TimerRuns /\ at.pc = "handler" /\ called' = NoCall
      /\ UNCHANGED <<plan, poller, obj, load, started, now>>
  BY DEF TimerReturns, fdVars, TimerRuns
<1>2. timers \in Seq(Timer) /\ Sorted(timers) /\ Len(timers) \in Nat
      /\ DOMAIN timers = 1..Len(timers)
  BY LenProperties DEF IInv, Timers
<1>3. 1 \in DOMAIN timers /\ timers[1].running BY <1>1, <1>2 DEF IInv, Timers
<1>4. running = {1} BY <1>3 DEF IInv, Timers
<1>5. /\ timers' = RemoveAt(timers, 1) /\ ok' = ok
      /\ at' = [at EXCEPT !.pc = "timer", !.i = 1]
  <2>1. running # {} /\ (CHOOSE i \in running : TRUE) = 1 BY <1>4
  <2>2. QED BY <2>1, Zenon DEF TimerReturns
<1>6. /\ at' \in Where /\ at'.next = at.next /\ at'.stopping = at.stopping
      /\ at'.pc = "timer" /\ at'.i = 1 /\ at'.current = at.current
  <2>1. at \in Where /\ 1 \in Nat \ {0} BY Facts
  <2>2. at' \in Where BY <1>5, <2>1 DEF Where
  <2>3. QED BY <1>5, <2>1 DEF Where
<1>7. Values' BY <1>1, <1>5 DEF IInv, Values
<1>8. Place'
  <2>1. ~InBatch BY <1>1 DEF InBatch, TimerRuns, Events
  <2>2. QED BY <1>1, <1>6, <2>1 DEF IInv, Place
<1>9. Registrations' BY <1>1, <1>6, RegistrationsKept DEF IInv
<1>10. Timers'
  <2>1. /\ timers' \in Seq(Timer) /\ Sorted(timers')
        /\ \A j \in DOMAIN timers' :
              \/ j < 1 /\ timers'[j] = timers[j] /\ j \in DOMAIN timers
              \/ 1 <= j /\ timers'[j] = timers[j + 1] /\ j + 1 \in DOMAIN timers
        /\ \A i \in DOMAIN timers \ {1} :
              \E j \in DOMAIN timers' : timers'[j] = timers[i]
    <3>1. Without(timers', timers, 1) BY <1>2, <1>3, <1>5, Removed, Zenon
    <3>2. QED BY <3>1, Zenon DEF Without
  <2>2. DOMAIN timers' = 1..Len(timers') /\ Len(timers') \in Nat
    BY <2>1, LenProperties
  <2>3. ~TimerRuns' BY <1>6 DEF TimerRuns
  <2>4. \A j \in DOMAIN timers' : ~timers'[j].running
    <3> SUFFICES ASSUME NEW j \in DOMAIN timers', timers'[j].running PROVE FALSE
      OBVIOUS
    <3>1. timers'[j] = timers[j + 1] /\ j + 1 \in DOMAIN timers
      BY <2>1, <2>2
    <3>2. j + 1 = 1 BY <3>1 DEF IInv, Timers
    <3>3. QED BY <2>2, <3>2
  <2>5. ASSUME NEW x \in started'
        PROVE  \E i \in DOMAIN timers' : timers'[i].sink = x /\ ~timers'[i].running
    <3>1. PICK i \in DOMAIN timers : timers[i].sink = x /\ ~timers[i].running
      BY <1>1 DEF IInv, Timers
    <3>2. i # 1 BY <1>3, <3>1
    <3>3. QED BY <2>1, <3>1, <3>2
  <2>6. at'.current <= now' BY <1>1, <1>6 DEF IInv, Timers
  <2>7. NeverOversleeps' BY <1>6 DEF NeverOversleeps
  <2>8. QED BY <1>6, <2>1, <2>3, <2>4, <2>5, <2>6, <2>7 DEF Timers
<1>11. QED BY <1>7, <1>8, <1>9, <1>10 DEF IInv

-----------------------------------------------------------------------------
(* The descriptors.                                                        *)

LEMMA AddFdIInv == ASSUME IInv, NEW f \in Fds, add_fd(f) PROVE IInv'
<1> DEFINE r  == at.next
           o2 == [obj EXCEPT ![r] = [fd |-> f, events |-> {}]]
<1>1. /\ at.pc = "handler" /\ ~at.stopping /\ r \in Regs
      /\ \A x \in OpenIn(obj) : obj[x].fd # f
      /\ poller' = AddFd(plan.impl, poller, f, r) /\ obj' = o2
      /\ load' = load + 1 /\ at' = [at EXCEPT !.next = r + 1]
      /\ UNCHANGED <<plan, timers, started, now, called, ok>>
  BY Facts DEF add_fd, timerVars
<1>2. Asked(o2, r + 1) /\ Made(obj, o2, r, f)
  BY <1>1, Facts, AskedAdd
<1> HIDE DEF o2
<1>3. Rep(poller', o2, r + 1)
  BY <1>1, <1>2, Facts, AddRep
<1>4. /\ at' \in Where /\ at'.pc = at.pc /\ at'.next = r + 1 /\ at'.i = at.i
      /\ at'.current = at.current /\ at'.timeout = at.timeout
      /\ at'.stopping = at.stopping
  BY <1>1, Facts DEF Where
<1>5. Values' BY <1>1 DEF IInv, Values
<1>6. Place'
  <2>1. plan.impl = "devpoll" => poller'.ev_buf = poller.ev_buf
    BY <1>1, Facts, BatchKept
  <2>2. InBatch' <=> InBatch BY <1>1, <1>4 DEF InBatch
  <2>3. QED BY <1>1, <1>4, <2>1, <2>2 DEF IInv, Place
<1>7. Registrations'
  <2>1. Open' = Open \cup {r} /\ r \notin Open
    BY <1>1, <1>2, Facts DEF Made, Open, OpenIn
  <2>2. Cardinality(Open') = Cardinality(Open) + 1
    BY <2>1, Facts, FS_AddElement
  <2>3. load' = Cardinality(Open') BY <1>1, <2>2 DEF IInv, Registrations
  <2>4. QED BY <1>1, <1>2, <1>3, <1>4, <2>3 DEF Registrations, Rep
<1>8. Timers' BY <1>1, <1>4, Facts, TimersKept DEF IInv
<1>9. QED BY <1>5, <1>6, <1>7, <1>8 DEF IInv

\* What rm_fd and stop have in common.
LEMMA Removal ==
  ASSUME IInv, NEW r \in Open,
         obj' = [obj EXCEPT ![r] = [fd |-> 0, events |-> {}]],
         poller' = RmFd(poller, r, obj[r].fd), load' = load - 1, plan' = plan,
         at'.next = at.next, at'.stopping => Open = {r} \/ at.stopping
  PROVE  /\ Registrations'
         /\ plan.impl = "devpoll" => poller'.ev_buf = poller.ev_buf
<1> DEFINE o2 == [obj EXCEPT ![r] = [fd |-> 0, events |-> {}]]
<1>1. Asked(o2, at.next) /\ Gone(obj, o2, r) /\ obj' = o2
  BY Facts, AskedRm
<1> HIDE DEF o2
<1>2. Rep(poller', o2, at.next) BY <1>1, Facts, RmRep
<1>3. Open' = Open \ {r} BY <1>1, Facts DEF Gone, Open, OpenIn
<1>4. Cardinality(Open') = Cardinality(Open) - 1
  BY <1>3, Facts, FS_RemoveElement
<1>5. load' = Cardinality(Open') BY <1>4 DEF IInv, Registrations
<1>6. at'.stopping => Open' = {} BY <1>3 DEF IInv, Registrations
<1>7. Registrations' BY <1>1, <1>2, <1>5, <1>6 DEF Registrations, Rep
<1>8. plan.impl = "devpoll" => poller'.ev_buf = poller.ev_buf
  BY Facts, BatchKept
<1>9. QED BY <1>7, <1>8

LEMMA RmFdIInv == ASSUME IInv, NEW r \in Regs, rm_fd(r) PROVE IInv'
<1>1. /\ at.pc = "handler" /\ r \in Open
      /\ obj' = [obj EXCEPT ![r] = [fd |-> 0, events |-> {}]]
      /\ poller' = RmFd(poller, r, obj[r].fd) /\ load' = load - 1
      /\ UNCHANGED <<plan, timers, started, now, at, called, ok>>
  BY DEF rm_fd, timerVars
<1>2. Registrations' /\ (plan.impl = "devpoll" => poller'.ev_buf = poller.ev_buf)
  BY <1>1, Removal
<1>3. Values' BY <1>1 DEF IInv, Values
<1>4. Place' BY <1>1, <1>2 DEF IInv, Place, InBatch
<1>5. Timers' BY <1>1, Facts, TimersKept DEF IInv
<1>6. QED BY <1>2, <1>3, <1>4, <1>5 DEF IInv

LEMMA StopIInv == ASSUME IInv, stop PROVE IInv'
<1>1. /\ at.pc = "handler" /\ Open = {1} /\ 1 \in Open
      /\ obj' = [obj EXCEPT ![1] = [fd |-> 0, events |-> {}]]
      /\ poller' = RmFd(poller, 1, obj[1].fd) /\ load' = load - 1
      /\ at' = [at EXCEPT !.stopping = TRUE]
      /\ UNCHANGED <<plan, timers, started, now, called, ok>>
  BY DEF stop, timerVars
<1>2. /\ at' \in Where /\ at'.pc = at.pc /\ at'.next = at.next /\ at'.i = at.i
      /\ at'.current = at.current /\ at'.timeout = at.timeout
  BY <1>1, Facts DEF Where
<1>3. Registrations' /\ (plan.impl = "devpoll" => poller'.ev_buf = poller.ev_buf)
  BY <1>1, <1>2, Removal
<1>4. Values' BY <1>1 DEF IInv, Values
<1>5. Place' BY <1>1, <1>2, <1>3 DEF IInv, Place, InBatch
<1>6. Timers' BY <1>1, <1>2, Facts, TimersKept DEF IInv
<1>7. QED BY <1>3, <1>4, <1>5, <1>6 DEF IInv

LEMMA SetPollIInv ==
  ASSUME IInv, NEW r \in Regs, NEW ev \in SUBSET {"in", "out"}, set_poll(r, ev)
  PROVE  IInv'
<1> DEFINE o2   == [obj EXCEPT ![r].events = ev]
           old  == obj[r].events
           diff == (ev \ old) \cup (old \ ev)
<1>1. /\ at.pc = "handler" /\ r \in Open /\ Cardinality(diff) = 1
      /\ poller' = SetPoll(plan.impl, poller, r, obj[r].fd, ev) /\ obj' = o2
      /\ UNCHANGED <<plan, load, timers, started, now, at, called, ok>>
  BY DEF set_poll, timerVars
<1>2. ev \in SUBSET Dirs /\ old \in SUBSET Dirs
  BY <1>1, Facts, OpenHasFile DEF Dirs
<1>3. Asked(o2, at.next) /\ Polled(obj, o2, r, ev)
  BY <1>1, <1>2, Facts, AskedSet
<1>4. OneStep(old, ev)
  <2>1. IsFiniteSet(Dirs)
    <3>1. Dirs = {"in"} \cup {"out"} BY DEF Dirs
    <3>2. QED BY <3>1, FS_Singleton, FS_Union
  <2>2. diff \in SUBSET Dirs BY <1>2
  <2> HIDE DEF diff
  <2>3. IsFiniteSet(diff) BY <2>1, <2>2, FS_Subset
  <2>4. PICK e : diff = {e} BY <1>1, <2>3, FS_Singleton
  <2>5. e \in Dirs BY <2>2, <2>4
  <2>6. (ev \ old) \cup (old \ ev) = {e} BY <2>4 DEF diff
  <2> HIDE DEF old
  <2>7. CASE e \in old
    <3>1. ev = old \ {e} BY <2>6, <2>7
    <3>2. QED BY <2>5, <2>7, <3>1 DEF OneStep
  <2>8. CASE e \notin old
    <3>1. ev = old \cup {e} BY <2>6, <2>8
    <3>2. QED BY <2>5, <2>8, <3>1 DEF OneStep
  <2>9. QED BY <2>7, <2>8
<1> HIDE DEF o2
<1>5. Rep(poller', o2, at.next)
  BY <1>1, <1>3, <1>4, Facts, SetRep
<1>6. Values' BY <1>1 DEF IInv, Values
<1>7. Place'
  <2>1. plan.impl = "devpoll" => poller'.ev_buf = poller.ev_buf
    BY <1>1, Facts, BatchKept
  <2>2. QED BY <1>1, <2>1 DEF IInv, Place, InBatch
<1>8. Registrations'
  <2>1. Open' = Open BY <1>1, <1>3, Facts DEF Polled, Open, OpenIn
  <2>2. QED BY <1>1, <1>3, <1>5, <2>1 DEF IInv, Registrations, Rep
<1>9. Timers' BY <1>1, Facts, TimersKept DEF IInv
<1>10. QED BY <1>6, <1>7, <1>8, <1>9 DEF IInv

-----------------------------------------------------------------------------
(* The wait and the dispatch.                                              *)

LEMMA FileOfOwners ==
  ASSUME NEW n, Asked(obj, n)
  PROVE  Owners(FileOf, obj)
<1>1. ASSUME NEW f \in Fds
      PROVE  FileOf[f] \in Regs \cup {0}
             /\ \A r \in Regs : obj[r].fd = f => FileOf[f] = r
  <2>1. CASE \E r \in Open : obj[r].fd = f
    <3>1. FileOf[f] = CHOOSE r \in Open : obj[r].fd = f BY <2>1 DEF FileOf
    <3>2. FileOf[f] \in Open /\ obj[FileOf[f]].fd = f BY <2>1, <3>1
    <3>3. \A r \in Regs : obj[r].fd = f => r \in OpenIn(obj)
      BY OpenHasFile DEF OpenIn
    <3>4. Open = OpenIn(obj) BY DEF Open, OpenIn
    <3>5. QED BY <3>2, <3>3, <3>4 DEF Asked, Open
  <2>2. CASE ~ \E r \in Open : obj[r].fd = f
    <3>1. FileOf[f] = 0 BY <2>2 DEF FileOf
    <3>2. \A r \in Regs : obj[r].fd # f BY <2>2, OpenHasFile DEF Open
    <3>3. QED BY <3>1, <3>2
  <2>3. QED BY <2>1, <2>2
<1>2. FileOf = [f \in Fds |-> FileOf[f]] BY DEF FileOf
<1>3. QED BY <1>1, <1>2 DEF Owners

LEMMA WakeIInv == ASSUME IInv, Wake PROVE IInv'
<1>1. PICK ready \in [Fds -> SUBSET plan.events] :
        poller' \in Waited(poller, ready, FileOf)
  BY DEF Wake
<1>2. /\ at.pc = "wait"
      /\ at' = [at EXCEPT !.pc = "dispatch", !.i = 1, !.stage = "err"]
      /\ UNCHANGED <<plan, obj, load, timers, started, now, called, ok>>
  BY DEF Wake, timerVars
<1>3. /\ at' \in Where /\ at'.next = at.next /\ at'.stopping = at.stopping
      /\ at'.pc = "dispatch"
  <2>1. at \in Where /\ 1 \in Nat \ {0} /\ "err" \in Events
    BY Facts DEF Events
  <2>2. at' \in Where BY <1>2, <2>1 DEF Where
  <2>3. QED BY <1>2, <2>1, <2>2 DEF Where
<1>4. Rep(poller', obj, at.next)
  <2>1. ready \in Ready BY Facts DEF Ready
  <2>2. Owners(FileOf, obj) BY Facts, FileOfOwners
  <2>3. QED BY <1>1, <2>1, <2>2, Facts, WaitRep
<1>5. Values' BY <1>2 DEF IInv, Values
<1>6. Place' BY <1>3 DEF Place, InBatch
<1>7. Registrations' BY <1>2, <1>3, <1>4 DEF IInv, Registrations, Rep, Open
<1>8. Timers'
  <2>1. ~TimerRuns /\ ~TimerRuns' BY <1>2, <1>3 DEF TimerRuns
  <2>2. QED BY <1>2, <1>3, <2>1, Facts, TimersKept DEF IInv
<1>9. QED BY <1>5, <1>6, <1>7, <1>8 DEF IInv

\* A step to the top of the loop; the batch is gone, or there was none.
LEMMA ToTheTop ==
  ASSUME IInv, at.pc \in {"wait", "dispatch"},
         poller' = Cleanup(poller) \/ (at.pc = "wait" /\ poller' = poller),
         at' \in Where, at'.pc = "top", at'.next = at.next,
         at'.stopping = at.stopping,
         UNCHANGED <<plan, obj, load, timers, started, now, called, ok>>
  PROVE  IInv'
<1>1. ~TimerRuns /\ ~TimerRuns' /\ ~InBatch' BY DEF TimerRuns, InBatch
<1>2. /\ Rep(poller', obj, at.next)
      /\ plan.impl = "devpoll" => poller'.ev_buf = <<>>
  <2>1. CASE poller' = Cleanup(poller) BY <2>1, Facts, CleanupRep
  <2>2. CASE at.pc = "wait" /\ poller' = poller
    BY <2>2, Facts DEF IInv, Place, InBatch
  <2>3. QED BY <2>1, <2>2
<1>3. Values' BY DEF IInv, Values
<1>4. Place' BY <1>2 DEF Place
<1>5. Registrations' BY <1>2 DEF IInv, Registrations, Rep, Open
<1>6. Timers' BY <1>1, Facts, TimersKept DEF IInv
<1>7. QED BY <1>3, <1>4, <1>5, <1>6 DEF IInv

LEMMA TimedOutIInv == ASSUME IInv, TimedOut PROVE IInv'
<1>1. /\ at.pc = "wait" /\ (poller' = Cleanup(poller) \/ poller' = poller)
      /\ at' = [at EXCEPT !.pc = "top"]
      /\ UNCHANGED <<plan, obj, load, timers, started, now, called, ok>>
  BY DEF TimedOut, timerVars
<1>2. /\ at' \in Where /\ at'.pc = "top" /\ at'.next = at.next
      /\ at'.stopping = at.stopping
  BY <1>1, Facts DEF Where
<1>3. QED BY <1>1, <1>2, ToTheTop

LEMMA InterruptedIInv == ASSUME IInv, InterruptedWait PROVE IInv'
<1>1. /\ at.pc = "wait" /\ poller' = poller /\ at' = [at EXCEPT !.pc = "top"]
      /\ UNCHANGED <<plan, obj, load, timers, started, now, called, ok>>
  BY DEF InterruptedWait, timerVars, fdVars
<1>2. /\ at' \in Where /\ at'.pc = "top" /\ at'.next = at.next
      /\ at'.stopping = at.stopping
  BY <1>1, Facts DEF Where
<1>3. QED BY <1>1, <1>2, ToTheTop

LEMMA EndOfPassIInv == ASSUME IInv, EndOfPass PROVE IInv'
<1>1. /\ at.pc = "dispatch" /\ poller' = Cleanup(poller)
      /\ at' = [at EXCEPT !.pc = "top", !.i = 1, !.stage = "err"]
      /\ UNCHANGED <<plan, obj, load, timers, started, now, called, ok>>
  BY DEF EndOfPass, timerVars
<1>2. /\ at' \in Where /\ at'.pc = "top" /\ at'.next = at.next
      /\ at'.stopping = at.stopping
  <2>1. at \in Where /\ 1 \in Nat \ {0} /\ "err" \in Events
    BY Facts DEF Events
  <2>2. at' \in Where BY <1>1, <2>1 DEF Where
  <2>3. QED BY <1>1, <2>1, <2>2 DEF Where
<1>3. QED BY <1>1, <1>2, ToTheTop

\* The item at hand is right, so that ok stays and the call is for the owner.
LEMMA DispatchItem ==
  ASSUME IInv, dispatch
  PROVE  LET x == Item(poller, at.i)
         IN /\ ok' = TRUE
            /\ x.live /\ at.stage \in x.ev => /\ x.reactor = x.of
                                              /\ x.reactor \in Open
<1> DEFINE x == Item(poller, at.i)
<1>1. at.i <= Count(poller) /\ ok' = (ok /\ x.valid) BY DEF dispatch
<1>2. ItemRight(x, obj) BY <1>1, Facts, ItemOfBatch
<1> HIDE DEF x
<1>3. ok = TRUE /\ x.valid BY <1>2 DEF IInv, Values, ItemRight
<1>4. ok' = TRUE BY <1>1, <1>3
<1>5. x.live /\ at.stage \in x.ev => x.reactor = x.of /\ x.reactor \in Open
  BY <1>2, Facts DEF ItemRight
<1>6. QED BY <1>4, <1>5 DEF x

LEMMA DispatchIInv == ASSUME IInv, dispatch PROVE IInv'
<1> DEFINE x == Item(poller, at.i)
           call == x.live /\ at.stage \in x.ev
<1>1. /\ at.pc = "dispatch"
      /\ called' = IF call THEN [what |-> at.stage, reactor |-> x.reactor,
                                 of |-> x.of] ELSE called
      /\ at' = [at EXCEPT
                  !.pc = IF call THEN "handler" ELSE @,
                  !.i = IF ~x.live \/ at.stage = "in" THEN @ + 1 ELSE @,
                  !.stage = IF x.live THEN Following(@) ELSE "err"]
      /\ UNCHANGED <<plan, poller, obj, load, timers, started, now>>
  BY DEF dispatch, fdVars, timerVars
<1>2. ok' = TRUE BY DispatchItem
<1> DEFINE pc2 == IF call THEN "handler" ELSE at.pc
           i2 == IF ~x.live \/ at.stage = "in" THEN at.i + 1 ELSE at.i
           stage2 == IF x.live THEN Following(at.stage) ELSE "err"
<1>3. /\ pc2 \in {"handler", "dispatch"} /\ i2 \in Nat \ {0}
      /\ stage2 \in Events
  BY <1>1, Facts DEF Following, Events
<1>4. at' = [at EXCEPT !.pc = pc2, !.i = i2, !.stage = stage2] BY <1>1
<1>5. call => called'.what = at.stage BY <1>1
<1>6. pc2 = "handler" => call BY <1>1
<1> HIDE DEF pc2, i2, stage2, call
<1>7. /\ at' \in Where /\ at'.pc = pc2 /\ at'.next = at.next
      /\ at'.stopping = at.stopping
  <2>1. at \in Where BY Facts
  <2>2. at' \in Where BY <1>3, <1>4, <2>1 DEF Where
  <2>3. QED BY <1>4, <2>1, <2>2 DEF Where
<1>8. at'.pc = "handler" => called'.what \in Events
  BY <1>5, <1>6, <1>7, Facts
<1>9. Values' BY <1>1, <1>2 DEF IInv, Values
<1>10. Place' BY <1>3, <1>7, <1>8 DEF Place, InBatch
<1>11. Registrations' BY <1>1, <1>7, RegistrationsKept DEF IInv
<1>12. Timers'
  <2>1. ~TimerRuns BY <1>1 DEF TimerRuns
  <2>2. ~TimerRuns' BY <1>7, <1>8 DEF TimerRuns, Events
  <2>3. QED BY <1>1, <1>3, <1>7, <2>1, <2>2, Facts, TimersKept DEF IInv
<1>13. QED BY <1>9, <1>10, <1>11, <1>12 DEF IInv

LEMMA EventReturnsIInv == ASSUME IInv, EventReturns PROVE IInv'
<1>1. /\ at.pc = "handler" /\ called.what \in Events
      /\ at' = [at EXCEPT !.pc = "dispatch"]
      /\ UNCHANGED <<plan, poller, obj, load, timers, started, now, ok>>
  BY DEF EventReturns, fdVars, timerVars
<1>2. /\ at' \in Where /\ at'.pc = "dispatch" /\ at'.next = at.next
      /\ at'.stopping = at.stopping
  BY <1>1, Facts DEF Where
<1>3. ~TimerRuns /\ ~TimerRuns' BY <1>1, <1>2 DEF TimerRuns, Events
<1>4. Values' BY <1>1 DEF IInv, Values
<1>5. Place' BY <1>2 DEF Place, InBatch
<1>6. Registrations' BY <1>1, <1>2, RegistrationsKept DEF IInv
<1>7. Timers' BY <1>1, <1>2, <1>3, Facts, TimersKept DEF IInv
<1>8. QED BY <1>4, <1>5, <1>6, <1>7 DEF IInv

LEMMA StoppedIInv == ASSUME IInv, Stopped PROVE IInv'
<1>1. /\ at.pc = "top" /\ at.stopping /\ ok' = (ok /\ load = 0)
      /\ at' = [at EXCEPT !.pc = "stopped"]
      /\ UNCHANGED <<plan, poller, obj, load, timers, started, now, called>>
  BY DEF Stopped, fdVars, timerVars
<1>2. load = 0
  <2>1. Open = {} /\ load = Cardinality(Open)
    BY <1>1 DEF IInv, Registrations
  <2>2. QED BY <2>1, FS_EmptySet
<1>3. /\ at' \in Where /\ at'.pc = "stopped" /\ at'.next = at.next
      /\ at'.stopping = at.stopping
  BY <1>1, Facts DEF Where
<1>4. ~TimerRuns /\ ~TimerRuns' /\ ~InBatch BY <1>1, <1>3 DEF TimerRuns, InBatch
<1>5. Values' BY <1>1, <1>2 DEF IInv, Values
<1>6. Place' BY <1>1, <1>3, <1>4 DEF IInv, Place
<1>7. Registrations' BY <1>1, <1>3, RegistrationsKept DEF IInv
<1>8. Timers' BY <1>1, <1>3, <1>4, Facts, TimersKept DEF IInv
<1>9. QED BY <1>5, <1>6, <1>7, <1>8 DEF IInv

LEMMA TickIInv == ASSUME IInv, Tick PROVE IInv'
<1>1. /\ now < MaxTime /\ now' = now + 1
      /\ UNCHANGED <<plan, poller, obj, load, timers, started, at, called, ok>>
  BY DEF Tick, fdVars, timerVars
<1>2. now' \in 0..MaxTime /\ now' \in Nat /\ now <= now' BY <1>1, Facts
<1>3. Values' BY <1>1, <1>2 DEF IInv, Values
<1>4. Place' BY <1>1 DEF IInv, Place, InBatch
<1>5. Registrations' BY <1>1, RegistrationsKept DEF IInv
<1>6. Timers' BY <1>1, <1>2, Facts, TimersKept DEF IInv
<1>7. QED BY <1>3, <1>4, <1>5, <1>6 DEF IInv

LEMMA StepIInv == IInv /\ [Next]_vars => IInv'
<1> SUFFICES ASSUME IInv, [Next]_vars PROVE IInv' OBVIOUS
<1>1. CASE execute_timers BY <1>1, ExecuteTimersIInv
<1>2. CASE NextTimer BY <1>2, NextTimerIInv
<1>3. CASE TimerReturns BY <1>3, TimerReturnsIInv
<1>4. CASE TimedOut BY <1>4, TimedOutIInv
<1>5. CASE dispatch BY <1>5, DispatchIInv
<1>6. CASE EventReturns BY <1>6, EventReturnsIInv
<1>7. CASE EndOfPass BY <1>7, EndOfPassIInv
<1>8. CASE Stopped BY <1>8, StoppedIInv
<1>9. CASE Wake BY <1>9, WakeIInv
<1>10. CASE InterruptedWait BY <1>10, InterruptedIInv
<1>11. CASE Tick BY <1>11, TickIInv
<1>12. CASE \E f \in Fds : add_fd(f) BY <1>12, AddFdIInv
<1>13. CASE \E r \in Regs : rm_fd(r) BY <1>13, RmFdIInv
<1>14. CASE \E r \in Regs, ev \in SUBSET {"in", "out"} : set_poll(r, ev)
  BY <1>14, SetPollIInv
<1>15. CASE \E s \in Sinks, d \in Timeouts : add_timer(s, d)
  BY <1>15, AddTimerIInv
<1>16. CASE \E s \in Sinks : cancel_timer(s) BY <1>16, CancelTimerIInv
<1>17. CASE stop BY <1>17, StopIInv
<1>18. CASE UNCHANGED vars
  <2>1. UNCHANGED <<plan, poller, obj, load, timers, started, now, at, called, ok>>
    BY <1>18 DEF vars
  <2>2. Values' /\ Place' BY <2>1 DEF IInv, Values, Place, InBatch
  <2>3. Registrations' BY <2>1, RegistrationsKept DEF IInv
  <2>4. Timers' BY <2>1, Facts, TimersKept DEF IInv
  <2>5. QED BY <2>2, <2>3, <2>4 DEF IInv
<1>19. QED
  BY <1>1, <1>2, <1>3, <1>4, <1>5, <1>6, <1>7, <1>8, <1>9, <1>10, <1>11,
     <1>12, <1>13, <1>14, <1>15, <1>16, <1>17, <1>18, Zenon DEF Next, Loop

LEMMA IInvSound == IInv => PollerSound
<1> SUFFICES ASSUME IInv PROVE PollerSound OBVIOUS
<1>1. TypeOK
  <2>1. plan \in Plans /\ started \subseteq Sinks /\ now \in 0..MaxTime
    BY DEF IInv, Values
  <2>2. obj \in [Regs -> [fd : Fds \cup {0}, events : SUBSET {"in", "out"}]]
    BY Facts DEF Asked, Objs, Dirs
  <2>3. load \in 0..Cardinality(Regs)
    <3>1. Open \subseteq Regs BY DEF Open
    <3>2. Cardinality(Open) <= Cardinality(Regs) /\ Cardinality(Open) \in Nat
          /\ Cardinality(Regs) \in Nat
      BY <3>1, Numbers, FS_Subset, FS_CardinalityType
    <3>3. QED BY <3>2 DEF IInv, Registrations
  <2>4. \A i \in DOMAIN timers : timers[i].exp \in 0..MaxTime
    <3>1. \A i \in DOMAIN timers : timers[i] \in Timer BY DEF IInv, Timers
    <3>2. QED BY <3>1 DEF Timer
  <2>5. /\ at.pc \in {"top", "timer", "wait", "dispatch", "handler", "stopped"}
        /\ at.stage \in Events
    BY Facts DEF Where
  <2>6. QED BY <2>1, <2>2, <2>3, <2>4, <2>5 DEF TypeOK
<1>2. AssertsHold BY Facts, RepOk DEF AssertsHold, IInv, Values
<1>3. WatchesAll
  <2>1. Watched(poller) = {<<r, obj[r].fd, obj[r].events>> :
           r \in {x \in OpenIn(obj) : plan.impl = "kqueue" => obj[x].events # {}}}
    BY Facts, WatchedIs, Zenon
  <2>2. QED BY <2>1, Facts DEF WatchesAll, IInv, Registrations
<1>4. NeverOversleeps BY DEF IInv, Timers
<1>5. QED BY <1>1, <1>2, <1>3, <1>4 DEF PollerSound

\* Whichever poller was built and however many descriptors, registrations,
\* sinks and timers there are: no assertion of it fails and no freed entry is
\* used (devpoll's pointer into its table excepted), the loop goes to sleep
\* watching exactly what the objects have asked for, and never sleeps past a
\* timer.
THEOREM PollerSafe == Spec => []PollerSound
<1>1. Init => IInv BY InitIInv
<1>2. IInv /\ [Next]_vars => IInv' BY StepIInv
<1>3. IInv => PollerSound BY IInvSound
<1>4. QED BY <1>1, <1>2, <1>3, PTL DEF Spec

\* An event is never delivered to an object that has been removed, or for
\* the file of another object that had the same number of descriptor.
THEOREM EventsReachOwner == Spec => EventsReachTheirOwner
<1> DEFINE Owned == called' # called /\ called'.what \in Events =>
                      called'.reactor = called'.of /\ called'.reactor \in Open
<1>1. ASSUME IInv, Next PROVE Owned
  <2>1. CASE dispatch
    <3> DEFINE x == Item(poller, at.i)
    <3>1. called' = IF x.live /\ at.stage \in x.ev
                    THEN [what |-> at.stage, reactor |-> x.reactor, of |-> x.of]
                    ELSE called
      BY <2>1 DEF dispatch
    <3>2. x.live /\ at.stage \in x.ev => x.reactor = x.of /\ x.reactor \in Open
      BY <1>1, <2>1, DispatchItem
    <3> HIDE DEF x
    <3>3. QED BY <3>1, <3>2
  <2>2. CASE NextTimer
    <3>1. called' = called \/ called'.what = "timer" BY <2>2 DEF NextTimer
    <3>2. QED BY <3>1 DEF Events
  <2>3. CASE TimerReturns \/ EventReturns
    <3>1. called'.what = "none" BY <2>3 DEF TimerReturns, EventReturns, NoCall
    <3>2. QED BY <3>1 DEF Events
  <2>4. CASE \/ execute_timers \/ TimedOut \/ EndOfPass \/ Stopped \/ Wake
             \/ InterruptedWait \/ Tick \/ stop
             \/ \E f \in Fds : add_fd(f)
             \/ \E r \in Regs : rm_fd(r)
             \/ \E r \in Regs, ev \in SUBSET {"in", "out"} : set_poll(r, ev)
             \/ \E s \in Sinks, d \in Timeouts : add_timer(s, d)
             \/ \E s \in Sinks : cancel_timer(s)
    <3>1. called' = called
      BY <2>4 DEF execute_timers, TimedOut, EndOfPass, Stopped, Wake,
           InterruptedWait, Tick, stop, add_fd, rm_fd, set_poll, add_timer,
           cancel_timer
    <3>2. QED BY <3>1
  <2>5. QED BY <1>1, <2>1, <2>2, <2>3, <2>4, Zenon DEF Next, Loop
<1>2. IInv /\ [Next]_vars => [Owned]_vars BY <1>1
<1>3. Init => IInv BY InitIInv
<1>4. IInv /\ [Next]_vars => IInv' BY StepIInv
<1>5. QED BY <1>2, <1>3, <1>4, PTL DEF Spec, EventsReachTheirOwner
=============================================================================
