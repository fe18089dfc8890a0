------------------------------- MODULE Poller -------------------------------
(***************************************************************************)
(* The loop of an I/O thread: poller_base_t with its timers, and one of    *)
(* the five pollers, Epoll, Kqueue, PollSet, SelectSet and DevPoll.        *)
(* The objects of the thread (mailbox, listeners, connecters, engines,     *)
(* sessions) are called back by the loop, and from a callback they add,    *)
(* remove and change any registration, with numbers of descriptors that    *)
(* come back, start and cancel timers, and stop the poller.                *)
(***************************************************************************)
EXTENDS Naturals, FiniteSets, Sequences, SequencesExt

CONSTANTS
  Regs,       \* the registrations that can be made, in their order: 1..n
  Fds,        \* the numbers of the file descriptors: 1..n
  MaxEvents,  \* max_io_events
  Sinks,      \* the objects with a timer
  Timeouts,   \* the timeouts they ask for, in milliseconds
  MaxTime,    \* where the clock stops
  Plans       \* which poller, and what happens to it in this behaviour

Events == {"in", "out", "err"}
Impls == {"epoll", "kqueue", "poll", "select", "devpoll"}

ASSUME PollerAssumption ==
  /\ \A X \in {Regs, Fds} : IsFiniteSet(X) /\ 1 \in X /\ X = 1..Cardinality(X)
  /\ Timeouts \subseteq Nat /\ MaxTime \in Nat
  /\ \A pl \in Plans : pl.impl \in Impls /\ pl.events \subseteq Events

VARIABLES
  plan,     \* impl, the registrations and sinks it has, and the events
  poller,   \* the state of the poller
  obj,      \* of each registration: its descriptor (0: none) and its events
  load,     \* poller_base_t::load
  timers,   \* the multimap: expiration and sink, and whether it is running
  started,  \* the sinks that count on their timer
  now,      \* the clock
  at,       \* where the loop is
  called,   \* the callback that runs: what, for whom, and whose event it is
  ok        \* FALSE when something that is gone has been used

vars == <<plan, poller, obj, load, timers, started, now, at, called, ok>>

E == INSTANCE Epoll
K == INSTANCE Kqueue
P == INSTANCE PollSet
S == INSTANCE SelectSet
D == INSTANCE DevPoll

NoCall == [what |-> "none", reactor |-> 0, of |-> 0]

\* The operations of the poller that was built.
New(impl) ==
  CASE impl = "epoll" -> E!New [] impl = "kqueue" -> K!New
    [] impl = "poll" -> P!New [] impl = "select" -> S!New
    [] impl = "devpoll" -> D!New
AddFd(impl, p, f, r) ==
  CASE impl = "epoll" -> E!add_fd(p, f, r)
    [] impl = "kqueue" -> K!add_fd(p, f, r)
    [] impl = "poll" -> P!add_fd(p, f, r)
    [] impl = "select" -> S!add_fd(p, f, r)
    [] impl = "devpoll" -> D!add_fd(p, f, r)
RmFd(p, r, f) ==
  CASE plan.impl = "epoll" -> E!rm_fd(p, r, f)
    [] plan.impl = "kqueue" -> K!rm_fd(p, r, f)
    [] plan.impl = "poll" -> P!rm_fd(p, r, f)
    [] plan.impl = "select" -> S!rm_fd(p, r, f)
    [] plan.impl = "devpoll" -> D!rm_fd(p, r, f)
SetPoll(impl, p, r, f, events) ==
  CASE impl = "epoll" -> E!set_poll(p, r, f, events)
    [] impl = "kqueue" -> K!set_poll(p, r, f, events)
    [] impl = "poll" -> P!set_poll(p, r, f, events)
    [] impl = "select" -> S!set_poll(p, r, f, events)
    [] impl = "devpoll" -> D!set_poll(p, r, f, events)
BeginPass(p) == IF plan.impl = "devpoll" THEN D!begin(p) ELSE p
Waited(p, ready, of) ==
  CASE plan.impl = "epoll" -> E!wait(p, ready, of)
    [] plan.impl = "kqueue" -> K!wait(p, ready, of)
    [] plan.impl = "poll" -> P!wait(p, ready, of)
    [] plan.impl = "select" -> S!wait(p, ready, of)
    [] plan.impl = "devpoll" -> D!wait(p, ready, of)
Count(p) ==
  CASE plan.impl = "epoll" -> E!count(p)
    [] plan.impl = "kqueue" -> K!count(p)
    [] plan.impl = "poll" -> P!count(p)
    [] plan.impl = "select" -> S!count(p)
    [] plan.impl = "devpoll" -> D!count(p)
Item(p, i) ==
  CASE plan.impl = "epoll" -> E!item(p, i)
    [] plan.impl = "kqueue" -> K!item(p, i)
    [] plan.impl = "poll" -> P!item(p, i)
    [] plan.impl = "select" -> S!item(p, i)
    [] plan.impl = "devpoll" -> D!item(p, i)
Cleanup(p) ==
  CASE plan.impl = "epoll" -> E!cleanup(p)
    [] plan.impl = "kqueue" -> K!cleanup(p)
    [] plan.impl = "poll" -> P!cleanup(p)
    [] plan.impl = "select" -> S!cleanup(p)
    [] plan.impl = "devpoll" -> D!cleanup(p)
Watched(p) ==
  CASE plan.impl = "epoll" -> E!Watched(p)
    [] plan.impl = "kqueue" -> K!Watched(p)
    [] plan.impl = "poll" -> P!Watched(p)
    [] plan.impl = "select" -> S!Watched(p)
    [] plan.impl = "devpoll" -> D!Watched(p)

Open == {r \in Regs : obj[r].fd # 0}
FileOf == [f \in Fds |-> IF \E r \in Open : obj[r].fd = f
                         THEN CHOOSE r \in Open : obj[r].fd = f ELSE 0]

\* The thread starts with its mailbox registered and polled for input.
Init ==
  \E pl \in Plans :
    /\ plan = pl
    /\ poller = SetPoll(pl.impl, AddFd(pl.impl, New(pl.impl), 1, 1),
                        1, 1, {"in"})
    /\ obj = [r \in Regs |-> IF r = 1 THEN [fd |-> 1, events |-> {"in"}]
                             ELSE [fd |-> 0, events |-> {}]]
    /\ load = 1 /\ timers = <<>> /\ started = {} /\ now = 0 /\ ok = TRUE
    /\ at = [pc |-> "top", i |-> 1, stage |-> "err", timeout |-> 0,
             current |-> 0, stopping |-> FALSE, next |-> 2]
    /\ called = NoCall

fdVars == <<poller, obj, load>>
timerVars == <<timers, started>>

-----------------------------------------------------------------------------
(* The timers.                                                             *)

\* multimap::insert puts a timer before the first one that expires later.
Insert(expiration, s) ==
  LET place == CHOOSE i \in 1..Len(timers) + 1 :
                 /\ \A j \in 1..i - 1 : timers[j].exp <= expiration
                 /\ \A j \in i..Len(timers) : timers[j].exp > expiration
  IN InsertAt(timers, place,
              [exp |-> expiration, sink |-> s, running |-> FALSE])

add_timer(s, timeout) ==
  /\ at.pc = "handler" /\ ~at.stopping
  /\ s \in Sinks \ started /\ s <= plan.sinks
  /\ now + timeout <= MaxTime
  /\ timers' = Insert(now + timeout, s)
  /\ started' = started \cup {s}
  /\ UNCHANGED <<plan, fdVars, now, at, called, ok>>

\* cancel_timer erases the first timer of the sink and asserts that there is
\* one.  An object does not cancel its timer while the timer calls it.
cancel_timer(s) ==
  /\ at.pc = "handler" /\ s \in started
  /\ called.what = "timer" => called.reactor # s
  /\ LET found == {i \in DOMAIN timers : timers[i].sink = s}
     IN IF found = {} THEN ok' = FALSE /\ UNCHANGED timers
        ELSE /\ timers' = RemoveAt(timers, CHOOSE i \in found :
                                             \A j \in found : i <= j)
             /\ UNCHANGED ok
  /\ started' = started \ {s}
  /\ UNCHANGED <<plan, fdVars, now, at, called>>

\* The top of the loop, and the start of execute_timers.
execute_timers ==
  /\ at.pc = "top" /\ ~at.stopping
  /\ poller' = BeginPass(poller)
  /\ at' = IF timers = <<>> THEN [at EXCEPT !.pc = "wait", !.timeout = 0]
           ELSE [at EXCEPT !.pc = "timer", !.i = 1, !.current = now]
  /\ UNCHANGED <<plan, obj, load, timerVars, now, called, ok>>

\* One pass of its loop: all that follows waits, or the timer is due and its
\* sink is called, which counts on it no longer.
NextTimer ==
  /\ at.pc = "timer"
  /\ IF at.i > Len(timers)
     THEN /\ at' = [at EXCEPT !.pc = "wait", !.timeout = 0]
          /\ UNCHANGED <<timerVars, called>>
     ELSE IF timers[at.i].exp > at.current
     THEN /\ at' = [at EXCEPT !.pc = "wait",
                              !.timeout = timers[at.i].exp - at.current]
          /\ UNCHANGED <<timerVars, called>>
     ELSE /\ at' = [at EXCEPT !.pc = "handler"]
          /\ called' = [what |-> "timer", reactor |-> timers[at.i].sink,
                        of |-> timers[at.i].sink]
          /\ timers' = [timers EXCEPT ![at.i].running = TRUE]
          /\ started' = started \ {timers[at.i].sink}
  /\ UNCHANGED <<plan, fdVars, now, ok>>

\* Mutant of TimerReturns: the next timer is passed over.
TimerReturnsSkipping ==
  /\ at.pc = "handler" /\ called.what = "timer"
  /\ LET i == CHOOSE i \in DOMAIN timers : timers[i].running
     IN timers' = RemoveAt(timers, i) /\ at' = [at EXCEPT !.pc = "timer",
                                                         !.i = i + 1]
  /\ called' = NoCall
  /\ UNCHANGED <<plan, fdVars, started, now, ok>>
\* The timer is erased after its sink has returned; it has to be there.
TimerReturns ==
  /\ at.pc = "handler" /\ called.what = "timer"
  /\ LET running == {i \in DOMAIN timers : timers[i].running}
     IN IF running = {} THEN ok' = FALSE /\ UNCHANGED <<timers, at>>
        ELSE LET i == CHOOSE i \in running : TRUE
             IN /\ timers' = RemoveAt(timers, i)
                /\ at' = [at EXCEPT !.pc = "timer", !.i = i]
                /\ UNCHANGED ok
  /\ called' = NoCall
  /\ UNCHANGED <<plan, fdVars, started, now>>

Tick == /\ now < MaxTime /\ plan.sinks > 0
        /\ now' = now + 1
        /\ UNCHANGED <<plan, fdVars, timerVars, at, called, ok>>
-----------------------------------------------------------------------------
(* The descriptors.                                                        *)

add_fd(f) ==
  LET r == at.next
  IN /\ at.pc = "handler" /\ ~at.stopping /\ r \in Regs /\ r <= plan.regs
     /\ \A x \in Open : obj[x].fd # f
     /\ poller' = AddFd(plan.impl, poller, f, r)
     /\ obj' = [obj EXCEPT ![r] = [fd |-> f, events |-> {}]]
     /\ load' = load + 1
     /\ at' = [at EXCEPT !.next = r + 1]
     /\ UNCHANGED <<plan, timerVars, now, called, ok>>

\* An object removes its descriptor and closes it.
rm_fd(r) ==
  /\ at.pc = "handler" /\ r \in Open \ {1}
  /\ poller' = RmFd(poller, r, obj[r].fd)
  /\ obj' = [obj EXCEPT ![r] = [fd |-> 0, events |-> {}]]
  /\ load' = load - 1
  /\ UNCHANGED <<plan, timerVars, now, at, called, ok>>

set_poll(r, events) ==
  /\ at.pc = "handler" /\ r \in Open \ {1} /\ events \subseteq plan.events
  /\ Cardinality((events \ obj[r].events) \cup (obj[r].events \ events)) = 1
  /\ poller' = SetPoll(plan.impl, poller, r, obj[r].fd, events)
  /\ obj' = [obj EXCEPT ![r].events = events]
  /\ UNCHANGED <<plan, load, timerVars, now, at, called, ok>>

\* process_stop of the thread: the mailbox is the last to go.
stop ==
  /\ at.pc = "handler" /\ called.what # "timer"
  /\ Open = {1} /\ started = {}
  /\ poller' = RmFd(poller, 1, obj[1].fd)
  /\ obj' = [obj EXCEPT ![1] = [fd |-> 0, events |-> {}]]
  /\ load' = load - 1
  /\ at' = [at EXCEPT !.stopping = TRUE]
  /\ UNCHANGED <<plan, timerVars, now, called, ok>>

\* The wait returns with events: ready is what the files are ready for.
Wake ==
  /\ at.pc = "wait"
  /\ \E ready \in [Fds -> SUBSET plan.events] :
       /\ \A f \in Fds : FileOf[f] = 0 => ready[f] = {}
       /\ \E p \in Waited(poller, ready, FileOf) : poller' = p
  /\ at' = [at EXCEPT !.pc = "dispatch", !.i = 1, !.stage = "err"]
  /\ UNCHANGED <<plan, obj, load, timerVars, now, called, ok>>

\* It returns without: poll and select go to the top at once.
TimedOut ==
  /\ at.pc = "wait" /\ at.timeout > 0 /\ now >= at.current + at.timeout
  /\ poller' = IF plan.impl \in {"poll", "select"} THEN poller
               ELSE Cleanup(poller)
  /\ at' = [at EXCEPT !.pc = "top"]
  /\ UNCHANGED <<plan, obj, load, timerVars, now, called, ok>>

\* EINTR.
InterruptedWait ==
  /\ at.pc = "wait"
  /\ at' = [at EXCEPT !.pc = "top"]
  /\ UNCHANGED <<plan, fdVars, timerVars, now, called, ok>>

\* The loop over the events: errors first, then output, then input, and
\* before each it looks whether the registration is still there.
Following(stage) ==
  CASE stage = "err" -> "out" [] stage = "out" -> "in" [] OTHER -> "err"
dispatch ==
  /\ at.pc = "dispatch" /\ at.i <= Count(poller)
  /\ LET x    == Item(poller, at.i)
         call == x.live /\ at.stage \in x.ev
     IN /\ ok' = (ok /\ x.valid)
        /\ called' = IF call THEN [what |-> at.stage, reactor |-> x.reactor,
                                   of |-> x.of] ELSE called
        /\ at' = [at EXCEPT
                    !.pc = IF call THEN "handler" ELSE @,
                    !.i = IF ~x.live \/ at.stage = "in" THEN @ + 1 ELSE @,
                    !.stage = IF x.live THEN Following(@) ELSE "err"]
  /\ UNCHANGED <<plan, fdVars, timerVars, now>>

EventReturns ==
  /\ at.pc = "handler" /\ called.what \in Events
  /\ at' = [at EXCEPT !.pc = "dispatch"]
  /\ called' = NoCall
  /\ UNCHANGED <<plan, fdVars, timerVars, now, ok>>

EndOfPass ==
  /\ at.pc = "dispatch" /\ at.i > Count(poller)
  /\ poller' = Cleanup(poller)
  /\ at' = [at EXCEPT !.pc = "top", !.i = 1, !.stage = "err"]
  /\ UNCHANGED <<plan, obj, load, timerVars, now, called, ok>>

\* The loop ends, and the destructor of poller_base_t asserts on the load.
Stopped ==
  /\ at.pc = "top" /\ at.stopping
  /\ ok' = (ok /\ load = 0)
  /\ at' = [at EXCEPT !.pc = "stopped"]
  /\ UNCHANGED <<plan, fdVars, timerVars, now, called>>

Loop == execute_timers \/ NextTimer \/ TimerReturns \/ TimedOut \/ dispatch
          \/ EventReturns \/ EndOfPass \/ Stopped
Next ==
  \/ Loop \/ Wake \/ InterruptedWait \/ Tick
  \/ \E f \in Fds : add_fd(f)
  \/ \E r \in Regs : rm_fd(r)
  \/ \E r \in Regs, events \in SUBSET {"in", "out"} : set_poll(r, events)
  \/ \E s \in Sinks, t \in Timeouts : add_timer(s, t)
  \/ \E s \in Sinks : cancel_timer(s)
  \/ stop

\* The thread keeps running, callbacks return and time passes.
Fairness == WF_vars(Loop) /\ WF_vars(Tick)
Spec == Init /\ [][Next]_vars /\ Fairness
-----------------------------------------------------------------------------
\* The type of every variable.
TypeOK ==
  /\ plan \in Plans
  /\ obj \in [Regs -> [fd : Fds \cup {0}, events : SUBSET {"in", "out"}]]
  /\ load \in 0..Cardinality(Regs)
  /\ \A i \in DOMAIN timers : timers[i].exp \in 0..MaxTime
  /\ started \subseteq Sinks
  /\ now \in 0..MaxTime
  /\ at.pc \in {"top", "timer", "wait", "dispatch", "handler", "stopped"}
  /\ at.stage \in Events

\* No assertion of a poller fails, no entry is used after it was freed, every
\* timer that is cancelled is found, and nothing is registered at the end.
\* The pointer of devpoll_t::loop into fd_table is no entry: it is left behind
\* when a callback makes the table grow, which the module DevPoll notes in
\* moved.
AssertsHold == poller.ok /\ ok

\* An event reaches the object whose file it was, and that object only while
\* it is registered: an earlier callback of the same batch may have removed
\* it, and the number of its descriptor may have come back with another file.
EventsReachTheirOwner ==
  [][called' # called /\ called'.what \in Events =>
       called'.reactor = called'.of /\ called'.reactor \in Open]_vars

\* The loop goes to sleep watching exactly what the objects have asked for.
WatchesAll ==
  at.pc = "wait" =>
    /\ load = Cardinality(Open)
    /\ Watched(poller) =
         {<<r, obj[r].fd, obj[r].events>> :
            r \in {x \in Open : plan.impl = "kqueue" => obj[x].events # {}}}

\* It never sleeps past a timer, those that were started while it called the
\* timers included.
NeverOversleeps ==
  at.pc = "wait" =>
    IF at.timeout = 0 THEN timers = <<>>
    ELSE \A i \in DOMAIN timers : timers[i].exp >= at.current + at.timeout

\* A timer that is started fires or is cancelled.
TimersFire == \A s \in Sinks : s \in started ~> s \notin started

\* The types hold, nothing that is gone is used, and the loop goes to sleep
\* with the right descriptors and for the right time.
PollerSound == TypeOK /\ AssertsHold /\ WatchesAll /\ NeverOversleeps
=============================================================================
