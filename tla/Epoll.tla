-------------------------------- MODULE Epoll --------------------------------
(***************************************************************************)
(* epoll_t: an entry is allocated for every registration, the kernel keeps *)
(* a pointer to it, and an entry that is removed is freed only after the   *)
(* batch of events that may still point to it.  A poller is a record; ok   *)
(* is FALSE once an assertion has failed or freed memory has been used.    *)
(***************************************************************************)
EXTENDS Naturals, FiniteSets, Sequences, SequencesExt

CONSTANTS
  Regs,       \* the registrations, each with an entry of its own
  Fds,        \* the file descriptors, positive numbers; 0 is retired_fd
  MaxEvents   \* max_io_events

NoWatch == [ptr |-> 0, events |-> {}]

New == [entry   |-> [r \in Regs |-> [fd |-> 0, events |-> {}, freed |-> TRUE]],
        kernel  |-> [f \in Fds |-> NoWatch],
        retired |-> {}, ev_buf |-> <<>>, ok |-> TRUE]

add_fd(p, fd, r) ==
  [p EXCEPT !.entry[r] = [fd |-> fd, events |-> {}, freed |-> FALSE],
            !.kernel[fd] = [ptr |-> r, events |-> {}],
            !.ok = @ /\ p.kernel[fd].ptr = 0]

rm_fd(p, r, fd) ==
  [p EXCEPT !.kernel[fd] = NoWatch, !.entry[r].fd = 0,
            !.retired = @ \cup {r}, !.ok = @ /\ p.kernel[fd].ptr # 0]

\* set_pollin, reset_pollin, set_pollout and reset_pollout.
set_poll(p, r, fd, events) ==
  [p EXCEPT !.entry[r].events = events, !.kernel[fd].events = events,
            !.ok = @ /\ p.kernel[fd].ptr # 0]

begin(p) == p

\* epoll_wait: at most MaxEvents of the descriptors that are ready, in any
\* order.  of[f] is the registration whose file has the number f.
Reported(p, ready, f) == ready[f] \cap (p.kernel[f].events \cup {"err"})
wait(p, ready, of) ==
  LET hot == {f \in Fds : p.kernel[f].ptr # 0 /\ Reported(p, ready, f) # {}}
      Event(f) == [ptr |-> p.kernel[f].ptr, ev |-> Reported(p, ready, f),
                   of |-> of[f]]
  IN {[p EXCEPT !.ev_buf = [i \in DOMAIN s |-> Event(s[i])]] :
        s \in UNION {SetToSeqs(S) : S \in {T \in SUBSET hot :
                        T # {} /\ Cardinality(T) <= MaxEvents}}}

count(p) == Len(p.ev_buf)
item(p, i) ==
  LET e == p.ev_buf[i]
  IN [valid |-> ~p.entry[e.ptr].freed, live |-> p.entry[e.ptr].fd # 0,
      reactor |-> e.ptr, ev |-> e.ev, of |-> e.of]

cleanup(p) ==
  [p EXCEPT !.ev_buf = <<>>, !.retired = {},
            !.entry = [r \in Regs |-> IF r \in p.retired
                                      THEN [@[r] EXCEPT !.freed = TRUE]
                                      ELSE @[r]]]

\* What the kernel is asked to watch: registration, descriptor and events.
Watched(p) == {<<p.kernel[f].ptr, f, p.kernel[f].events>> :
                 f \in {g \in Fds : p.kernel[g].ptr # 0}}
=============================================================================
