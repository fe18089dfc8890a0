------------------------------- MODULE Kqueue -------------------------------
(***************************************************************************)
(* kqueue_t: an entry for every registration, and one filter in the kernel *)
(* for each direction that is polled.  Each filter that is ready is an     *)
(* event of its own, and the end of the stream comes as a flag of it.      *)
(***************************************************************************)
EXTENDS Naturals, FiniteSets, Sequences, SequencesExt

CONSTANTS Regs, Fds, MaxEvents

New == [entry   |-> [r \in Regs |-> [fd |-> 0, flags |-> {}, freed |-> TRUE]],
        filters |-> {}, retired |-> {}, ev_buf |-> <<>>, ok |-> TRUE]

add_fd(p, fd, r) ==
  [p EXCEPT !.entry[r] = [fd |-> fd, flags |-> {}, freed |-> FALSE]]

\* kevent_add and kevent_delete; the deletion of a filter that is not there
\* fails.
kevent_add(p, fd, filter, r) ==
  [p EXCEPT !.filters = {x \in @ : x.fd # fd \/ x.filter # filter}
                          \cup {[fd |-> fd, filter |-> filter, ptr |-> r]}]
Has(p, fd, filter) == \E x \in p.filters : x.fd = fd /\ x.filter = filter
kevent_delete(p, fd, filter) ==
  [p EXCEPT !.ok = @ /\ Has(p, fd, filter),
            !.filters = {x \in @ : x.fd # fd \/ x.filter # filter}]

rm_fd(p, r, fd) ==
  LET q == [p EXCEPT !.ok = @ /\ \A e \in p.entry[r].flags : Has(p, fd, e),
                     !.filters = {x \in @ : x.fd = fd =>
                                    x.filter \notin p.entry[r].flags}]
  IN [q EXCEPT !.entry[r].fd = 0, !.retired = @ \cup {r}]

set_poll(p, r, fd, events) ==
  LET added   == events \ p.entry[r].flags
      removed == p.entry[r].flags \ events
      q       == [p EXCEPT !.entry[r].flags = events]
  IN IF added # {} THEN kevent_add(q, fd, CHOOSE e \in added : TRUE, r)
     ELSE IF removed # {}
          THEN kevent_delete(q, fd, CHOOSE e \in removed : TRUE)
          ELSE p

begin(p) == p

\* kevent: a filter is ready when its direction is, or at the end of the
\* stream.
wait(p, ready, of) ==
  LET hot == {x \in p.filters : ready[x.fd] \cap {x.filter, "err"} # {}}
      Event(x) == [ptr |-> x.ptr, of |-> of[x.fd],
                   ev |-> {x.filter} \cup (ready[x.fd] \cap {"err"})]
  IN {[p EXCEPT !.ev_buf = [i \in DOMAIN s |-> Event(s[i])]] :
        s \in UNION {SetToSeqs(S) : S \in {T \in SUBSET hot :
                        T # {} /\ Cardinality(T) <= MaxEvents}}}

count(p) == Len(p.ev_buf)
item(p, i) ==
  LET e == p.ev_buf[i]
  IN [valid |-> ~p.entry[e.ptr].freed, live |-> p.entry[e.ptr].fd # 0,
      reactor |-> e.ptr, ev |-> e.ev, of |-> e.of]

cleanup(p) ==
  [p EXCEPT !.ev_buf = <<>>, !.retired = {},
            !.entry = [r \in Regs |-> IF r \in p.retired
                                      THEN [@[r] EXCEPT !.freed = TRUE]
                                      ELSE @[r]]]

\* An entry without a filter is not watched at all.
Watched(p) ==
  {<<x.ptr, x.fd, {y.filter : y \in {z \in p.filters : z.fd = x.fd}}>> :
     x \in p.filters}
=============================================================================
