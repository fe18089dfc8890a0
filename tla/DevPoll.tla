------------------------------- MODULE DevPoll -------------------------------
(***************************************************************************)
(* devpoll_t: a table indexed by the descriptor.  A descriptor that was    *)
(* added in a pass is accepted at the next one only, so that an event of   *)
(* the file that had its number before is not taken for its own.  The loop *)
(* keeps a pointer into the table while it calls the reactor.              *)
(***************************************************************************)
EXTENDS Naturals, FiniteSets, FiniteSetsExt, Sequences, SequencesExt

CONSTANTS Regs, Fds, MaxEvents

NoWatch == [on |-> FALSE, events |-> {}]

New == [table   |-> [f \in Fds |-> [valid |-> FALSE, accepted |-> FALSE,
                                    events |-> {}, reactor |-> 0]],
        size    |-> 0, kernel |-> [f \in Fds |-> NoWatch],
        pending |-> {}, ev_buf |-> <<>>, held |-> FALSE,
        moved |-> FALSE, ok |-> TRUE]

\* The table grows when it has no row for the descriptor, and moves.  held
\* is TRUE while the loop has a pointer into it, moved when it has moved then.
add_fd(p, fd, r) ==
  [p EXCEPT !.ok = @ /\ ~p.table[fd].valid,
            !.moved = @ \/ (fd > p.size /\ p.held),
            !.size = Max({@, fd}),
            !.table[fd] = [valid |-> TRUE, accepted |-> FALSE,
                           events |-> {}, reactor |-> r],
            !.kernel[fd] = [on |-> TRUE, events |-> {}],
            !.pending = @ \cup {fd}]

rm_fd(p, r, fd) ==
  [p EXCEPT !.ok = @ /\ p.table[fd].valid, !.table[fd].valid = FALSE,
            !.kernel[fd] = NoWatch]

set_poll(p, r, fd, events) ==
  [p EXCEPT !.table[fd].events = events,
            !.kernel[fd] = [on |-> TRUE, events |-> events]]

begin(p) ==
  LET accept(row, f) ==
        [row EXCEPT !.accepted = row.accepted \/ f \in p.pending]
  IN [p EXCEPT !.pending = {},
               !.table = [f \in Fds |-> accept(p.table[f], f)]]

Reported(p, ready, f) == ready[f] \cap (p.kernel[f].events \cup {"err"})
wait(p, ready, of) ==
  LET hot == {f \in Fds : p.kernel[f].on /\ Reported(p, ready, f) # {}}
      Event(f) == [fd |-> f, ev |-> Reported(p, ready, f), of |-> of[f]]
  IN {[p EXCEPT !.ev_buf = [i \in DOMAIN s |-> Event(s[i])], !.held = TRUE] :
        s \in UNION {SetToSeqs(S) : S \in {T \in SUBSET hot :
                        T # {} /\ Cardinality(T) <= MaxEvents}}}

count(p) == Len(p.ev_buf)
item(p, i) ==
  LET e == p.ev_buf[i]
      x == p.table[e.fd]
  IN [valid |-> TRUE, live |-> x.valid /\ x.accepted, reactor |-> x.reactor,
      ev |-> e.ev, of |-> e.of]

cleanup(p) == [p EXCEPT !.ev_buf = <<>>, !.held = FALSE]

Watched(p) == {<<p.table[f].reactor, f, p.kernel[f].events>> :
                 f \in {g \in Fds : p.table[g].valid /\ p.kernel[g].on}}
=============================================================================
