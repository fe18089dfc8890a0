------------------------------ MODULE SelectSet ------------------------------
(***************************************************************************)
(* select_t: the descriptors in the order of their registration, the sets  *)
(* to select on, and the sets that select has returned, from which rm_fd   *)
(* takes the descriptor out at once.                                       *)
(***************************************************************************)
EXTENDS Naturals, FiniteSets, FiniteSetsExt, Sequences

CONSTANTS Regs, Fds, MaxEvents

New == [fds |-> <<>>, in |-> {}, out |-> {}, err |-> {}, readfds |-> {},
        writefds |-> {}, exceptfds |-> {}, seen |-> [f \in Fds |-> 0],
        maxfd |-> 0, retired |-> FALSE, ok |-> TRUE]

add_fd(p, fd, r) ==
  [p EXCEPT !.fds = Append(@, [fd |-> fd, reactor |-> r]),
            !.err = @ \cup {fd}, !.maxfd = Max({@, fd})]

\* Mutant of rm_fd: the events of the batch that is dispatched are kept.
RmFdKeepsEvents(p, r, fd) ==
  LET at   == {i \in DOMAIN p.fds : p.fds[i].fd = fd}
      i    == Min(at)
      left == {p.fds[j].fd : j \in DOMAIN p.fds \ {i}}
  IN IF at = {} THEN [p EXCEPT !.ok = FALSE]
     ELSE [p EXCEPT !.fds[i].fd = 0, !.retired = TRUE,
                    !.in = @ \ {fd}, !.out = @ \ {fd}, !.err = @ \ {fd},
                    !.maxfd = IF fd = @ THEN Max(left \cup {0}) ELSE @]
rm_fd(p, r, fd) ==
  LET at   == {i \in DOMAIN p.fds : p.fds[i].fd = fd}
      i    == Min(at)
      left == {p.fds[j].fd : j \in DOMAIN p.fds \ {i}}
  IN IF at = {} THEN [p EXCEPT !.ok = FALSE]
     ELSE [p EXCEPT !.fds[i].fd = 0, !.retired = TRUE,
                    !.in = @ \ {fd}, !.out = @ \ {fd}, !.err = @ \ {fd},
                    !.readfds = @ \ {fd}, !.writefds = @ \ {fd},
                    !.exceptfds = @ \ {fd},
                    !.maxfd = IF fd = @ THEN Max(left \cup {0}) ELSE @]

set_poll(p, r, fd, events) ==
  [p EXCEPT !.in = IF "in" \in events THEN @ \cup {fd} ELSE @ \ {fd},
            !.out = IF "out" \in events THEN @ \cup {fd} ELSE @ \ {fd}]

begin(p) == p

\* select looks at the descriptors up to maxfd.
Selected(p, set, ready, e) ==
  {f \in set : f <= p.maxfd /\ e \in ready[f]}
wait(p, ready, of) ==
  LET q == [p EXCEPT !.readfds = Selected(p, p.in, ready, "in"),
                     !.writefds = Selected(p, p.out, ready, "out"),
                     !.exceptfds = Selected(p, p.err, ready, "err"),
                     !.seen = of]
  IN IF q.readfds \cup q.writefds \cup q.exceptfds = {} THEN {} ELSE {q}

count(p) == Len(p.fds)
item(p, i) ==
  LET f == p.fds[i].fd
  IN [valid |-> TRUE, live |-> f # 0, reactor |-> p.fds[i].reactor,
      of |-> IF f = 0 THEN 0 ELSE p.seen[f],
      ev |-> {e \in {"in", "out", "err"} :
                f \in CASE e = "in"  -> p.readfds
                        [] e = "out" -> p.writefds
                        [] e = "err" -> p.exceptfds}]

\* What is left of the array once its holes are taken out, one after the other.
WithoutHoles(s) ==
  LET rest[i \in 0..Len(s)] ==
        IF i = 0 THEN <<>>
        ELSE IF s[i].fd # 0 THEN Append(rest[i - 1], s[i]) ELSE rest[i - 1]
  IN rest[Len(s)]

cleanup(p) ==
  [p EXCEPT !.fds = WithoutHoles(@), !.retired = FALSE]

Watched(p) ==
  {<<x.reactor, x.fd, {e \in {"in", "out"} :
                         x.fd \in (IF e = "in" THEN p.in ELSE p.out)}>> :
     x \in {p.fds[i] : i \in {j \in DOMAIN p.fds :
              p.fds[j].fd # 0 /\ p.fds[j].fd <= p.maxfd
                              /\ p.fds[j].fd \in p.err}}}
=============================================================================
