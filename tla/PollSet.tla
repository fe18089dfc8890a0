------------------------------- MODULE PollSet -------------------------------
(***************************************************************************)
(* poll_t: the array given to poll, and a table that has the index and the *)
(* reactor of every descriptor.  A removed descriptor leaves a hole in the *)
(* array until the end of the pass, when the indices are set anew.         *)
(***************************************************************************)
EXTENDS Naturals, FiniteSets, Sequences

CONSTANTS Regs, Fds, MaxEvents

New == [pollset |-> <<>>, index |-> [f \in Fds |-> 0],
        reactor |-> [f \in Fds |-> 0], retired |-> FALSE, ok |-> TRUE]

add_fd(p, fd, r) ==
  [p EXCEPT !.pollset = Append(@, [fd |-> fd, events |-> {}, revents |-> {},
                                   of |-> 0]),
            !.ok = @ /\ p.index[fd] = 0,
            !.index[fd] = Len(p.pollset) + 1, !.reactor[fd] = r]

rm_fd(p, r, fd) ==
  IF p.index[fd] = 0 THEN [p EXCEPT !.ok = FALSE]
  ELSE [p EXCEPT !.pollset[p.index[fd]].fd = 0, !.index[fd] = 0,
                 !.retired = TRUE]

set_poll(p, r, fd, events) ==
  IF p.index[fd] \notin DOMAIN p.pollset THEN [p EXCEPT !.ok = FALSE]
  ELSE [p EXCEPT !.pollset[p.index[fd]].events = events]

begin(p) == p

\* poll fills in revents, and skips the holes.
wait(p, ready, of) ==
  LET Events(x) == IF x.fd = 0 THEN {}
                   ELSE ready[x.fd] \cap (x.events \cup {"err"})
      set == [i \in DOMAIN p.pollset |->
                [p.pollset[i] EXCEPT !.revents = Events(p.pollset[i]),
                   !.of = IF p.pollset[i].fd = 0 THEN 0
                          ELSE of[p.pollset[i].fd]]]
  IN IF \A i \in DOMAIN set : set[i].revents = {} THEN {}
     ELSE {[p EXCEPT !.pollset = set]}

count(p) == Len(p.pollset)
item(p, i) ==
  LET x == p.pollset[i]
  IN [valid |-> TRUE, live |-> x.fd # 0, ev |-> x.revents, of |-> x.of,
      reactor |-> IF x.fd = 0 THEN 0 ELSE p.reactor[x.fd]]

\* What is left of the array once its holes are taken out, one after the other.
WithoutHoles(s) ==
  LET rest[i \in 0..Len(s)] ==
        IF i = 0 THEN <<>>
        ELSE IF s[i].fd # 0 THEN Append(rest[i - 1], s[i]) ELSE rest[i - 1]
  IN rest[Len(s)]

\* Mutant of cleanup: fd_table keeps the old positions.
CleanupKeepsIndex(p) ==
  [p EXCEPT !.pollset = WithoutHoles(@), !.retired = FALSE]
cleanup(p) ==
  IF ~p.retired THEN p
  ELSE LET set == WithoutHoles(p.pollset)
       IN [p EXCEPT !.pollset = set, !.retired = FALSE,
             !.index = [f \in Fds |->
                          IF \E i \in DOMAIN set : set[i].fd = f
                          THEN CHOOSE i \in DOMAIN set : set[i].fd = f
                          ELSE @[f]]]

Watched(p) == {<<p.reactor[x.fd], x.fd, x.events>> :
                 x \in {p.pollset[i] : i \in {j \in DOMAIN p.pollset :
                                                p.pollset[j].fd # 0}}}
=============================================================================
