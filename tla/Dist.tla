-------------------------------- MODULE Dist --------------------------------
(***************************************************************************)
(* zmq::dist_t: an array of pipes in which come first those that match the *)
(* message being sent, then the other active ones, then those that may be  *)
(* used from the next message on (eligible), then those that are full.     *)
(***************************************************************************)
EXTENDS PipeArray

NewDist == [pipes |-> <<>>, matching |-> 0, active |-> 0, eligible |-> 0,
            more |-> FALSE]

Indices(d, n) == {At(d.pipes, i) : i \in 0..n - 1}

dist_attach(d, p) ==
  LET items == Append(d.pipes, p)
      place == IF d.more THEN d.eligible ELSE d.active
  IN [d EXCEPT !.pipes = swap(items, place, Len(items) - 1),
               !.active = IF d.more THEN @ ELSE @ + 1, !.eligible = @ + 1]

dist_match(d, p) ==
  LET i == index(d.pipes, p)
  IN IF i < d.matching \/ i >= d.eligible THEN d
     ELSE [d EXCEPT !.pipes = swap(@, i, d.matching), !.matching = @ + 1]

unmatch(d) == [d EXCEPT !.matching = 0]

\* terminated: the last pipe takes the place of the one that has gone.
dist_terminated(d, p) ==
  LET i == index(d.pipes, p)
      less(n) == IF i < n THEN n - 1 ELSE n
  IN [d EXCEPT !.matching = less(@), !.active = less(@), !.eligible = less(@),
               !.pipes = erase(@, i)]

dist_activated(d, p) ==
  LET a == swap(d.pipes, index(d.pipes, p), d.eligible)
  IN IF d.more THEN [d EXCEPT !.pipes = a, !.eligible = @ + 1]
     ELSE [d EXCEPT !.pipes = swap(a, d.eligible, d.active),
                    !.eligible = @ + 1, !.active = @ + 1]

\* write, when the pipe does not take the part: it leaves all three ranges.
write_failed(d, p) ==
  LET a == swap(d.pipes, index(d.pipes, p), d.matching - 1)
      b == swap(a, index(a, p), d.active - 1)
  IN [d EXCEPT !.pipes = swap(b, d.active - 1, d.eligible - 1),
               !.matching = @ - 1, !.active = @ - 1, !.eligible = @ - 1]

\* send_to_matching, after the part was distributed.
dist_sent(d, more) ==
  [d EXCEPT !.more = more, !.active = IF more THEN @ ELSE d.eligible]
-----------------------------------------------------------------------------
(* msg_t: the content of a long message (type lmsg), which the pipes it is *)
(* distributed to share.  A message that is not shared has no counter: its *)
(* only holder frees the content.                                          *)

NoContent == [live |-> FALSE, shared |-> FALSE, refcnt |-> 0]
\* init_size and init_data.
NewContent == [live |-> TRUE, shared |-> FALSE, refcnt |-> 0]

\* atomic_counter_t::sub, and free when it drops to zero.
sub(c, refs) == [c EXCEPT !.refcnt = @ - refs, !.live = c.refcnt # refs]

close(c) == IF c.shared THEN sub(c, 1) ELSE [c EXCEPT !.live = FALSE]

\* Mutant of add_refs: the reference that exists is not counted.
AddOneLess(c, refs) ==
  IF refs = 0 THEN c
  ELSE IF c.shared THEN [c EXCEPT !.refcnt = @ + refs]
  ELSE [c EXCEPT !.shared = TRUE, !.refcnt = refs]

add_refs(c, refs) ==
  IF refs = 0 THEN c
  ELSE IF c.shared THEN [c EXCEPT !.refcnt = @ + refs]
  ELSE [c EXCEPT !.shared = TRUE, !.refcnt = refs + 1]

rm_refs(c, refs) ==
  IF refs = 0 THEN c ELSE IF c.shared THEN sub(c, refs) ELSE close(c)
=============================================================================
