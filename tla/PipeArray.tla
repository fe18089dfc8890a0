----------------------------- MODULE PipeArray ------------------------------
(***************************************************************************)
(* zmq::array_t as a sequence whose indices, as in the code, start at 0,   *)
(* and what zmq::fq_t and zmq::lb_t share: an array of pipes, the first    *)
(* "active" of which can be used, and the "current" one.                   *)
(***************************************************************************)
EXTENDS Naturals, Sequences

At(items, i) == items[i + 1]

index(items, p) == (CHOOSE i \in DOMAIN items : items[i] = p) - 1

swap(items, i, j) ==
  [items EXCEPT ![i + 1] = items[j + 1], ![j + 1] = items[i + 1]]

\* erase: the last item takes the place of the erased one.
erase(items, i) ==
  SubSeq([items EXCEPT ![i + 1] = items[Len(items)]], 1, Len(items) - 1)

-----------------------------------------------------------------------------
EmptyArray == [pipes |-> <<>>, active |-> 0, current |-> 0, more |-> FALSE,
               dropping |-> FALSE]

Current(a) == At(a.pipes, a.current)
ActivePipes(a) == {At(a.pipes, i) : i \in 0..a.active - 1}

\* attach: the new pipe is the last of the active ones.
attach(a, p) ==
  LET items == Append(a.pipes, p)
  IN [a EXCEPT !.pipes = swap(items, a.active, Len(items) - 1),
               !.active = @ + 1]

\* activated: the pipe becomes the last of the active ones.
activated(a, p) ==
  [a EXCEPT !.pipes = swap(@, index(@, p), a.active), !.active = @ + 1]

\* What remains of the array when the pipe at position i is not active.
deactivate(a, i) ==
  LET last == a.active - 1
  IN [a EXCEPT !.active = last, !.pipes = swap(@, i, last),
               !.current = IF @ = last THEN 0 ELSE @]

\* terminated: lb_t also drops the rest of a message for that pipe.
terminated(a, p, dropsRest) ==
  LET i == index(a.pipes, p)
      b == IF i < a.active THEN deactivate(a, i) ELSE a
  IN [b EXCEPT !.pipes = erase(@, index(@, p)),
               !.dropping = \/ @
                            \/ dropsRest /\ i = a.current /\ a.more]

\* A part is read from, or written to, the current pipe: after the last part
\* of a message it is the next pipe's turn.
advance(a, more) ==
  [a EXCEPT !.more = more,
            !.current = IF more THEN @ ELSE (@ + 1) % a.active]

\* lb_t::send leaves a current pipe that is full.
lb_skip(a) ==
  IF a.current < a.active - 1
  THEN [a EXCEPT !.active = @ - 1, !.pipes = swap(@, a.current, a.active - 1)]
  ELSE [a EXCEPT !.active = @ - 1, !.current = 0]
=============================================================================
