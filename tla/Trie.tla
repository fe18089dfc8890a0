-------------------------------- MODULE Trie --------------------------------
(***************************************************************************)
(* zmq::trie_t and zmq::mtrie_t: prefixes with a reference count, and      *)
(* prefixes with the set of pipes that subscribed to them.  A node has a   *)
(* table of the nodes for the characters min .. min + count - 1, which     *)
(* grows at both sides and is compacted when its first or last node is     *)
(* pruned.  A method returns the new node t and its result ret; ok says    *)
(* whether its assertions held.                                            *)
(***************************************************************************)
EXTENDS Naturals, Sequences, FiniteSets

Null == [null |-> TRUE]
\* mark is refcnt of trie_t, or pipes of mtrie_t (no set when empty).
NewNode(mark) == [null |-> FALSE, mark |-> mark, min |-> 0, count |-> 0,
                  live_nodes |-> 0, next |-> <<>>]
NewTrie == NewNode(0)
NewMtrie == NewNode({})

Nulls(n) == SubSeq([i \in 1..n |-> Null], 1, n)
InRange(t, c) == c >= t.min /\ c < t.min + t.count
NodeAt(t, c) == t.next[c - t.min + 1]
HasNode(t, c) == InRange(t, c) /\ ~NodeAt(t, c).null
Result(t, ret, ok) == [t |-> t, ret |-> ret, ok |-> ok]

\* The table is extended so that it has a place for c.
Extend(t, c) ==
  IF InRange(t, c) THEN t
  ELSE IF t.count = 0 THEN [t EXCEPT !.min = c, !.count = 1, !.next = Nulls(1)]
  ELSE IF t.min < c
  THEN [t EXCEPT !.count = c - t.min + 1,
                 !.next = @ \o Nulls(c - t.min + 1 - t.count)]
  ELSE [t EXCEPT !.min = c, !.count = t.min + t.count - c,
                 !.next = Nulls(t.min - c) \o @]

\* The node for c, created when there is none.
Child(t, c, empty) ==
  IF NodeAt(t, c).null
  THEN [t EXCEPT !.next[c - t.min + 1] = empty, !.live_nodes = @ + 1] ELSE t

SetChild(t, c, node) == [t EXCEPT !.next[c - t.min + 1] = node]

\* The places of the nodes that exist.
Used(t) == {i \in DOMAIN t.next : ~t.next[i].null}
FirstUsed(t) == CHOOSE i \in Used(t) : \A j \in Used(t) : i <= j
LastUsed(t) == CHOOSE i \in Used(t) : \A j \in Used(t) : j <= i

Cut(t, from, to) ==
  [t EXCEPT !.min = @ + from - 1, !.count = to - from + 1,
            !.next = SubSeq(@, from, to)]

\* A table without nodes is freed.
NoTable(t) == [t EXCEPT !.count = 0, !.next = <<>>]

-----------------------------------------------------------------------------
(* trie_t *)

RECURSIVE add(_, _)
add(t, prefix) ==
  IF prefix = <<>>
  THEN Result([t EXCEPT !.mark = @ + 1], t.mark = 0, TRUE)
  ELSE LET c == Head(prefix)
           e == Child(Extend(t, c), c, NewTrie)
           r == add(NodeAt(e, c), Tail(prefix))
       IN Result(SetChild(e, c, r.t), r.ret,
                 r.ok /\ (e.count = 1 <=> e.live_nodes = 1))

is_redundant(t) == t.mark = 0 /\ t.live_nodes = 0

\* The node for c is pruned.  Of two nodes the other one is at the opposite
\* end of the table.
Prune(t, c) ==
  LET p == [SetChild(t, c, Null) EXCEPT !.live_nodes = @ - 1]
      atMin == c = t.min
      atMax == c = t.min + t.count - 1
  IN IF t.count = 1 THEN [t |-> NoTable(p), ok |-> p.live_nodes = 0]
     ELSE IF p.live_nodes = 1
     THEN LET i == IF atMin THEN t.count ELSE 1
          IN [t |-> Cut(p, i, i),
              ok |-> (atMin \/ atMax) /\ ~p.next[i].null]
     ELSE [t |-> IF atMin THEN Cut(p, FirstUsed(p), t.count)
                 ELSE IF atMax THEN Cut(p, 1, LastUsed(p)) ELSE p,
           ok |-> t.live_nodes > 1]

RECURSIVE rm(_, _)
rm(t, prefix) ==
  IF prefix = <<>>
  THEN IF t.mark = 0 THEN Result(t, FALSE, TRUE)
       ELSE Result([t EXCEPT !.mark = @ - 1], t.mark = 1, TRUE)
  ELSE IF ~HasNode(t, Head(prefix))
  THEN Result(t, FALSE, TRUE)
  ELSE LET c == Head(prefix)
           r == rm(NodeAt(t, c), Tail(prefix))
           s == SetChild(t, c, r.t)
           p == Prune(s, c)
       IN IF is_redundant(r.t) THEN Result(p.t, r.ret, r.ok /\ p.ok)
          ELSE Result(s, r.ret, r.ok)

RECURSIVE check(_, _)
check(t, data) ==
  IF t.mark # 0 THEN TRUE
  ELSE /\ data # <<>> /\ HasNode(t, Head(data))
       /\ check(NodeAt(t, Head(data)), Tail(data))

\* apply: the prefixes, in the order in which the function is called.
RECURSIVE apply(_, _)
apply(t, prefix) ==
  LET below[i \in 0..t.count] ==
        IF i = 0 THEN <<>>
        ELSE below[i - 1] \o
               IF t.next[i].null THEN <<>>
               ELSE apply(t.next[i], Append(prefix, t.min + i - 1))
  IN (IF t.mark # 0 THEN <<prefix>> ELSE <<>>) \o below[t.count]

-----------------------------------------------------------------------------
(* mtrie_t *)

RECURSIVE madd(_, _, _)
madd(t, prefix, pipe) ==
  IF prefix = <<>>
  THEN Result([t EXCEPT !.mark = @ \cup {pipe}], t.mark = {}, TRUE)
  ELSE LET c == Head(prefix)
           e == Child(Extend(t, c), c, NewMtrie)
           r == madd(NodeAt(e, c), Tail(prefix), pipe)
       IN Result(SetChild(e, c, r.t), r.ret, r.ok)

mis_redundant(t) == t.mark = {} /\ t.live_nodes = 0

\* The table is compacted to the nodes that are left.
Compact(t) ==
  IF t.live_nodes = 0 THEN NoTable(t)
  ELSE Cut(t, FirstUsed(t), LastUsed(t))

RECURSIVE mrm(_, _, _)
mrm(t, prefix, pipe) ==
  IF prefix = <<>>
  THEN Result([t EXCEPT !.mark = @ \ {pipe}], t.mark \ {pipe} = {},
              t.mark = {} \/ pipe \in t.mark)
  ELSE IF ~HasNode(t, Head(prefix))
  THEN Result(t, FALSE, TRUE)
  ELSE LET c == Head(prefix)
           r == mrm(NodeAt(t, c), Tail(prefix), pipe)
           s == SetChild(t, c, r.t)
           p == [SetChild(s, c, Null) EXCEPT !.live_nodes = @ - 1]
       IN IF mis_redundant(r.t)
          THEN Result(Compact(p), r.ret, r.ok /\ (Used(p) = {} <=> t.count = 1))
          ELSE Result(s, r.ret, r.ok)

\* rm of a pipe from all nodes; func is called for each prefix that loses its
\* last pipe: ret is the sequence of these.
RECURSIVE mrm_pipe(_, _, _)
mrm_pipe(t, pipe, prefix) ==
  LET gone == IF pipe \in t.mark /\ t.mark = {pipe} THEN <<prefix>> ELSE <<>>
      r == [i \in DOMAIN t.next |->
              IF t.next[i].null THEN Result(Null, <<>>, TRUE)
              ELSE mrm_pipe(t.next[i], pipe, Append(prefix, t.min + i - 1))]
      left == [i \in DOMAIN t.next |->
                 IF r[i].t.null \/ mis_redundant(r[i].t) THEN Null ELSE r[i].t]
      below[i \in 0..t.count] ==
        IF i = 0 THEN <<>> ELSE below[i - 1] \o r[i].ret
      n == [t EXCEPT !.mark = @ \ {pipe}, !.next = left,
                     !.live_nodes =
                       Cardinality({i \in DOMAIN left : ~left[i].null})]
  IN Result(Compact(n), gone \o below[t.count], TRUE)

\* match: the pipes for which the function is called.
RECURSIVE match(_, _)
match(t, data) ==
  t.mark \cup
    IF data = <<>> \/ ~HasNode(t, Head(data)) THEN {}
    ELSE match(NodeAt(t, Head(data)), Tail(data))

\* What the trie of publishers stores for a pipe.
RECURSIVE StoredFor(_, _, _)
StoredFor(t, pipe, prefix) ==
  (IF pipe \in t.mark THEN {prefix} ELSE {}) \cup
    UNION {StoredFor(t.next[i], pipe, Append(prefix, t.min + i - 1)) :
             i \in Used(t)}
=============================================================================
