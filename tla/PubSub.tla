------------------------------- MODULE PubSub -------------------------------
(***************************************************************************)
(* A PUB or XPUB socket and SUB or XSUB sockets that connect to it and go. *)
(* Subscriptions travel up a pipe and messages travel down it; a full pipe *)
(* drops both.  Each side keeps its subscriptions in a trie.               *)
(***************************************************************************)
EXTENDS Trie, Dist, FiniteSetsExt

CONSTANTS
  S,             \* the subscribers; each has one pipe to the publisher
  Prefixes,      \* what may be subscribed to
  Topics,        \* the data of the messages
  Filters,       \* the subscribers that are SUB sockets (options.filter)
  SubHwm,        \* of each subscriber: its ZMQ_SNDHWM (0: no limit)
  PubHwm,        \* ZMQ_SNDHWM of the publisher
  MaxDistinct,   \* bound: different prefixes a subscriber has at a time
  Plans          \* bounds: the type of the publisher, whether it is verbose,
                 \* what each subscriber may subscribe to, how often it
                 \* (un)subscribes and connects,
                 \* how many messages are published, and how many
                 \* notifications the application of XPUB receives

ASSUME PubSubAssumption ==
  /\ Filters \subseteq S /\ MaxDistinct \in Nat
  /\ SubHwm \in [S -> Nat] /\ PubHwm \in Nat \ {0}
  /\ \A plan \in Plans :
       /\ plan.type \in {"PUB", "XPUB"} /\ plan.verbose => plan.type = "XPUB"
       /\ plan.prefixes \in [S -> SUBSET Prefixes]
       /\ plan.ops \in [S -> Nat] /\ plan.connects \in [S -> Nat]
       /\ plan.msgs \in Nat /\ plan.reads \in Nat

VARIABLES
  pub,       \* type, verbose, subscriptions, dist, pending, more
  subs,      \* of each subscriber: subscriptions, dist, message, more
  pipes,     \* of each subscriber: its pipe, from both ends
  content,   \* of each part: its content, shared by the pipes
  hist,      \* what was asked for and what happened
  left       \* what is left of the plan

vars == <<pub, subs, pipes, content, hist, left>>

\* The parts, all of them long messages: id is the message, n the part of it.
Keys == (1..Max({plan.msgs : plan \in Plans} \cup {1})) \X {1, 2}
NoPart == [id |-> 0, n |-> 0, topic |-> <<>>, more |-> FALSE]
\* sub and pub are the states of the two ends; up and down are the queues,
\* upUsed and downUsed the messages that count against the watermark.
NoPipe == [sub |-> "none", pub |-> "none", up |-> <<>>, upUsed |-> 0,
           upActive |-> TRUE, down |-> <<>>, downUsed |-> 0,
           downActive |-> TRUE]

Init ==
  /\ \E plan \in Plans :
       /\ left = [ops |-> plan.ops, connects |-> plan.connects,
                   prefixes |-> plan.prefixes,
                   msgs |-> plan.msgs, reads |-> plan.reads]
       /\ pub = [type |-> plan.type, verbose |-> plan.verbose,
                 subscriptions |-> NewMtrie,
                 dist |-> NewDist, pending |-> <<>>, more |-> FALSE]
  /\ subs = [s \in S |-> [subscriptions |-> NewTrie, dist |-> NewDist,
                          has_message |-> FALSE, message |-> NoPart,
                          more |-> FALSE]]
  /\ pipes = [s \in S |-> NoPipe]
  /\ content = [k \in Keys |-> NoContent]
  \* want: how often each prefix was subscribed to; sees: what the publisher
  \* was told; told: what the application of XPUB was told; lost: whether a
  \* (un)subscription was dropped; cut: whether it was when the subscriber
  \* connected; leaked: parts nobody will close.
  /\ hist = [want |-> [s \in S |-> [p \in Prefixes |-> 0]],
             sees |-> [s \in S |-> {}], told |-> {},
             got |-> [s \in S |-> NoPart],
             lost |-> [s \in S |-> FALSE], cut |-> [s \in S |-> FALSE], sent |-> NoPart, fault |-> {},
             leaked |-> {}]

-----------------------------------------------------------------------------
(* The subscribers. *)

UpFull(s, pp) == SubHwm[s] > 0 /\ pp.upUsed >= SubHwm[s]

\* pipe_t::write at the subscriber's end.
UpWritable(s, pp) == pp.upActive /\ pp.sub = "on" /\ ~UpFull(s, pp)
UpWrite(s, pp, q) ==
  IF UpWritable(s, pp)
  THEN [pp EXCEPT !.up = Append(@, q),
                  !.upUsed = IF SubHwm[s] = 0 THEN 0 ELSE @ + 1]
  ELSE [pp EXCEPT !.upActive = @ /\ pp.sub # "on"]

\* dist.send_to_all, at a subscriber's dist, which has at most one pipe.
send_to_all(s, x, pp, q) ==
  LET d == [x.dist EXCEPT !.matching = x.dist.active]
      sent == dist_sent(IF d.matching = 0 \/ UpWritable(s, pp) THEN d
                        ELSE write_failed(d, s), FALSE)
  IN /\ subs' = [subs EXCEPT ![s] = [x EXCEPT !.dist = sent]]
     /\ pipes' = [pipes EXCEPT ![s] = IF d.matching = 0 THEN pp
                                      ELSE UpWrite(s, pp, q)]

Distinct(s) == {p \in Prefixes : hist.want[s][p] > 0}

\* xsub_t::xsend, which sub_t::xsetsockopt calls.
xsend(s, adds, p) ==
  LET x == subs[s]
      r == IF adds THEN add(x.subscriptions, p) ELSE rm(x.subscriptions, p)
      y == [x EXCEPT !.subscriptions = r.t]
  IN IF r.ret THEN send_to_all(s, y, pipes[s], [adds |-> adds, prefix |-> p])
     ELSE subs' = [subs EXCEPT ![s] = y] /\ UNCHANGED pipes

Subscribe(s, p) ==
  /\ left.ops[s] > 0 /\ left' = [left EXCEPT !.ops[s] = @ - 1]
  /\ Cardinality(Distinct(s) \cup {p}) <= MaxDistinct
  /\ xsend(s, TRUE, p)
  /\ hist' = [hist EXCEPT !.want[s][p] = @ + 1,
                !.fault = @ \cup IF add(subs[s].subscriptions, p).ok THEN {}
                                 ELSE {"trie"},
                !.lost[s] = \/ @
                            \/ /\ hist.want[s][p] = 0 /\ pipes[s].sub = "on"
                               /\ Len(pipes'[s].up) = Len(pipes[s].up)]
  /\ UNCHANGED <<pub, content>>

Unsubscribe(s, p) ==
  /\ left.ops[s] > 0 /\ left' = [left EXCEPT !.ops[s] = @ - 1]
  /\ xsend(s, FALSE, p)
  /\ hist' = [hist EXCEPT
                !.want[s][p] = IF @ = 0 THEN 0 ELSE @ - 1,
                !.fault = @ \cup IF rm(subs[s].subscriptions, p).ok THEN {}
                                 ELSE {"trie"},
                !.lost[s] = \/ @
                            \/ /\ hist.want[s][p] = 1 /\ pipes[s].sub = "on"
                               /\ Len(pipes'[s].up) = Len(pipes[s].up)]
  /\ UNCHANGED <<pub, content>>

\* send_subscription, called by apply for each prefix.
RECURSIVE send_subscriptions(_, _, _)
send_subscriptions(s, pp, list) ==
  IF list = <<>> THEN pp
  ELSE LET q == [adds |-> TRUE, prefix |-> Head(list)]
       IN send_subscriptions(s, UpWrite(s, pp, q), Tail(list))

\* connect: xsub_t::xattach_pipe; the publisher will attach its end.  The
\* subscriptions are written to the pipe and not through dist_t, which does
\* not learn that the pipe has become full.
Connect(s) ==
  LET list == apply(subs[s].subscriptions, <<>>)
      fresh == [NoPipe EXCEPT !.sub = "on", !.pub = "coming"]
      pp == send_subscriptions(s, fresh, list)
  IN /\ left.connects[s] > 0 /\ left' = [left EXCEPT !.connects[s] = @ - 1]
     /\ pipes[s] = NoPipe
     /\ pipes' = [pipes EXCEPT ![s] = pp]
     /\ subs' = [subs EXCEPT ![s].dist = dist_attach(@, s)]
     /\ hist' = [hist EXCEPT !.lost[s] = Len(pp.up) < Len(list),
                             !.cut[s] = Len(pp.up) < Len(list)]
     /\ UNCHANGED <<pub, content>>

\* disconnect, between two messages: the pipe is being terminated.
Disconnect(s) ==
  /\ pipes[s].sub = "on" /\ ~subs[s].more
  /\ pipes' = [pipes EXCEPT ![s].sub = "off"]
  /\ UNCHANGED <<pub, subs, hist, content>>

\* The parts that were flushed: all up to the end of a message.
Flushed(q) ==
  LET ends == {i \in DOMAIN q : ~q[i].more}
  IN IF ends = {} THEN <<>> ELSE SubSeq(q, 1, Max(ends))

KeyOf(part) == <<part.id, part.n>>
CloseAll(parts) ==
  [k \in Keys |-> IF \E i \in DOMAIN parts : KeyOf(parts[i]) = k
                  THEN close(content[k]) ELSE content[k]]

\* The publisher has acknowledged: xsub_t::xterminated, then the messages
\* left in the pipe are closed, but not parts that were never flushed.
SubTerminated(s) ==
  LET q == pipes[s].down
      f == Flushed(q)
  IN /\ pipes[s].sub = "off" /\ pipes[s].pub = "ending" /\ pipes[s].up = <<>>
     /\ pipes' = [pipes EXCEPT ![s].sub = "none", ![s].down = <<>>]
     /\ subs' = [subs EXCEPT ![s].dist = dist_terminated(@, s)]
     /\ content' = CloseAll(f)
     /\ hist' = [hist EXCEPT !.leaked = @ \cup {<<s, KeyOf(q[i])>> :
                                               i \in Len(f) + 1..Len(q)}]
     /\ UNCHANGED pub

\* process_activate_write at the subscriber: one more message was read.
SubWriteActivated(s) ==
  LET pp == pipes[s]
      d == subs[s].dist
      wakes == ~pp.upActive /\ pp.sub = "on"
  IN /\ pp.sub \in {"on", "off"} /\ pp.upUsed > Len(pp.up)
     /\ pipes' = [pipes EXCEPT ![s].upUsed = @ - 1, ![s].upActive = @ \/ wakes]
     \* The pipe is swapped with the one at position eligible, which is beyond
     \* the array if dist_t has not noticed that the pipe was full.
     /\ IF wakes /\ d.eligible >= Len(d.pipes)
        THEN hist' = [hist EXCEPT !.fault = @ \cup {"bounds"}] /\ UNCHANGED subs
        ELSE /\ subs' = [subs EXCEPT ![s].dist =
                           IF wakes THEN dist_activated(@, s) ELSE @]
             /\ UNCHANGED hist
     /\ UNCHANGED <<pub, content>>

\* Mutant of Fetch: every part is filtered.
RECURSIVE FetchFiltering(_, _)
FetchFiltering(s, q) ==
  IF Flushed(q) = <<>> THEN [found |-> FALSE, part |-> NoPart, rest |-> q]
  ELSE IF s \notin Filters \/ check(subs[s].subscriptions, Head(q).topic)
  THEN [found |-> TRUE, part |-> Head(q), rest |-> Tail(q)]
  ELSE LET last == Min({i \in DOMAIN q : ~q[i].more})
       IN FetchFiltering(s, SubSeq(q, last + 1, Len(q)))

\* The loop of xrecv and xhas_in: the first part that is passed on, and what is
\* left of the queue; a message that does not match is dropped.
RECURSIVE Fetch(_, _)
Fetch(s, q) ==
  IF Flushed(q) = <<>> THEN [found |-> FALSE, part |-> NoPart, rest |-> q]
  ELSE IF \/ subs[s].more \/ s \notin Filters
          \/ check(subs[s].subscriptions, Head(q).topic)
  THEN [found |-> TRUE, part |-> Head(q), rest |-> Tail(q)]
  ELSE LET last == Min({i \in DOMAIN q : ~q[i].more})
       IN Fetch(s, SubSeq(q, last + 1, Len(q)))

\* The parts that left the queue.
Taken(s, f) ==
  SubSeq(pipes[s].down, 1, Len(pipes[s].down) - Len(f.rest))

Got(s, part) == hist' = [hist EXCEPT !.got[s] = part]

\* xrecv: a message that xhas_in has prepared comes first.  The application
\* closes the message it gets.
RecvPrepared(s) ==
  LET x == subs[s]
  IN /\ x.has_message
     /\ subs' = [subs EXCEPT ![s].has_message = FALSE, ![s].message = NoPart,
                             ![s].more = x.message.more]
     /\ Got(s, x.message) /\ content' = CloseAll(<<x.message>>)
     /\ UNCHANGED <<pub, pipes>>

Recv(s) ==
  LET f == Fetch(s, pipes[s].down)
  IN /\ pipes[s].sub = "on" /\ ~subs[s].has_message
     /\ pipes' = [pipes EXCEPT ![s].down = f.rest]
     /\ content' = CloseAll(Taken(s, f))
     /\ IF f.found
        THEN subs' = [subs EXCEPT ![s].more = f.part.more] /\ Got(s, f.part)
        ELSE UNCHANGED <<subs, hist>>
     /\ UNCHANGED pub

HasIn(s) ==
  LET f == Fetch(s, pipes[s].down)
  IN /\ pipes[s].sub = "on" /\ ~subs[s].has_message /\ ~subs[s].more
     /\ pipes' = [pipes EXCEPT ![s].down = f.rest]
     /\ subs' = [subs EXCEPT ![s].has_message = f.found, ![s].message = f.part]
     /\ content' = CloseAll(LET t == Taken(s, f)
                            IN SubSeq(t, 1, Len(t) - IF f.found THEN 1 ELSE 0))
     /\ UNCHANGED <<pub, hist>>

-----------------------------------------------------------------------------
(* The publisher. *)

Tell(told, notes) ==
  LET after[i \in 0..Len(notes)] ==
        IF i = 0 THEN told
        ELSE IF notes[i].adds THEN after[i - 1] \cup {notes[i].prefix}
        ELSE after[i - 1] \ {notes[i].prefix}
  IN after[Len(notes)]

Note(adds, p) == [adds |-> adds, prefix |-> p]

\* Mutant of ReadSub: only what is passed on is kept.
ReadSubUnique(s, w, q) ==
  LET r == IF q.adds THEN madd(w.pub.subscriptions, q.prefix, s)
           ELSE mrm(w.pub.subscriptions, q.prefix, s)
  IN [w EXCEPT !.pub.subscriptions = IF r.ret THEN r.t ELSE @,
               !.pub.pending = IF r.ret /\ w.pub.type = "XPUB" THEN Append(@, q)
                               ELSE @,
               !.sees = Tell(@, <<q>>)]

\* One turn of the loop of xpub_t::xread_activated.
ReadSub(s, w, q) ==
  LET r == IF q.adds THEN madd(w.pub.subscriptions, q.prefix, s)
           ELSE mrm(w.pub.subscriptions, q.prefix, s)
      passed == w.pub.type = "XPUB" /\ (r.ret \/ (q.adds /\ w.pub.verbose))
  IN [w EXCEPT !.pub.subscriptions = r.t,
               !.pub.pending = IF passed THEN Append(@, q) ELSE @,
               !.sees = Tell(@, <<q>>),
               !.fault = @ \cup IF r.ok THEN {} ELSE {"erased"}]

RECURSIVE ReadSubs(_, _, _)
ReadSubs(s, w, q) ==
  IF q = <<>> THEN w ELSE ReadSubs(s, ReadSub(s, w, Head(q)), Tail(q))

ReadAll(s, p) ==
  LET w == ReadSubs(s, [pub |-> p, sees |-> hist.sees[s], fault |-> hist.fault],
                    pipes[s].up)
  IN /\ pub' = w.pub
     /\ hist' = [hist EXCEPT !.sees[s] = w.sees, !.fault = w.fault]

\* process_bind: xpub_t::xattach_pipe.
PubAttach(s) ==
  /\ pipes[s].pub = "coming"
  /\ ReadAll(s, [pub EXCEPT !.dist = dist_attach(@, s)])
  /\ pipes' = [pipes EXCEPT ![s].pub = "on", ![s].up = <<>>]
  /\ UNCHANGED <<subs, content>>

xread_activated(s) ==
  /\ pipes[s].pub \in {"on", "ending"} /\ pipes[s].up # <<>>
  /\ ReadAll(s, pub)
  /\ pipes' = [pipes EXCEPT ![s].up = <<>>]
  /\ UNCHANGED <<subs, content>>

\* process_pipe_term: the pipe takes no more messages.
PubPipeTerm(s) ==
  /\ pipes[s].pub = "on" /\ pipes[s].sub = "off"
  /\ pipes' = [pipes EXCEPT ![s].pub = "ending"]
  /\ UNCHANGED <<pub, subs, hist, content>>

\* xpub_t::xterminated; send_unsubscription for each prefix without a pipe.
xterminated(s) ==
  LET r == mrm_pipe(pub.subscriptions, s, <<>>)
      notes == [i \in DOMAIN r.ret |-> Note(FALSE, r.ret[i])]
  IN /\ pipes[s].pub = "ending" /\ pipes[s].sub = "none"
     /\ pub' = [pub EXCEPT
                  !.subscriptions = r.t, !.dist = dist_terminated(@, s),
                  !.pending = IF pub.type = "PUB" THEN @ ELSE @ \o notes]
     /\ pipes' = [pipes EXCEPT ![s] = NoPipe]
     /\ hist' = [hist EXCEPT !.sees[s] = {}]
     /\ UNCHANGED <<subs, content>>

\* xpub_t::xrecv: the application takes a pending (un)subscription.
RecvSubscription ==
  /\ left.reads > 0 /\ left' = [left EXCEPT !.reads = @ - 1]
  /\ pub.pending # <<>>
  /\ pub' = [pub EXCEPT !.pending = Tail(@)]
  /\ hist' = [hist EXCEPT !.told = Tell(@, <<Head(pub.pending)>>)]
  /\ UNCHANGED <<subs, pipes, content>>

DownWritable(pp) == pp.downActive /\ pp.pub = "on" /\ pp.downUsed < PubHwm
\* pipe_t::write at the publisher's end; a message counts when it is complete.
DownWrite(pp, part) ==
  IF DownWritable(pp)
  THEN [pp EXCEPT !.down = Append(@, part),
                  !.downUsed = IF part.more THEN @ ELSE @ + 1]
  ELSE [pp EXCEPT !.downActive = @ /\ pp.pub # "on"]

\* Mutant of distribute: after a failed write it goes on with the next position.
RECURSIVE DistributeSkipping(_, _, _, _)
DistributeSkipping(d, pp, part, i) ==
  IF i >= d.matching THEN [dist |-> d, pipes |-> pp]
  ELSE LET s == At(d.pipes, i)
           after == [pp EXCEPT ![s] = DownWrite(@, part)]
           e == IF DownWritable(pp[s]) THEN d ELSE write_failed(d, s)
       IN DistributeSkipping(e, after, part, i + 1)

\* dist_t::distribute of a message with a shared content: after a failed write
\* another pipe is at position i.  (A very small one is copied to the same pipes.)
RECURSIVE distribute(_, _, _, _)
distribute(d, pp, part, i) ==
  IF i >= d.matching THEN [dist |-> d, pipes |-> pp]
  ELSE LET s == At(d.pipes, i)
           after == [pp EXCEPT ![s] = DownWrite(@, part)]
       IN IF DownWritable(pp[s]) THEN distribute(d, after, part, i + 1)
          ELSE distribute(write_failed(d, s), after, part, i)

Match(topic) == FoldSet(LAMBDA s, d : dist_match(d, s), pub.dist,
                        match(pub.subscriptions, topic))

\* xpub_t::xsend.
SendPart(part) ==
  LET d == IF pub.more THEN pub.dist ELSE Match(part.topic)
      r == distribute(d, pipes, part, 0)
      e == dist_sent(r.dist, part.more)
      c == IF d.matching = 0 THEN close(NewContent)
           ELSE rm_refs(add_refs(NewContent, d.matching - 1),
                        d.matching - r.dist.matching)
  IN /\ content' = [content EXCEPT ![KeyOf(part)] = c]
     /\ pub' = [pub EXCEPT !.more = part.more,
                           !.dist = IF part.more THEN e ELSE unmatch(e)]
     /\ pipes' = r.pipes
     /\ hist' = [hist EXCEPT !.sent = part]
     /\ UNCHANGED subs

SendFirst ==
  /\ ~pub.more /\ left.msgs > 0 /\ left' = [left EXCEPT !.msgs = @ - 1]
  /\ \E t \in Topics, more \in BOOLEAN :
       SendPart([id |-> hist.sent.id + 1, n |-> 1, topic |-> t, more |-> more])
SendRest ==
  /\ pub.more /\ UNCHANGED left
  /\ \E t \in Topics :
       SendPart([hist.sent EXCEPT !.n = 2, !.topic = t, !.more = FALSE])

Unread(pp) == Cardinality({i \in DOMAIN pp.down : ~pp.down[i].more})

\* process_activate_write at the publisher: xwrite_activated.
xwrite_activated(s) ==
  LET pp == pipes[s]
      wakes == ~pp.downActive /\ pp.pub = "on"
  IN /\ pp.pub \in {"on", "ending"} /\ pp.downUsed > Unread(pp)
     /\ pipes' = [pipes EXCEPT ![s].downUsed = @ - 1,
                               ![s].downActive = @ \/ wakes]
     /\ pub' = [pub EXCEPT !.dist = IF wakes THEN dist_activated(@, s) ELSE @]
     /\ UNCHANGED <<subs, hist, content>>

Next ==
  /\ hist.fault = {}
  /\ \/ \E s \in S : \E p \in left.prefixes[s] :
          Subscribe(s, p) \/ Unsubscribe(s, p)
     \/ \E s \in S : Connect(s)
     \/ SendFirst \/ SendRest \/ RecvSubscription
     \/ /\ UNCHANGED left
        /\ \E s \in S : \/ Disconnect(s) \/ SubTerminated(s)
                        \/ SubWriteActivated(s)
                        \/ RecvPrepared(s) \/ Recv(s) \/ HasIn(s)
                        \/ PubAttach(s) \/ xread_activated(s)
                        \/ PubPipeTerm(s) \/ xterminated(s)
                        \/ xwrite_activated(s)

Spec == Init /\ [][Next]_vars

-----------------------------------------------------------------------------
IsPrefix(p, data) == Len(p) <= Len(data) /\ SubSeq(data, 1, Len(p)) = p
Matches(set, data) == \E p \in set : IsPrefix(p, data)
Attached(s) == pipes[s].pub \in {"on", "ending"}

\* The type of every variable: the ranges of dist are nested, and each holds
\* the pipe of every attached subscriber once.
TypeOK ==
  LET Ordered(d) == /\ d.active <= d.eligible /\ d.eligible <= Len(d.pipes)
                    /\ d.matching <= d.eligible
                    /\ Cardinality(Range(d.pipes)) = Len(d.pipes)
  IN /\ Ordered(pub.dist) /\ pub.dist.matching <= pub.dist.active
     /\ pub.more = pub.dist.more
     /\ Range(pub.dist.pipes) = {s \in S : Attached(s)}
     /\ \A s \in S :
          /\ Ordered(subs[s].dist)
          /\ Range(subs[s].dist.pipes) = {x \in {s} : pipes[x].sub # "none"}
          /\ pipes[s].downUsed \in 0..PubHwm
          /\ SubHwm[s] > 0 => pipes[s].upUsed \in 0..SubHwm[s]
          /\ pipes[s].sub \in {"none", "on", "off"}
          /\ pipes[s].pub \in {"none", "coming", "on", "ending"}

\* The assertions of trie_t and mtrie_t hold, "erased == 1" of mtrie_t::rm as
\* long as no subscription was dropped at SNDHWM, and dist_t swaps within its
\* array, unless subscriptions were dropped when a subscriber connected.
AssertsHold ==
  /\ "trie" \notin hist.fault
  /\ "erased" \in hist.fault => \E s \in S : hist.lost[s]
  /\ "bounds" \in hist.fault => \E s \in S : hist.cut[s]

\* trie_t, whose tables grow and shrink with every call, counts the
\* subscriptions of each prefix: check finds what some prefix matches, and
\* apply visits each prefix once.
TrieCounts ==
  \A s \in S :
    LET t == subs[s].subscriptions
        list == apply(t, <<>>)
    IN /\ Range(list) = Distinct(s) /\ Len(list) = Cardinality(Distinct(s))
       /\ \A data \in Topics : check(t, data) <=> Matches(Distinct(s), data)

\* mtrie_t keeps for each pipe the prefixes that were read from it, whatever
\* the other pipes subscribe to and whichever of them go.
MtrieAgrees ==
  \A s \in S :
    /\ StoredFor(pub.subscriptions, s, <<>>) = hist.sees[s]
    /\ Attached(s) \/ hist.sees[s] = {}

\* Once the publisher has read what is in the pipe it knows exactly what a
\* connected subscriber wants, whatever the order of subscriptions, connections
\* and disconnections; the exception is a (un)subscription dropped at SNDHWM.
SubscriptionsArrive ==
  \A s \in S : pipes[s].sub = "on" /\ ~hist.lost[s] =>
                 Tell(hist.sees[s], pipes[s].up) = Distinct(s)

\* The application of an XPUB that applies all notifications, read or pending,
\* knows what the subscribers subscribe to together.
NotifiedIsSubscribed ==
  pub.type = "XPUB" =>
    Tell(hist.told, pub.pending) = UNION {hist.sees[s] : s \in S}

\* A subscriber is left out of the eligible pipes of dist_t only while its
\* pipe is full and will be activated, or is going: nobody is forgotten.  At
\* its own end the pipe is eligible exactly while it may be written to, with
\* the same exception as above.
NobodyForgotten ==
  \A s \in S :
    /\ pipes[s].pub = "on" /\ pipes[s].downActive =>
         s \in Indices(pub.dist, pub.dist.eligible)
    /\ pipes[s].sub = "on" /\ ~hist.cut[s] =>
         (pipes[s].upActive <=> subs[s].dist.eligible = 1)

\* The first part of a message is written to exactly those pipes that can take
\* it and whose subscriptions match, and each further part to the pipes that
\* took the first.
MatchingGetIt ==
  [][\A s \in S :
       LET grows == Len(pipes'[s].down) > Len(pipes[s].down)
       IN /\ pub.more = FALSE /\ hist'.sent # hist.sent =>
               (grows <=> /\ Attached(s) /\ DownWritable(pipes[s])
                          /\ Matches(hist.sees[s], hist'.sent.topic))
          /\ hist'.sent.n = 2 /\ hist.sent.n = 1 /\ hist'.sent # hist.sent
               /\ pipes[s].pub = "on" =>
               (grows <=> /\ pipes[s].down # <<>>
                          /\ pipes[s].down[Len(pipes[s].down)].more)]_vars

\* The content of a part, sent to several pipes, some of which refuse it, is
\* freed when its last holder closes it and not before: its references are
\* the pipes and prepared messages that hold it.
ContentCounted ==
  \A k \in Keys :
    LET Holds(s) ==
          \/ subs[s].has_message /\ KeyOf(subs[s].message) = k
          \/ \E i \in DOMAIN pipes[s].down : KeyOf(pipes[s].down[i]) = k
          \/ <<s, k>> \in hist.leaked
        refs == Cardinality({s \in S : Holds(s)})
    IN /\ content[k].live <=> refs > 0
       /\ content[k].live => IF content[k].shared THEN content[k].refcnt = refs
                             ELSE refs = 1

\* What the application receives are whole messages, each of which matched its
\* subscriptions when it was taken from the pipe, whether xhas_in or xrecv
\* took it.
ReceivesWhole ==
  [][\A s \in S :
       LET old == hist.got[s]
           new == hist'.got[s]
       IN new # old =>
            /\ IF old.more THEN new.id = old.id /\ new.n = old.n + 1
               ELSE new.n = 1
            /\ s \in Filters /\ new.n = 1 /\ ~subs[s].has_message =>
                 Matches(Distinct(s), new.topic)]_vars

\* The ranges of dist_t are nested, no assertion fails, nobody who can be
\* written to is left out, and the contents that pipes share are counted.
PubSubSound == TypeOK /\ AssertsHold /\ NobodyForgotten /\ ContentCounted

\* Subscribers, publisher and application agree on the subscriptions: the trie
\* of a subscriber, the trie of the publisher with what is on its way, and the
\* notifications.
SubscriptionsAgree ==
  TrieCounts /\ MtrieAgrees /\ SubscriptionsArrive /\ NotifiedIsSubscribed
=============================================================================
