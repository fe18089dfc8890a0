------------------------------ MODULE Patterns ------------------------------
(***************************************************************************)
(* One socket of type PULL, PUSH, PAIR, DEALER, ROUTER, REQ or REP, the    *)
(* application that uses it part by part, and its peers at the other ends  *)
(* of its pipes.  Between two calls of the application the socket          *)
(* processes commands: pipes are attached, wake up and go, also in the     *)
(* middle of a message.                                                    *)
(*                                                                         *)
(* Operators on the record w are methods of the socket; w is the state of  *)
(* its pipes and of the object.  A method that may fail returns ok, the    *)
(* part it read and the new w.                                             *)
(***************************************************************************)
EXTENDS PipeArray, FiniteSets

CONSTANTS
  P,             \* the pipes that may be attached
  Types,         \* the types of socket
  Hwm,           \* messages a peer lets wait
  MaxMsgs,       \* bound: messages the peers and the application send
  MidMessage     \* bound: whether the application disconnects a pipe while
                 \* it reads a message

ASSUME PatternsAssumption ==
  /\ Hwm \in Nat \ {0} /\ MaxMsgs \in Nat
  /\ MidMessage \in BOOLEAN
  /\ Types \subseteq {"PULL", "PUSH", "PAIR", "DEALER", "ROUTER", "REQ", "REP"}

None == "none"
Delim == [k |-> "delimiter", more |-> FALSE, tag |-> None, n |-> 0]

\* A part: its kind, the flag more, the pipe it came from or is meant for,
\* and its place in the message.
Part(k, more, tag, n) == [k |-> k, more |-> more, tag |-> tag, n |-> n]
Id(p) == Part("id", FALSE, p, 1)
Single(p) == <<Part("body", FALSE, p, 1)>>
Double(p) == <<Part("body", TRUE, p, 1), Part("body", FALSE, p, 2)>>
WithBottom(p) == <<Part("bottom", TRUE, p, 1), Part("body", FALSE, p, 2)>>

VARIABLES
  type,      \* the type of the socket
  w,         \* pipes, fq, lb and the other members of the socket
  peer,      \* of each pipe: what its peer has done
  app        \* where the application is in the message it sends

vars == <<type, w, peer, app>>

NoPipe == [st |-> "none", inq |-> <<>>, in_active |-> TRUE, outq |-> <<>>,
           out_active |-> TRUE, wake |-> FALSE, unacked |-> 0]

Init ==
  /\ type \in Types
  /\ \E m \in (IF type = "ROUTER" THEN BOOLEAN ELSE {FALSE}) :
       w = [pipes |-> [p \in P |-> NoPipe], fq |-> EmptyArray,
            lb |-> EmptyArray, prefetched |-> <<>>,
            prefetched_id |-> None, identity_sent |-> FALSE,
            more_in |-> FALSE, more_out |-> FALSE, current_out |-> None,
            mandatory |-> m, anonymous |-> {}, identity |-> [p \in P |-> None],
            receiving_reply |-> FALSE, sending_reply |-> FALSE,
            begins |-> TRUE, pair |-> None, asker |-> None,
            last |-> Delim, skips |-> [p \in P |-> 0], bad |-> {}]
  /\ peer = [p \in P |-> [identified |-> FALSE, open |-> FALSE]]
  /\ app = [sent |-> 0, part |-> 0, size |-> 0, to |-> None,
            promised |-> FALSE, arrived |-> 0]

Fail(v) == [ok |-> FALSE, part |-> Delim, w |-> v]
zmq_assert(v, cond, what) == IF cond THEN v ELSE [v EXCEPT !.bad = @ \cup {what}]

UsesFq == type \in {"PULL", "DEALER", "ROUTER", "REQ", "REP"}
UsesLb == type \in {"PUSH", "DEALER", "REQ"}
Routes == type \in {"ROUTER", "REP"}

-----------------------------------------------------------------------------
(* pipe_t, as module Pipe has it *)

Readable(v, p) ==
  v.pipes[p].in_active /\ v.pipes[p].st \in {"active", "pending"}

\* The reader meets an empty pipe or a delimiter.
ReadNothing(v, p) ==
  IF ~Readable(v, p) THEN v
  ELSE IF v.pipes[p].inq = <<>> THEN [v EXCEPT !.pipes[p].in_active = FALSE]
  ELSE [v EXCEPT !.pipes[p].inq = Tail(@),
                 !.pipes[p].st = IF @ = "active" THEN "delimited"
                                 ELSE "terminating"]

HasPart(v, p) == /\ Readable(v, p)
                 /\ v.pipes[p].inq # <<>> /\ Head(v.pipes[p].inq) # Delim

read(v, p) ==
  IF ~HasPart(v, p) THEN Fail(ReadNothing(v, p))
  ELSE [ok |-> TRUE, part |-> Head(v.pipes[p].inq),
        w |-> [v EXCEPT !.pipes[p].inq = Tail(@)]]

WholeMessages(q) == Cardinality({i \in DOMAIN q : ~q[i].more})

Full(v, p) == WholeMessages(v.pipes[p].outq) + v.pipes[p].unacked >= Hwm

check_write(v, p) ==
  LET can == v.pipes[p].out_active /\ v.pipes[p].st = "active"
  IN [ok |-> can /\ ~Full(v, p),
      w |-> [v EXCEPT !.pipes[p].out_active = @ /\ (can => ~Full(v, p))]]

write(v, p, part) ==
  LET c == check_write(v, p)
  IN IF c.ok THEN [c EXCEPT !.w.pipes[p].outq = Append(@, part)] ELSE c

\* terminate, by this end.
terminate(v, p) ==
  [v EXCEPT !.pipes[p].st = IF @ \in {"active", "delimited"} THEN "terminated"
                            ELSE @]

-----------------------------------------------------------------------------
(* fq_t *)

\* What the application has met of the message it reads, and how often a
\* pipe with a message was passed over.
Seen(v, part) ==
  LET whole == IF v.last.more THEN /\ part.tag = v.last.tag
                                   /\ part.n = v.last.n + 1
               ELSE part.n = 1
  IN [zmq_assert(v, whole, "parts of two messages are mixed")
        EXCEPT !.last = part,
               !.skips = [p \in P |->
                 IF part.tag = p \/ part.more THEN 0
                 ELSE IF p \in ActivePipes(v.fq) /\ HasPart(v, p)
                 THEN @[p] + 1 ELSE @[p]]]

RECURSIVE recvpipe(_)
recvpipe(v) ==
  IF v.fq.active = 0 THEN Fail(v)
  ELSE LET r == read(v, Current(v.fq))
       IN IF r.ok
          THEN [r EXCEPT !.w = [Seen(@, r.part)
                                  EXCEPT !.fq = advance(@, r.part.more)]]
          ELSE IF v.fq.more THEN Fail(zmq_assert(r.w, FALSE, "fq: !more"))
          ELSE recvpipe([r.w EXCEPT !.fq = deactivate(@, @.current)])

RECURSIVE fq_has_in(_)
fq_has_in(v) ==
  IF v.fq.more THEN [ok |-> TRUE, w |-> v]
  ELSE IF v.fq.active = 0 THEN [ok |-> FALSE, w |-> v]
  ELSE IF HasPart(v, Current(v.fq)) THEN [ok |-> TRUE, w |-> v]
  ELSE fq_has_in([ReadNothing(v, Current(v.fq))
                    EXCEPT !.fq = deactivate(@, @.current)])

\* DEALER and ROUTER skip an identity that comes after a reconnection.
RECURSIVE RecvNoIdentity(_)
RecvNoIdentity(v) ==
  LET Skip(r) == IF r.ok /\ r.part.k = "id" THEN RecvNoIdentity(r.w) ELSE r
  IN Skip(recvpipe(v))

-----------------------------------------------------------------------------
(* lb_t *)

RECURSIVE LbFind(_, _)
LbFind(v, part) ==
  IF v.lb.active = 0 THEN [ok |-> FALSE, w |-> v]
  ELSE LET r == write(v, Current(v.lb), part)
       IN IF r.ok THEN r
          ELSE IF v.lb.more
          THEN [ok |-> FALSE, w |-> zmq_assert(r.w, FALSE, "lb: !more")]
          ELSE LbFind([r.w EXCEPT !.lb = lb_skip(@)], part)

\* Mutant of lb_send: the rest of a message whose pipe has gone is not dropped.
SendRestElsewhere(v, part) ==
  LET r == LbFind([v EXCEPT !.lb.more = @ /\ ~v.lb.dropping,
                            !.lb.dropping = FALSE], part)
  IN IF r.ok THEN [r EXCEPT !.w.lb = advance(@, part.more)] ELSE r

lb_send(v, part) ==
  IF v.lb.dropping
  THEN [ok |-> TRUE, w |-> [v EXCEPT !.lb.more = part.more,
                                     !.lb.dropping = part.more]]
  ELSE LET r == LbFind(v, part)
       IN IF r.ok THEN [r EXCEPT !.w.lb = advance(@, part.more)] ELSE r

RECURSIVE lb_has_out(_)
lb_has_out(v) ==
  IF v.lb.more THEN [ok |-> TRUE, w |-> v]
  ELSE IF v.lb.active = 0 THEN [ok |-> FALSE, w |-> v]
  ELSE LET c == check_write(v, Current(v.lb))
       IN IF c.ok THEN c
          ELSE lb_has_out([c.w EXCEPT !.lb = deactivate(@, @.current)])

-----------------------------------------------------------------------------
(* dealer_t and req_t *)

dealer_recv(v) ==
  IF v.prefetched # <<>>
  THEN [ok |-> TRUE, part |-> Head(v.prefetched),
        w |-> [v EXCEPT !.prefetched = <<>>]]
  ELSE RecvNoIdentity(v)

\* Mutant of dealer_has_in: the message read ahead is not kept.
HasInForgets(v) ==
  LET r == dealer_recv(v) IN [ok |-> r.ok, w |-> r.w]

dealer_has_in(v) ==
  IF v.prefetched # <<>> THEN [ok |-> TRUE, w |-> v]
  ELSE LET r == dealer_recv(v)
       IN [ok |-> r.ok,
           w |-> IF r.ok THEN [r.w EXCEPT !.prefetched = <<r.part>>] ELSE r.w]

\* The bottom of the address stack goes before the first part.
req_send(v, part) ==
  LET b == IF v.begins
           THEN lb_send(v, Part("bottom", TRUE, part.tag, 0))
           ELSE [ok |-> TRUE, w |-> v]
      r == lb_send([b.w EXCEPT !.begins = FALSE], part)
  IN IF ~b.ok THEN b
     ELSE IF ~r.ok THEN r
     ELSE [r EXCEPT !.w.receiving_reply = ~part.more, !.w.begins = ~part.more]

\* A reply without a bottom is read to its end and ignored.
RECURSIVE ReqDrop(_)
ReqDrop(v) ==
  LET Drop(r) ==
        IF ~r.ok THEN Fail(zmq_assert(r.w, FALSE, "req: rc == 0"))
        ELSE IF r.part.more THEN ReqDrop(r.w) ELSE Fail(r.w)
  IN Drop(dealer_recv(v))

ReqBody(r) ==
  IF ~r.ok THEN r
  ELSE [r EXCEPT !.w.receiving_reply = r.part.more, !.w.begins = ~r.part.more]

\* The part b must be the bottom of a message that goes on.
ReqBottom(b) ==
  IF ~b.ok THEN b
  ELSE IF b.part.k # "bottom" \/ ~b.part.more THEN ReqDrop(b.w)
  ELSE ReqBody(dealer_recv([b.w EXCEPT !.begins = FALSE]))

req_recv(v) ==
  IF v.begins THEN ReqBottom(dealer_recv(v)) ELSE ReqBody(dealer_recv(v))

-----------------------------------------------------------------------------
(* router_t and rep_t *)

Known(v, p) == v.identity[p] # None

\* identify_peer: an empty identity is replaced by a generated one, p itself;
\* a peer with an identity that is taken is ignored.
identify_peer(v, p) ==
  LET r == read(v, p)
      free == \A q \in P : v.identity[q] # r.part.tag
  IN [ok |-> r.ok /\ free,
      w |-> IF r.ok /\ free
            THEN [r.w EXCEPT !.identity[p] = r.part.tag,
                             !.fq = attach(@, p), !.anonymous = @ \ {p}]
            ELSE [r.w EXCEPT !.anonymous = @ \cup {p}]]

router_send(v, part) ==
  LET to == {p \in P : Known(v, p) /\ v.identity[p] = part.tag}
      dest == IF to = {} THEN None ELSE CHOOSE p \in to : TRUE
      a == zmq_assert(v, v.current_out = None, "router: !current_out")
      c == IF dest = None THEN [ok |-> FALSE, w |-> a] ELSE check_write(a, dest)
      r == write(v, v.current_out, part)
  IN IF ~v.more_out
     THEN IF ~part.more THEN [ok |-> TRUE, w |-> a]
          ELSE IF dest = None /\ v.mandatory THEN [ok |-> FALSE, w |-> a]
          ELSE [ok |-> TRUE,
                w |-> [c.w EXCEPT !.more_out = TRUE,
                                  !.current_out = IF c.ok THEN dest ELSE None]]
     ELSE IF v.current_out = None
     THEN [ok |-> TRUE, w |-> [v EXCEPT !.more_out = part.more]]
     ELSE [ok |-> TRUE,
           w |-> [r.w EXCEPT !.more_out = part.more,
                             !.current_out = IF r.ok /\ part.more THEN @
                                             ELSE None]]

\* A queue without the parts of a message that is not complete.
WithoutRest(q) ==
  LET ends == {i \in DOMAIN q : ~q[i].more}
  IN IF ends = {} THEN <<>>
     ELSE SubSeq(q, 1, CHOOSE i \in ends : \A j \in ends : j <= i)

\* rollback: the parts written so far are taken back.
router_rollback(v) ==
  IF v.current_out = None THEN v
  ELSE [v EXCEPT !.more_out = FALSE, !.current_out = None,
                 !.pipes[v.current_out].outq = WithoutRest(@)]

\* The first part of a message is kept, and the identity of its peer given.
Prefetch(r) ==
  LET p == r.part.tag
  IN [ok |-> TRUE, part |-> Part("id", TRUE, r.w.identity[p], 0),
      w |-> [r.w EXCEPT !.prefetched = <<r.part>>,
                        !.prefetched_id = r.w.identity[p]]]

router_recv(v) ==
  IF v.prefetched # <<>>
  THEN LET id == Part("id", TRUE, v.prefetched_id, 0)
       IN IF ~v.identity_sent
          THEN [ok |-> TRUE, part |-> id,
                w |-> [v EXCEPT !.identity_sent = TRUE, !.more_in = TRUE]]
          ELSE [ok |-> TRUE, part |-> Head(v.prefetched),
                w |-> [v EXCEPT !.prefetched = <<>>,
                                !.more_in = Head(v.prefetched).more]]
  ELSE LET First(r) == IF ~r.ok THEN r
                       ELSE IF v.more_in
                       THEN [r EXCEPT !.w.more_in = r.part.more]
                       ELSE [Prefetch(r) EXCEPT !.w.identity_sent = TRUE]
       IN First(RecvNoIdentity(v))

router_has_in(v) ==
  IF v.more_in \/ v.prefetched # <<>> THEN [ok |-> TRUE, w |-> v]
  ELSE LET r == RecvNoIdentity(v)
       IN IF r.ok THEN [ok |-> TRUE, w |-> [Prefetch(r).w EXCEPT
                                              !.identity_sent = FALSE]]
          ELSE [ok |-> FALSE, w |-> r.w]

\* The address stack of a request is copied to the reply pipe; the stack of a
\* malformed request is taken back and the next request is read.
RECURSIVE RepAddress(_)
RepAddress(v) ==
  LET Copy(r) ==
        IF ~r.ok THEN r
        ELSE IF ~r.part.more THEN RepAddress(router_rollback(r.w))
        ELSE IF r.part.k = "bottom"
        THEN [r EXCEPT !.w = [router_send(@, r.part).w
                                EXCEPT !.begins = FALSE, !.asker = r.part.tag]]
        ELSE RepAddress(router_send(r.w, r.part).w)
  IN Copy(router_recv(v))

RepBody(r) ==
  IF ~r.ok THEN r
  ELSE [r EXCEPT !.w.sending_reply = ~r.part.more, !.w.begins = ~r.part.more]

rep_recv(v) ==
  LET Address(a) == IF a.ok THEN RepBody(router_recv(a.w)) ELSE a
  IN IF v.begins THEN Address(RepAddress(v)) ELSE RepBody(router_recv(v))

rep_send(v, part) ==
  LET r == router_send(v, part)
  IN IF r.ok THEN [r EXCEPT !.w.sending_reply = part.more] ELSE r

-----------------------------------------------------------------------------
(* The methods a socket type provides *)

xattach_pipe(v, p) ==
  CASE Routes -> identify_peer(v, p).w
    [] type = "PAIR" -> IF v.pair = None THEN [v EXCEPT !.pair = p]
                        ELSE terminate(v, p)
    [] OTHER -> [v EXCEPT !.fq = IF UsesFq THEN attach(@, p) ELSE @,
                          !.lb = IF UsesLb THEN attach(@, p) ELSE @]

\* Mutant of xread_activated: the pipe stays in the passive part of fq_t.
ReadActivatedIgnored(v, p) ==
  IF Routes /\ p \in v.anonymous THEN identify_peer(v, p).w ELSE v

xread_activated(v, p) ==
  CASE Routes /\ p \in v.anonymous -> identify_peer(v, p).w
    [] UsesFq /\ p \notin v.anonymous -> [v EXCEPT !.fq = activated(@, p)]
    [] OTHER -> v

xwrite_activated(v, p) ==
  CASE UsesLb -> [v EXCEPT !.lb = activated(@, p)]
    [] Routes -> zmq_assert(v, Known(v, p), "router: it != outpipes.end ()")
    [] OTHER -> v

xterminated(v, p) ==
  CASE Routes /\ p \in v.anonymous -> [v EXCEPT !.anonymous = @ \ {p}]
    [] Routes /\ p \notin v.anonymous ->
         [v EXCEPT !.identity[p] = None, !.fq = terminated(@, p, FALSE),
                   !.current_out = IF @ = p THEN None ELSE @]
    [] type = "PAIR" -> [v EXCEPT !.pair = IF @ = p THEN None ELSE @]
    [] OTHER -> [v EXCEPT !.fq = IF UsesFq THEN terminated(@, p, FALSE) ELSE @,
                          !.lb = IF UsesLb THEN terminated(@, p, TRUE) ELSE @]

xrecv(v) ==
  CASE type = "PULL" -> recvpipe(v)
    [] type = "PAIR" -> IF v.pair = None THEN Fail(v) ELSE read(v, v.pair)
    [] type = "DEALER" -> dealer_recv(v)
    [] type = "REQ" -> req_recv(v)
    [] type = "ROUTER" -> router_recv(v)
    [] type = "REP" -> rep_recv(v)

xsend(v, part) ==
  CASE type \in {"PUSH", "DEALER"} -> lb_send(v, part)
    [] type = "PAIR" -> IF v.pair = None THEN [ok |-> FALSE, w |-> v]
                        ELSE write(v, v.pair, part)
    [] type = "REQ" -> req_send(v, part)
    [] type = "ROUTER" -> router_send(v, part)
    [] type = "REP" -> rep_send(v, part)

xhas_in(v) ==
  CASE type = "PULL" -> fq_has_in(v)
    [] type = "PAIR" ->
         IF v.pair = None THEN [ok |-> FALSE, w |-> v]
         ELSE IF HasPart(v, v.pair) THEN [ok |-> TRUE, w |-> v]
         ELSE [ok |-> FALSE, w |-> ReadNothing(v, v.pair)]
    [] type \in {"DEALER", "REQ"} -> dealer_has_in(v)
    [] Routes -> router_has_in(v)

xhas_out(v) ==
  CASE UsesLb -> lb_has_out(v)
    [] type = "PAIR" /\ v.pair # None -> check_write(v, v.pair)
    [] OTHER -> [ok |-> FALSE, w |-> v]

-----------------------------------------------------------------------------
(* The peers *)

Running == w.bad = {}

\* The reader is woken when it has found the pipe empty.
Deliver(v, p, parts) ==
  [v EXCEPT !.pipes[p].inq = @ \o parts,
            !.pipes[p].wake = @ \/ ~v.pipes[p].in_active]

SharedId == "shared"

\* Fewer messages for the types that also send and read at any time.
Budget == IF type \in {"DEALER", "ROUTER"} THEN MaxMsgs - 1 ELSE MaxMsgs

\* What a peer may send.  The session of a REQ socket lets only replies with
\* a bottom pass (req_session_t::push_msg); a REP socket gets any request.
\* REQ and DEALER ignore the identity of a peer.
Messages(p) ==
  CASE type = "REQ" -> {WithBottom(p), <<Id(p)>>}
    [] type = "DEALER" -> {Single(p), Double(p), <<Id(p)>>}
    [] type = "REP" -> {WithBottom(p), Single(p)}
    [] OTHER -> {Single(p), Double(p)}

PeerIdentifies(p) ==
  /\ Running
  /\ Routes /\ peer[p].open /\ ~peer[p].identified
  /\ \E id \in {p, SharedId} : w' = Deliver(w, p, <<Id(id)>>)
  /\ peer' = [peer EXCEPT ![p].identified = TRUE]
  /\ UNCHANGED <<type, app>>

PeerSends(p) ==
  /\ Running
  /\ type # "PUSH"
  /\ peer[p].open /\ (Routes => peer[p].identified)
  /\ app.arrived + app.sent < Budget
  /\ \E m \in Messages(p) : w' = Deliver(w, p, m)
  /\ app' = [app EXCEPT !.arrived = @ + 1]
  /\ UNCHANGED <<type, peer>>

PeerReads(p) ==
  /\ Running
  /\ peer[p].open
  /\ \E i \in DOMAIN w.pipes[p].outq :
       /\ ~w.pipes[p].outq[i].more
       /\ \A j \in 1..i - 1 : w.pipes[p].outq[j].more
       /\ w' = [w EXCEPT !.pipes[p].outq = SubSeq(@, i + 1, Len(@)),
                         !.pipes[p].unacked = @ + 1]
  /\ UNCHANGED <<type, peer, app>>

\* The peer ends the pipe: a delimiter, and the command pipe_term.
PeerCloses(p) ==
  /\ Running
  /\ peer[p].open
  /\ peer' = [peer EXCEPT ![p].open = FALSE]
  /\ w' = Deliver(w, p, <<Delim>>)
  /\ UNCHANGED <<type, app>>

-----------------------------------------------------------------------------
(* Commands the socket processes between two calls *)

process_bind(p) ==
  /\ Running
  /\ w.pipes[p].st = "none"
  /\ w' = xattach_pipe([w EXCEPT !.pipes[p].st = "active"], p)
  /\ peer' = [peer EXCEPT ![p].open = TRUE]
  /\ UNCHANGED <<type, app>>

process_activate_read(p) ==
  /\ Running
  /\ w.pipes[p].wake
  /\ LET a == [w EXCEPT !.pipes[p].wake = FALSE]
     IN w' = IF w.pipes[p].st \in {"active", "pending"}
             THEN xread_activated([a EXCEPT !.pipes[p].in_active = TRUE], p)
             ELSE a
  /\ UNCHANGED <<type, peer, app>>

process_activate_write(p) ==
  /\ Running
  /\ w.pipes[p].unacked > 0
  /\ LET a == [w EXCEPT !.pipes[p].unacked = 0]
     IN w' = IF w.pipes[p].st = "active" /\ ~w.pipes[p].out_active
             THEN xwrite_activated([a EXCEPT !.pipes[p].out_active = TRUE], p)
             ELSE a
  /\ UNCHANGED <<type, peer, app>>

process_pipe_term(p) ==
  /\ Running
  /\ ~peer[p].open
  /\ w.pipes[p].st \in {"active", "delimited"}
  /\ w' = [w EXCEPT !.pipes[p].st = IF @ = "active" THEN "pending"
                                    ELSE "terminating"]
  /\ UNCHANGED <<type, peer, app>>

process_pipe_term_ack(p) ==
  /\ Running
  /\ w.pipes[p].st \in {"terminating", "terminated"}
  /\ w' = [xterminated(w, p) EXCEPT !.pipes[p] = [NoPipe EXCEPT !.st = "gone"]]
  /\ peer' = [peer EXCEPT ![p].open = FALSE]
  /\ UNCHANGED <<type, app>>

-----------------------------------------------------------------------------
(* The application *)

\* recv.  When poll has promised a message there is one, unless a REP socket
\* finds a malformed request.
recv ==
  /\ Running
  /\ type # "PUSH"
  /\ type = "REQ" => w.receiving_reply
  /\ type = "REP" => ~w.sending_reply
  /\ LET r == xrecv(w)
     IN w' = zmq_assert(r.w, r.ok \/ ~app.promised \/ type = "REP",
                        "no message after poll")
  /\ app' = [app EXCEPT !.promised = FALSE]
  /\ UNCHANGED <<type, peer>>

poll ==
  /\ Running
  /\ \/ /\ type # "PUSH"
        /\ type = "REQ" => w.receiving_reply
        /\ type = "REP" => ~w.sending_reply
        /\ LET r == xhas_in(w)
           IN w' = r.w /\ app' = [app EXCEPT !.promised = r.ok]
     \/ /\ UsesLb \/ type = "PAIR"
        /\ type = "REQ" => ~w.receiving_reply
        /\ w' = xhas_out(w).w /\ UNCHANGED app
  /\ UNCHANGED <<type, peer>>

\* The next part of the message the application sends: for a peer, for the
\* one that asked, or for no one in particular.
NextPart(to, size) ==
  LET n == app.part + 1
      more == n < size
  IN CASE type = "ROUTER" /\ n = 1 -> Part("id", TRUE, to, 0)
       [] type = "ROUTER" /\ n > 1 -> Part("body", more, to, n - 1)
       [] type = "REP" -> Part("body", more, w.asker, n + 1)
       [] OTHER -> Part("body", more, app.sent + 1, n)

SendOne(to, size) ==
  LET part == NextPart(to, size)
      r == xsend(w, part)
  IN /\ w' = r.w
     /\ app' = IF ~r.ok THEN app
               ELSE IF part.more
               THEN [app EXCEPT !.part = @ + 1, !.size = size, !.to = to]
               ELSE [app EXCEPT !.part = 0, !.size = 0, !.to = None,
                                !.sent = @ + 1]

send ==
  /\ Running
  /\ type # "PULL"
  /\ type = "REQ" => ~w.receiving_reply
  /\ type = "REP" => w.sending_reply
  /\ app.arrived + app.sent < Budget
  /\ IF type = "ROUTER"
     THEN IF app.part = 0
          THEN \E to \in P : SendOne(to, 2)
          ELSE SendOne(app.to, app.size)
     ELSE \E size \in IF app.part = 0 THEN {1, 2} ELSE {app.size} :
            SendOne(None, size)
  /\ UNCHANGED <<type, peer>>

\* zmq_disconnect of an inproc peer.
disconnect(p) ==
  /\ Running
  /\ w.pipes[p].st \in {"active", "delimited"}
  /\ MidMessage \/ ~(w.fq.more \/ w.lb.more)
  /\ w' = terminate(w, p)
  /\ app' = [app EXCEPT !.promised = FALSE]
  /\ UNCHANGED <<type, peer>>

Next ==
  \/ \E p \in P : \/ PeerIdentifies(p) \/ PeerSends(p) \/ PeerReads(p)
                  \/ PeerCloses(p) \/ process_bind(p)
                  \/ process_activate_read(p) \/ process_activate_write(p)
                  \/ process_pipe_term(p) \/ process_pipe_term_ack(p)
                  \/ disconnect(p)
  \/ recv \/ poll \/ send

Spec == Init /\ [][Next]_vars

-----------------------------------------------------------------------------
(* Properties *)


\* Every variable has its type, and the arrays of fq_t and lb_t are sound:
\* no pipe is in them twice, the active ones come first and the current one
\* is active, through every attach, activated, terminated and skip.
TypeOK ==
  /\ type \in Types
  /\ \A a \in {w.fq, w.lb} :
       /\ a.active \in 0..Len(a.pipes) /\ a.more \in BOOLEAN
       /\ a.current \in 0..(IF a.active = 0 THEN 0 ELSE a.active - 1)
       /\ \A i, j \in DOMAIN a.pipes : a.pipes[i] = a.pipes[j] => i = j
  /\ \A p \in P :
       w.pipes[p].st \in {"none", "active", "delimited", "pending",
                          "terminating", "terminated", "gone"}

\* The parts fq_t gives to the application are those of one message after the
\* other, each complete and from one pipe; fq_t, router_t and req_t meet what
\* they assert; and a message that poll has announced can be received,
\* whatever pipes come, wake up and go in between.  (The assertion of
\* lb_t::send, "lb: !more", can fail: README, known disagreements.)
AssertsHold == w.bad \subseteq {"lb: !more"}

\* A pipe with something to read is in the active part of fq_t, or a command
\* activate_read is on its way: nothing that has arrived is forgotten.
NoLostMessage ==
  UsesFq =>
    \A p \in P \ w.anonymous :
      (w.pipes[p].st \in {"active", "pending"} /\ w.pipes[p].inq # <<>>)
        => (p \in ActivePipes(w.fq) \/ w.pipes[p].wake)

\* What a socket writes to a pipe are whole messages, one after the other:
\* lb_t and router_t never spread one over two pipes, also when they skip
\* full pipes, drop the rest for a pipe that has gone, or take it back.
WholeOut ==
  type # "PAIR" =>
    \A p \in P :
      LET q == w.pipes[p].outq
      IN \A i \in DOMAIN q :
           IF i > 1 /\ q[i - 1].more
           THEN q[i].n = q[i - 1].n + 1 /\ q[i].tag = q[i - 1].tag
           ELSE q[i].n = IF type = "REQ" THEN 0 ELSE 1

\* A REP socket replies to the peer whose request it has read, and a ROUTER
\* sends to the peer with the identity it was given (rep_t::xrecv,
\* router_t::xsend, identify_peer).
RoutedRight ==
  Routes => \A p \in P : \A i \in DOMAIN w.pipes[p].outq :
              w.pipes[p].outq[i].tag =
                IF type = "REP" THEN p ELSE w.identity[p]

\* Fair queueing: a pipe with a message is passed over at most once by each
\* of the other pipes (fq_t::recvpipe).
FairQueue == \A p \in P : w.skips[p] < Cardinality(P)

\* The types and the arrays of fq_t and lb_t are sound, and what fq_t, router_t
\* and req_t assert holds between the parts of a message.
PatternsSound == TypeOK /\ AssertsHold

\* Every pipe with a message has its turn: it is active or will be woken, and
\* no other pipe is preferred to it twice.
EveryPipeServed == NoLostMessage /\ FairQueue

\* Whole messages are sent, to the peer they are meant for.
SentRight == WholeOut /\ RoutedRight
=============================================================================
