------------------------------ MODULE Session -------------------------------
(***************************************************************************)
(* A session_base_t that connects: a socket, the pipe between socket and   *)
(* session, the connecters the session launches one after the other, and   *)
(* an engine for each connection they make.  The peer (external) accepts   *)
(* connections, reads, sends and disappears.  Socket, session and          *)
(* connecter run in threads of their own or the latter two share one.      *)
(*                                                                         *)
(* Messages have parts; bytes are left to module StreamEngine, watermarks  *)
(* to module Pipe.  A step is a command, an event of the poller, or a call *)
(* of the application.  Operators on the record w are methods that are     *)
(* called synchronously: w holds the variables they change.                *)
(***************************************************************************)
EXTENDS Own, Integers, SequencesExt

CONSTANTS
  MaxConns,   \* bound: connecters, thus connections
  MaxPipes,   \* bound: pipes
  Batch,      \* parts that fit into the buffer of the encoder
  Wire,       \* parts that the connection holds
  Plans       \* bounds: of the socket its type, linger, reconnect_ivl and its
              \* maximum, delay_attach_on_connect; whether connecters have
              \* their own thread; messages, subscriptions, messages of
              \* the peer, breaks, failures to connect; whether it disconnects

Socket == 0
Connecters == 1..MaxConns
Session == MaxConns + 1
Objects == 0..Session
PipeIds == 1..MaxPipes

VARIABLES
  own,        \* the own_t part of each object
  life,       \* of each object: "unborn", "live" or "gone"
  session,    \* session_base_t
  connecter,  \* tcp_connecter_t
  engine,     \* stream_engine_t and its connection
  pipe,       \* the pipes: end 0 is the socket's, end 1 the session's
  mail,       \* the mailboxes of the threads
  next,       \* the next connecter and the next pipe
  plan,       \* what may still happen
  subs,       \* the subscriptions of the socket
  written,    \* the messages that the socket has written
  got,        \* the parts the peer received by each connection
  inbox,      \* the parts the socket has read
  fault       \* assertions and rules that were violated

worldVars == <<own, life, session, connecter, engine, pipe, mail, next, plan,
               fault>>
vars == <<worldVars, subs, written, got, inbox>>

Part(n, more) == [m |-> n, more |-> more]
IdentityPart == Part(0, FALSE)
Delimiter == Part(-1, FALSE)
Message(n) == <<Part(n, TRUE), Part(n, FALSE)>>

NewSession(p) ==
  [pipe |-> p, terminating_pipes |-> {}, engine |-> 0, pending |-> FALSE,
   has_linger_timer |-> FALSE, identity_sent |-> FALSE,
   identity_received |-> FALSE, incomplete_in |-> FALSE]

NewConnecter(ivl, delayed) ==
  [s |-> "retired", handle_valid |-> FALSE, timer_started |-> FALSE,
   delayed_start |-> delayed, current_reconnect_ivl |-> ivl]

\* An engine: out is its output buffer, held what it read and cannot pass on;
\* of the connection: wire the parts on their way to the peer, back those from
\* it, mid whether the last has more to follow, link whether it works ("up"),
\* swallows what is written ("lost") or is known to be closed ("closed").
NoEngine == [on |-> FALSE, pollin |-> FALSE, pollout |-> FALSE,
             io_enabled |-> FALSE, out |-> <<>>, held |-> <<>>, wire |-> <<>>,
             back |-> <<>>, mid |-> FALSE, link |-> "closed"]

\* A pipe: the socket writes to the first of down, the session reads the last;
\* there are several while a hiccup is on its way.  up is what the session has
\* flushed, part what it has not.
Ypipe == [items |-> <<>>, asleep |-> FALSE]
End(attached) == [state |-> "active", delay |-> TRUE, attached |-> attached]
NoPipe == [end |-> [e \in {0, 1} |-> [End(FALSE) EXCEPT !.state = "none"]],
           down |-> <<Ypipe>>, in_active |-> TRUE, up |-> <<>>, part |-> <<>>]
Pipepair(attached) ==
  [NoPipe EXCEPT !.end = [e \in {0, 1} |-> End(attached \/ e = 1)]]

-----------------------------------------------------------------------------
(* Commands *)

W == [own |-> own, life |-> life, session |-> session,
      connecter |-> connecter, engine |-> engine, pipe |-> pipe,
      mail |-> mail, next |-> next, plan |-> plan, fault |-> fault]

Becomes(world) ==
  \E w \in {world} :
    /\ own' = w.own /\ life' = w.life /\ session' = w.session
    /\ connecter' = w.connecter /\ engine' = w.engine /\ pipe' = w.pipe
    /\ mail' = w.mail /\ next' = w.next /\ plan' = w.plan /\ fault' = w.fault

zmq_assert(w, cond, what) ==
  IF cond THEN w ELSE [w EXCEPT !.fault = @ \cup {what}]

Box(w, o) ==
  CASE o = Socket -> "socket"
    [] o = Session -> "io"
    [] OTHER -> IF w.plan.other THEN "io2" ELSE "io"

send_command(w, type, to, arg) ==
  [w EXCEPT !.mail[Box(w, to)] =
     Append(@, [type |-> type, to |-> to, arg |-> arg])]

\* Commands to an end of a pipe go to the thread of its parent.
send_pipe_command(w, type, p, e) ==
  send_command(w, type, IF e = 0 THEN Socket ELSE Session, p)

-----------------------------------------------------------------------------
(* own_t *)

\* The destructor of a session closes its engine: what it has not written is
\* lost (the encoder of short messages is empty).
EngineTerminate(w) ==
  IF w.session.engine = 0 THEN w
  ELSE [w EXCEPT !.engine[w.session.engine].on = FALSE, !.session.engine = 0]

Destroy(w, o) ==
  LET a == [w EXCEPT !.life[o] = "gone"]
      c == w.connecter[o]
  IN CASE o = Socket -> a
       [] o = Session ->
            [EngineTerminate(zmq_assert(a, w.session.pipe = 0, "no pipe"))
               EXCEPT !.session.has_linger_timer = FALSE]
       [] OTHER -> zmq_assert(a, /\ c.s = "retired" /\ ~c.timer_started
                                 /\ ~c.handle_valid, "connecter is at rest")

CheckTermAcks(w, o) ==
  IF ~check_term_acks(w.own[o]) THEN w
  ELSE Destroy(IF o = Socket THEN w
               ELSE send_command(w, "term_ack", w.own[o].owner, 0), o)

UnregisterTermAck(w, o) ==
  CheckTermAcks(zmq_assert([w EXCEPT !.own[o] = unregister_term_ack(@)],
                           w.own[o].term_acks > 0, "term_acks > 0"), o)

SendTerms(w, children, linger) ==
  FoldSet(LAMBDA c, acc : send_command(acc, "term", c, linger), w, children)

OwnProcessTerm(w, o, linger) ==
  LET a == SendTerms(zmq_assert(w, ~w.own[o].terminating, "one termination"),
                     w.own[o].owned, linger)
  IN CheckTermAcks(
       [a EXCEPT !.own[o] = process_term(@, Cardinality(@.owned))], o)

ProcessTermReq(w, o, child) ==
  [SendTerms(w, TermReqAsks(w.own[o], child), w.plan.linger)
     EXCEPT !.own[o] = process_term_req(@, child)]

ProcessOwn(w, o, child) ==
  [SendTerms(w, OwnAsks(w.own[o], child), 0)
     EXCEPT !.own[o] = process_own(@, child)]

ProcessSeqnum(w, o) ==
  CheckTermAcks([w EXCEPT !.own[o] = process_seqnum(@)], o)

LaunchChild(w, parent, child) ==
  LET a == [w EXCEPT !.own[child] = inc_seqnum([@ EXCEPT !.owner = parent]),
                     !.own[parent] = inc_seqnum(@), !.life[child] = "live"]
  IN send_command(send_command(a, "plug", child, 0), "own", parent, child)

\* own_t::terminate of a child.
Terminate(w, o) ==
  IF w.own[o].terminating THEN w
  ELSE send_command(w, "term_req", w.own[o].owner, o)

-----------------------------------------------------------------------------
(* pipe_t *)

\* The socket writes and flushes: a sleeping reader is woken up.
WriteDown(w, p, items) ==
  LET y == Head(w.pipe[p].down)
      a == [w EXCEPT !.pipe[p].down[1] =
              [items |-> @.items \o items, asleep |-> FALSE]]
  IN IF y.asleep THEN send_pipe_command(a, "activate_read", p, 1) ELSE a

SendPipeTermAck(w, p, e, state) ==
  send_pipe_command([w EXCEPT !.pipe[p].end[e].state = state],
                    "pipe_term_ack", p, 1 - e)

WriteDelimiter(w, p, e) ==
  IF e = 0 THEN WriteDown(w, p, <<Delimiter>>)
  ELSE [w EXCEPT !.pipe[p].part = <<>>,
                 !.pipe[p].up = Append(@, Delimiter)]

PipeTerminate(w, p, e, delay) ==
  LET state == w.pipe[p].end[e].state
      a == [w EXCEPT !.pipe[p].end[e].delay = delay]
  IN CASE state \in {"active", "delimited"} ->
            WriteDelimiter(
              send_pipe_command([a EXCEPT !.pipe[p].end[e].state =
                                   "terminated"], "pipe_term", p, 1 - e),
              p, e)
       [] state = "pending" /\ ~delay ->
            SendPipeTermAck(a, p, e, "terminating")
       [] state = "pending" /\ delay -> WriteDelimiter(a, p, e)
       [] OTHER -> a

Delimit(w, p, e) ==
  LET state == w.pipe[p].end[e].state
  IN CASE state = "active" ->
            [w EXCEPT !.pipe[p].end[e].state = "delimited"]
       [] state = "pending" -> SendPipeTermAck(w, p, e, "terminating")
       [] OTHER -> zmq_assert(w, FALSE, "delimiter in another state")

\* The session's end may read.
Readable(w, p) == /\ w.pipe[p].in_active
                  /\ w.pipe[p].end[1].state \in {"active", "pending"}

\* pipe_t::read and check_read by the session, which take differs for.
ReadDown(w, p, take) ==
  LET d == Len(w.pipe[p].down)
      y == w.pipe[p].down[d]
      popped == [w EXCEPT !.pipe[p].down[d].items = Tail(@)]
      no(v) == [ok |-> FALSE, part |-> IdentityPart, w |-> v]
  IN IF ~Readable(w, p) THEN no(w)
     ELSE IF y.items = <<>>
     THEN no([w EXCEPT !.pipe[p].in_active = FALSE,
                       !.pipe[p].down[d].asleep = TRUE])
     ELSE IF Head(y.items) = Delimiter THEN no(Delimit(popped, p, 1))
     ELSE [ok |-> TRUE, part |-> Head(y.items),
           w |-> IF take THEN popped ELSE w]

CheckRead(w, p) == ReadDown(w, p, FALSE).w

Hiccup(w, p) ==
  IF w.pipe[p].end[1].state # "active" THEN w
  ELSE send_pipe_command([w EXCEPT !.pipe[p].down = Append(@, Ypipe),
                                   !.pipe[p].in_active = TRUE],
                         "hiccup", p, 0)

ProcessPipeTerm(w, p, e) ==
  LET end == w.pipe[p].end[e]
  IN CASE end.state = "active" /\ end.delay ->
            [w EXCEPT !.pipe[p].end[e].state = "pending"]
       [] \/ end.state = "active" /\ ~end.delay
          \/ end.state = "delimited" -> SendPipeTermAck(w, p, e, "terminating")
       [] end.state = "terminated" ->
            SendPipeTermAck(w, p, e, "double_terminated")
       [] OTHER -> zmq_assert(w, FALSE, "pipe_term in another state")

-----------------------------------------------------------------------------
(* session_base_t *)

\* start_connecting launches the next connecter.
StartConnecting(w, wait) ==
  LaunchChild([w EXCEPT
    !.connecter[w.next.conn] = NewConnecter(w.plan.ivl, wait),
    !.next.conn = @ + 1], Session, w.next.conn)

pull_msg(w) ==
  LET s == w.session
      r == ReadDown(w, s.pipe, TRUE)
  IN IF ~s.identity_sent
     THEN [ok |-> TRUE, part |-> IdentityPart,
           w |-> [w EXCEPT !.session.identity_sent = TRUE,
                           !.session.incomplete_in = FALSE]]
     ELSE IF s.pipe = 0 THEN [ok |-> FALSE, part |-> IdentityPart, w |-> w]
     ELSE IF ~r.ok THEN r
     ELSE [r EXCEPT !.w.session.incomplete_in = r.part.more]

\* push_msg, with the flush that follows; whole messages are flushed.
push_msg(w, part) ==
  LET p == w.session.pipe
      all == Append(w.pipe[p].part, part)
  IN IF ~w.session.identity_received
     THEN [ok |-> TRUE, w |-> [w EXCEPT !.session.identity_received = TRUE]]
     ELSE IF p = 0 \/ w.pipe[p].end[1].state # "active"
     THEN [ok |-> FALSE, w |-> w]
     ELSE [ok |-> TRUE,
           w |-> IF part.more THEN [w EXCEPT !.pipe[p].part = all]
                 ELSE [w EXCEPT !.pipe[p].part = <<>>,
                                !.pipe[p].up = @ \o all]]

\* Mutant of DropRest: the rest of a half-read message stays.
DropNothing(w) == [w EXCEPT !.session.incomplete_in = FALSE]

\* The rest of a half-read message is removed from the pipe.
RECURSIVE DropRest(_)
DropRest(w) ==
  LET r == pull_msg(w)
  IN IF ~w.session.incomplete_in THEN w
     ELSE IF r.ok THEN DropRest(r.w)
     ELSE zmq_assert(r.w, FALSE, "half-read message")

Rollback(w, p) == [w EXCEPT !.pipe[p].part = <<>>]

clean_pipes(w) ==
  IF w.session.pipe = 0 THEN w ELSE DropRest(Rollback(w, w.session.pipe))

reset(w) == [w EXCEPT !.session.identity_sent = FALSE,
                      !.session.identity_received = FALSE]

\* With delay_attach_on_connect the pipe is given up with the connection.
GiveUpPipe(w) ==
  LET p == w.session.pipe
  IN IF p = 0 \/ ~w.plan.delay_attach THEN w
     ELSE [PipeTerminate(Hiccup(w, p), p, 1, FALSE) EXCEPT
             !.session.terminating_pipes = @ \cup {p}, !.session.pipe = 0]

HiccupSub(w) ==
  IF w.session.pipe # 0 /\ w.plan.type = "SUB"
  THEN Hiccup(w, w.session.pipe) ELSE w

detached(w) ==
  LET a == reset(GiveUpPipe(w))
  IN HiccupSub(IF w.plan.ivl # -1 THEN StartConnecting(a, TRUE) ELSE a)

detach(w) ==
  LET a == detached(clean_pipes([w EXCEPT !.session.engine = 0]))
  IN IF a.session.pipe = 0 THEN a ELSE CheckRead(a, a.session.pipe)

ProceedWithTerm(w) ==
  OwnProcessTerm([w EXCEPT !.session.pending = FALSE], Session, 0)

Delay(linger) == linger # 0

SessionProcessTerm(w, linger) ==
  LET p == w.session.pipe
      a == zmq_assert(w, ~w.session.pending, "not pending")
  IN IF p = 0 THEN ProceedWithTerm(a)
     ELSE CheckRead(
            PipeTerminate([a EXCEPT !.session.pending = TRUE,
                                    !.session.has_linger_timer = linger > 0],
                          p, 1, Delay(linger)), p)

\* Mutant of PipesGone: a session without such pipes waits for ever.
PipesNeverGone(w) == w.session.pending /\ w.session.terminating_pipes # {}

\* The session was waiting for its pipes, and they are gone.
PipesGone(w) == /\ w.session.pending /\ w.session.pipe = 0
                /\ w.session.terminating_pipes = {}

\* terminated: the pipe is gone.
SessionTerminated(w, p) ==
  LET a == IF w.session.pipe = p THEN [w EXCEPT !.session.pipe = 0]
           ELSE [w EXCEPT !.session.terminating_pipes = @ \ {p}]
      b == zmq_assert(a, /\ w.life[Session] = "live"
                         /\ \/ w.session.pipe = p
                            \/ p \in w.session.terminating_pipes, "sink")
  IN IF PipesGone(a) THEN ProceedWithTerm(b) ELSE b

\* process_attach: a session without a pipe makes one.
ProcessAttach(w, i) ==
  LET p == w.next.pipe
      a == IF w.session.pipe # 0 \/ w.own[Session].terminating THEN w
           ELSE send_command([w EXCEPT !.pipe[p] = Pipepair(FALSE),
                                       !.next.pipe = @ + 1,
                                       !.session.pipe = p,
                                       !.own[Socket] = inc_seqnum(@)],
                             "bind", Socket, p)
  IN [zmq_assert(a, w.session.engine = 0, "one engine") EXCEPT
        !.session.engine = i,
        !.engine[i] = [@ EXCEPT !.on = TRUE, !.pollin = TRUE, !.pollout = TRUE,
                                !.io_enabled = TRUE]]

-----------------------------------------------------------------------------
(* stream_engine_t *)

\* encoder_t::get_data: at most n parts.
RECURSIVE get_data(_, _, _)
get_data(w, i, n) ==
  LET r == pull_msg(w)
  IN IF n = 0 THEN w
     ELSE IF ~r.ok THEN r.w
     ELSE get_data([r.w EXCEPT !.engine[i].out = Append(@, r.part)], i, n - 1)

\* write: the connection takes what it has room for; a lost one takes all.
Write(w, i) ==
  LET e == w.engine[i]
      n == IF e.link = "lost" THEN Len(e.out)
           ELSE Min({Len(e.out), Wire - Len(e.wire)})
  IN IF e.link = "closed" THEN [w EXCEPT !.engine[i].pollout = FALSE]
     ELSE [w EXCEPT !.engine[i].out = SubSeq(@, n + 1, Len(@)),
                    !.engine[i].wire = IF e.link = "lost" THEN @
                                       ELSE @ \o SubSeq(e.out, 1, n)]

OutEvent(w, i) ==
  LET a == IF w.engine[i].out = <<>> THEN get_data(w, i, Batch) ELSE w
  IN IF a.engine[i].out = <<>> THEN [a EXCEPT !.engine[i].pollout = FALSE]
     ELSE Write(a, i)

\* error: the session is detached and the engine destroyed.
EngineError(w, i) == [detach(w) EXCEPT !.engine[i] = NoEngine]

\* Something was read that the session refuses: with the connection closed the
\* engine waits for the session, with more to read it stops reading.
Stalled(w, i) ==
  LET e == w.engine[i]
  IN IF Len(e.held) = 2 THEN [w EXCEPT !.engine[i].pollin = FALSE]
     ELSE IF e.back # <<>>
     THEN [w EXCEPT !.engine[i].held = Append(@, Head(e.back)),
                    !.engine[i].back = Tail(@), !.engine[i].pollin = FALSE]
     ELSE [w EXCEPT !.engine[i].io_enabled = FALSE]

InEvent(w, i) ==
  LET e == w.engine[i]
      held == e.held # <<>>
      r == push_msg(w, IF held THEN Head(e.held) ELSE Head(e.back))
  IN IF held
     THEN IF r.ok THEN [r.w EXCEPT !.engine[i].held = Tail(@)]
          ELSE Stalled(w, i)
     ELSE IF e.back = <<>> THEN EngineError(w, i)
     ELSE [r.w EXCEPT !.engine[i].back = Tail(@),
                      !.engine[i].held = IF r.ok THEN @ ELSE <<Head(e.back)>>]

\* read_activated of the session.
ReadActivated(w, p) ==
  LET i == w.session.engine
  IN IF p # w.session.pipe THEN w
     ELSE IF i = 0 THEN CheckRead(w, p)
     ELSE OutEvent([zmq_assert(w, w.engine[i].io_enabled, "handle") EXCEPT
                      !.engine[i].pollout = TRUE], i)

-----------------------------------------------------------------------------
(* tcp_connecter_t *)

\* The next interval; a random one below reconnect_ivl is added to each.
get_new_reconnect_ivl(w, i) ==
  LET c == w.connecter[i].current_reconnect_ivl
  IN IF w.plan.max <= w.plan.ivl THEN c ELSE Min({c * 2, w.plan.max})

add_reconnect_timer(w, i) ==
  [zmq_assert(w, w.plan.ivl # 0, "division by zero") EXCEPT
     !.connecter[i].current_reconnect_ivl = get_new_reconnect_ivl(w, i),
     !.connecter[i].timer_started = TRUE]

\* Mutant of Retry: there is no timer for the next attempt.
RetryNever(w, i) == [w EXCEPT !.connecter[i].s = "retired",
                              !.connecter[i].handle_valid = FALSE,
                              !.plan.failures = @ - 1]

\* close of the connecter, then a new attempt later.
Retry(w, i) ==
  add_reconnect_timer([w EXCEPT !.connecter[i].s = "retired",
                                !.connecter[i].handle_valid = FALSE,
                                !.plan.failures = @ - 1], i)

\* out_event: the connection is established or has failed.
ConnecterOut(w, i, ok) ==
  LET a == [w EXCEPT !.connecter[i].handle_valid = FALSE,
                     !.connecter[i].s = "retired",
                     !.engine[i] = [@ EXCEPT !.link = "up",
                                             !.back = <<IdentityPart>>],
                     !.own[Session] = inc_seqnum(@)]
  IN IF ok THEN Terminate(send_command(a, "attach", Session, i), i)
     ELSE Retry(w, i)

\* start_connecting, with the outcome of open.
ConnecterStart(w, i, rc) ==
  LET a == [w EXCEPT !.connecter[i].s = "open",
                     !.connecter[i].handle_valid = TRUE]
      b == zmq_assert(a, w.connecter[i].s = "retired", "s is retired")
  IN CASE rc = "done" -> ConnecterOut(b, i, TRUE)
       [] rc = "progress" -> b
       [] rc = "error" -> Retry(b, i)

Results(w) == {"done", "progress"}
                \cup IF w.plan.failures > 0 THEN {"error"} ELSE {}

ConnecterPlug(w, i, rc) ==
  IF w.connecter[i].delayed_start THEN add_reconnect_timer(w, i)
  ELSE ConnecterStart(w, i, rc)

\* Mutant of ConnecterProcessTerm: a timer that runs is forgotten.
TermKeepsTimer(w, i, linger) ==
  OwnProcessTerm([w EXCEPT !.connecter[i].s = "retired",
                           !.connecter[i].handle_valid = FALSE], i, linger)

ConnecterProcessTerm(w, i, linger) ==
  OwnProcessTerm([w EXCEPT !.connecter[i].s = "retired",
                           !.connecter[i].timer_started = FALSE,
                           !.connecter[i].handle_valid = FALSE], i, linger)

-----------------------------------------------------------------------------
(* socket_base_t *)

Attached(w) == {p \in PipeIds : w.pipe[p].end[0].attached}

SendSubscriptions(w, p) ==
  IF w.pipe[p].end[0].state # "active" THEN w
  ELSE WriteDown(w, p, SetToSortSeq({Part(t, FALSE) : t \in subs},
                                    LAMBDA a, b : a.m < b.m))

AttachPipe(w, p) ==
  LET a == [w EXCEPT !.pipe[p].end[0].attached = TRUE]
      b == IF w.plan.type = "SUB" /\ subs # {} THEN SendSubscriptions(a, p)
           ELSE a
  IN IF ~w.own[Socket].terminating THEN b
     ELSE PipeTerminate([b EXCEPT !.own[Socket] = register_term_acks(@, 1)],
                        p, 0, FALSE)

SocketTerminated(w, p) ==
  LET a == [w EXCEPT !.pipe[p].end[0].attached = FALSE]
  IN IF w.own[Socket].terminating THEN UnregisterTermAck(a, Socket) ELSE a

\* process_hiccup, then hiccuped of the socket.
ProcessHiccup(w, p) ==
  LET a == [w EXCEPT !.pipe[p].down = Tail(@)]
  IN IF w.pipe[p].end[0].state # "active" THEN a
     ELSE IF w.plan.delay_attach THEN PipeTerminate(a, p, 0, FALSE)
     ELSE IF subs = {} THEN a ELSE SendSubscriptions(a, p)

SocketProcessTerm(w, linger) ==
  LET a == FoldSet(LAMBDA p, acc : PipeTerminate(acc, p, 0, FALSE), w,
                   Attached(w))
  IN OwnProcessTerm(
       [a EXCEPT !.own[Socket] = register_term_acks(@,
                                   Cardinality(Attached(w)))], Socket, linger)

-----------------------------------------------------------------------------
(* Steps of the threads *)

ProcessPipeTermAck(w, p, e) ==
  LET state == w.pipe[p].end[e].state
      a == IF e = 0 THEN SocketTerminated(w, p) ELSE SessionTerminated(w, p)
  IN IF state = "terminated" THEN SendPipeTermAck(a, p, e, "gone")
     ELSE zmq_assert([a EXCEPT !.pipe[p].end[e].state = "gone"],
                     state \in {"terminating", "double_terminated"},
                     "pipe_term_ack in another state")

ProcessActivateRead(w, p) ==
  IF w.pipe[p].in_active \/ w.pipe[p].end[1].state \notin {"active", "pending"}
  THEN w ELSE ReadActivated([w EXCEPT !.pipe[p].in_active = TRUE], p)

ProcessPlug(w, o, rc) ==
  IF o = Session THEN StartConnecting(w, FALSE) ELSE ConnecterPlug(w, o, rc)

ProcessTerm(w, o, linger) ==
  CASE o = Session -> SessionProcessTerm(w, linger)
    [] o = Socket -> SocketProcessTerm(w, linger)
    [] OTHER -> ConnecterProcessTerm(w, o, linger)

ProcessCommand(w, c, rc) ==
  LET o == c.to
      e == IF o = Socket THEN 0 ELSE 1
  IN CASE c.type = "plug" -> ProcessSeqnum(ProcessPlug(w, o, rc), o)
       [] c.type = "own" -> ProcessSeqnum(ProcessOwn(w, o, c.arg), o)
       [] c.type = "attach" -> ProcessSeqnum(ProcessAttach(w, c.arg), o)
       [] c.type = "bind" -> ProcessSeqnum(AttachPipe(w, c.arg), o)
       [] c.type = "term_req" -> ProcessTermReq(w, o, c.arg)
       [] c.type = "term" -> ProcessTerm(w, o, c.arg)
       [] c.type = "term_ack" -> UnregisterTermAck(w, o)
       [] c.type = "activate_read" -> ProcessActivateRead(w, c.arg)
       [] c.type = "hiccup" -> ProcessHiccup(w, c.arg)
       [] c.type = "pipe_term" -> ProcessPipeTerm(w, c.arg, e)
       [] c.type = "pipe_term_ack" -> ProcessPipeTermAck(w, c.arg, e)

PipeCommands == {"activate_read", "hiccup", "pipe_term", "pipe_term_ack"}
Boxes == {"socket", "io", "io2"}
appVars == <<subs, written, got, inbox>>

\* A thread processes the next command of its mailbox.
Command(box) ==
  /\ mail[box] # <<>>
  /\ LET c == Head(mail[box])
         w == zmq_assert([W EXCEPT !.mail[box] = Tail(@)],
                         life[c.to] = "live" \/ c.type \in PipeCommands,
                         "command for a deleted object")
     IN \E rc \in IF c.type = "plug" /\ c.to \in Connecters
                  THEN Results(w) ELSE {"done"} :
          Becomes(ProcessCommand(w, c, rc))
  /\ UNCHANGED appVars

\* The poller reports an engine, or a connecter whose attempt has ended.
in_event(i) ==
  /\ engine[i].on /\ engine[i].io_enabled /\ engine[i].pollin
  /\ engine[i].back # <<>> \/ engine[i].link = "closed"
  /\ Becomes(InEvent(W, i))
  /\ UNCHANGED appVars

out_event(i) ==
  /\ engine[i].on /\ engine[i].io_enabled /\ engine[i].pollout
  /\ engine[i].link # "up" \/ Len(engine[i].wire) < Wire
  /\ Becomes(OutEvent(W, i))
  /\ UNCHANGED appVars

ConnecterEvent(i) ==
  /\ connecter[i].handle_valid
  /\ \/ Becomes(ConnecterOut(W, i, TRUE))
     \/ plan.failures > 0 /\ Becomes(ConnecterOut(W, i, FALSE))
  /\ UNCHANGED appVars

\* Timers: the next attempt to connect; the end of the linger period.
ReconnectTimer(i) ==
  /\ connecter[i].timer_started
  /\ \E rc \in Results(W) :
       Becomes(ConnecterStart([W EXCEPT !.connecter[i].timer_started = FALSE],
                              i, rc))
  /\ UNCHANGED appVars

LingerTimer ==
  /\ session.has_linger_timer
  /\ LET a == [W EXCEPT !.session.has_linger_timer = FALSE]
     IN Becomes(IF session.pipe = 0 THEN zmq_assert(a, FALSE, "timer, no pipe")
                ELSE PipeTerminate(a, session.pipe, 1, FALSE))
  /\ UNCHANGED appVars

-----------------------------------------------------------------------------
(* The application and the peer *)

Open == life[Socket] = "live" /\ ~own[Socket].terminating

Writable == {p \in Attached(W) : pipe[p].end[0].state = "active"}

\* The application sends a message.
Send ==
  /\ Open /\ plan.type = "DEALER" /\ plan.msgs > 0
  /\ LET n == Len(written) + 1
     IN \E p \in Writable :
          /\ Becomes(WriteDown([W EXCEPT !.plan.msgs = @ - 1], p, Message(n)))
          /\ written' = Append(written, n)
  /\ UNCHANGED <<subs, got, inbox>>

\* The application subscribes.
Subscribe ==
  /\ Open /\ plan.type = "SUB" /\ plan.msgs > 0
  /\ LET t == Cardinality(subs) + 1
     IN /\ subs' = subs \cup {t}
        /\ Becomes(FoldSet(LAMBDA p, acc :
                             WriteDown(acc, p, <<Part(t, FALSE)>>),
                           [W EXCEPT !.plan.msgs = @ - 1], Writable))
  /\ UNCHANGED <<written, got, inbox>>

\* The application receives; it may meet the delimiter.
Receive ==
  /\ Open
  /\ \E p \in Attached(W) :
       /\ pipe[p].up # <<>>
       /\ pipe[p].end[0].state \in {"active", "pending"}
       /\ LET part == Head(pipe[p].up)
              w == [W EXCEPT !.pipe[p].up = Tail(@)]
          IN IF part = Delimiter
             THEN Becomes(Delimit(w, p, 0)) /\ inbox' = inbox
             ELSE Becomes(w) /\ inbox' = Append(inbox, part)
  /\ UNCHANGED <<subs, written, got>>

\* zmq_disconnect: the commands of the socket are processed before.
Disconnect ==
  /\ Open /\ plan.disconnects
  /\ mail["socket"] = <<>> /\ Session \in own[Socket].owned
  /\ Becomes(ProcessTermReq([W EXCEPT !.plan.disconnects = FALSE],
                            Socket, Session))
  /\ UNCHANGED appVars

\* zmq_close: the reaper has the socket terminate.  Commands that wait are
\* processed later: a session whose own is among them gets no linger period.
Close ==
  /\ Open /\ plan.closes
  /\ Becomes(ProcessTerm([W EXCEPT !.plan.steady =
                             @ /\ Session \in own[Socket].owned],
                         Socket, plan.linger))
  /\ UNCHANGED appVars

PeerReceives(i) ==
  /\ engine[i].link = "up" /\ engine[i].wire # <<>>
  /\ got' = [got EXCEPT ![i] = Append(@, Head(engine[i].wire))]
  /\ Becomes([W EXCEPT !.engine[i].wire = Tail(@)])
  /\ UNCHANGED <<subs, written, inbox>>

PeerSends(i) ==
  /\ engine[i].link = "up" /\ plan.peerParts > 0
  /\ Len(engine[i].back) < Wire
  /\ Becomes([W EXCEPT !.plan.peerParts = @ - 1,
                       !.engine[i].mid = ~@,
                       !.engine[i].back =
                         Append(@, Part(1, ~engine[i].mid))])
  /\ UNCHANGED appVars

\* The connection breaks, which the engine may notice later.
Break(i) ==
  /\ \/ engine[i].link = "up" /\ plan.breaks > 0
     \/ engine[i].link = "lost"
  /\ \E link \in plan.links \ {engine[i].link} :
       Becomes([W EXCEPT
         !.plan.breaks = IF engine[i].link = "up" THEN @ - 1 ELSE @,
         !.engine[i].link = link, !.engine[i].wire = <<>>])
  /\ UNCHANGED appVars

-----------------------------------------------------------------------------
Init ==
  /\ plan \in Plans
  /\ LET p == IF plan.delay_attach THEN 0 ELSE 1
         w == [own |-> [o \in Objects |-> NewOwn(Socket)],
               life |-> [o \in Objects |->
                           IF o = Socket THEN "live" ELSE "unborn"],
               session |-> NewSession(p),
               connecter |-> [i \in Connecters |-> NewConnecter(0, FALSE)],
               engine |-> [i \in Connecters |-> NoEngine],
               pipe |-> [q \in PipeIds |->
                           IF q = p THEN Pipepair(TRUE) ELSE NoPipe],
               mail |-> [b \in Boxes |-> <<>>],
               next |-> [conn |-> 1, pipe |-> p + 1],
               plan |-> plan, fault |-> {}]
         v == LaunchChild(w, Socket, Session)
     IN /\ own = v.own /\ life = v.life /\ session = v.session
        /\ connecter = v.connecter /\ engine = v.engine /\ pipe = v.pipe
        /\ mail = v.mail /\ next = v.next /\ fault = v.fault
  /\ subs = {} /\ written = <<>> /\ inbox = <<>>
  /\ got = [i \in Connecters |-> <<>>]

Threads ==
  /\ fault = {}
  /\ \/ \E box \in Boxes : Command(box)
     \/ \E i \in Connecters : \/ in_event(i) \/ out_event(i)
                              \/ ConnecterEvent(i) \/ ReconnectTimer(i)
                              \/ PeerReceives(i)
     \/ LingerTimer

Environment ==
  /\ fault = {}
  /\ \/ Send \/ Subscribe \/ Receive \/ Disconnect \/ Close
     \/ \E i \in Connecters : PeerSends(i) \/ Break(i)

Next == Threads \/ Environment

Quiet ==
  /\ \A box \in Boxes : mail[box] = <<>>
  /\ ~session.has_linger_timer
  /\ \A i \in Connecters :
       /\ ~connecter[i].handle_valid /\ ~connecter[i].timer_started
       /\ engine[i].link = "up" => engine[i].wire = <<>>
       /\ engine[i].on /\ engine[i].io_enabled =>
            /\ ~engine[i].pollout
            /\ ~engine[i].pollin \/ (/\ engine[i].back = <<>>
                                     /\ engine[i].link # "closed")

\* The threads do not stop, timers expire, the peer reads.
Fairness == []<>(Quiet \/ fault # {}) \/ []<><<Threads>>_vars

Spec == Init /\ [][Next]_vars /\ Fairness

-----------------------------------------------------------------------------
\* The type of every variable.
TypeOK ==
  /\ \A o \in Objects : /\ life[o] \in {"unborn", "live", "gone"}
                        /\ own[o].term_acks \in Nat
                        /\ own[o].processed_seqnum <= own[o].sent_seqnum
  /\ session.pipe \in 0..MaxPipes /\ session.engine \in 0..MaxConns
  /\ session.terminating_pipes \subseteq PipeIds \ {session.pipe}
  /\ \A i \in Connecters : /\ connecter[i].s \in {"retired", "open"}
                           /\ connecter[i].handle_valid =>
                                connecter[i].s = "open"
                           /\ Len(engine[i].out) <= Batch
                           /\ Len(engine[i].wire) <= Wire
  /\ \A p \in PipeIds : Len(pipe[p].down) >= 1
  /\ next.conn <= MaxConns + 1 /\ next.pipe <= MaxPipes + 1

\* The assertions of sockets, pipes, sessions and connecters hold, and no
\* command reaches a deleted object.  (Those that can fail are named: README,
\* known disagreements.)
AssertsHold ==
  fault \subseteq {"sink", "timer, no pipe", "half-read message", "handle",
                  "division by zero"}

\* What one connection carries is the identity and then whole messages, the
\* last one possibly cut off: the rest of a message that was begun on another
\* connection is never sent.  Messages arrive in order and at most once.
StreamsClean ==
  \A i \in Connecters :
    LET g == got[i]
    IN /\ g # <<>> => g[1] = IdentityPart
       /\ \A a \in 2..Len(g) :
            /\ g[a] # IdentityPart
            /\ plan.type = "DEALER" =>
                 IF g[a].more THEN a < Len(g) => g[a + 1] = Part(g[a].m, FALSE)
                 ELSE g[a - 1] = Part(g[a].m, TRUE)
       /\ plan.type = "DEALER" =>
            \A j \in Connecters : \A a \in 2..Len(g), b \in 2..Len(got[j]) :
              (j = i /\ a + 1 < b) \/ j > i => g[a].m < got[j][b].m

\* The socket reads whole messages only, whatever connection they came by, and
\* never the identity of a peer.
WholeIn ==
  \A a \in DOMAIN inbox :
    /\ inbox[a].m # 0
    /\ inbox[a].more <=> a % 2 = 1

AtWork(i) == connecter[i].timer_started \/ connecter[i].handle_valid

\* A session that is not closed has an engine, or will have one: a connecter
\* works on it.
NeverAbandoned ==
  life[Session] = "live" /\ ~own[Session].terminating /\ session.engine = 0
    /\ plan.ivl # -1
  => \/ \E box \in Boxes : \E a \in DOMAIN mail[box] :
          mail[box][a].type \in {"plug", "attach"}
     \/ \E i \in Connecters :
          life[i] = "live" /\ AtWork(i)

Connected == session.engine # 0 /\ engine[session.engine].link = "up"

\* Once everybody is at rest the peer of the connection knows all
\* subscriptions, also those made while there was none, and no message of an
\* open socket waits in the pipe.
SubsArrive ==
  Quiet /\ fault = {} /\ Open /\ Connected =>
    /\ plan.type = "SUB" =>
         {got[session.engine][a].m :
            a \in 2..Len(got[session.engine])} = subs
    /\ session.pipe # 0 /\ pipe[session.pipe].end[1].state = "active" =>
         Last(pipe[session.pipe].down).items = <<>>

\* Two connecters are never at work at the same time, and the interval between
\* two attempts stays within its limit.
OneAttempt ==
  /\ \A i, j \in Connecters : AtWork(i) /\ AtWork(j) => i = j
  /\ \A i \in Connecters : connecter[i].current_reconnect_ivl
                               <= Max({plan.max, plan.ivl})

Handed(i) == got[i] \o engine[i].wire \o engine[i].out
Carries(n) == \E i \in Connecters :
                \E a \in DOMAIN Handed(i) : Handed(i)[a] = Part(n, FALSE)

\* The socket is closed, its linger period is infinite, no connection broke,
\* zmq_disconnect was not called, and the socket knew its session.
ClosedPatiently == /\ life[Socket] = "gone" /\ plan.linger = -1
                   /\ plan.steady /\ fault = {}

\* With an infinite linger period the session waits until the engine has taken
\* all messages.
LingerWaits ==
  ClosedPatiently => \A a \in DOMAIN written : Carries(written[a])

\* A closed socket ends, unless it is to wait for ever for a message that its
\* engine cannot send.
CloseEnds ==
  own[Socket].terminating ~>
    \/ life[Socket] = "gone" \/ fault # {}
    \/ plan.linger = -1 /\ \E i \in Connecters : engine[i].held # <<>>

\* The types hold and no assertion fails but those named in AssertsHold.
SessionSound == TypeOK /\ AssertsHold

\* Messages are whole in both directions over all connections, and none is
\* dropped before an infinite linger period has ended.
MessagesWhole == StreamsClean /\ WholeIn /\ LingerWaits

\* A session without a connection works on one, one attempt at a time, and what
\* the peer has to know reaches it by the new connection.
Reconnects == NeverAbandoned /\ OneAttempt /\ SubsArrive
=============================================================================
