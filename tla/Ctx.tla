-------------------------------- MODULE Ctx ---------------------------------
(***************************************************************************)
(* A zmq::ctx_t with its sockets, its reaper thread, an I/O thread and the *)
(* thread that calls zmq_term.  Sockets are created in slots, bound and    *)
(* connected by inproc (a pipe between two sockets), bound by tcp (a       *)
(* listener that launches a session with a pipe to the socket), closed by  *)
(* their applications and destroyed by the reaper.  All of this runs       *)
(* concurrently with the termination of the context.                       *)
(*                                                                         *)
(* A step is the processing of one command, or what an API call does       *)
(* between two accesses to state that other threads see.  Of the pipes     *)
(* only the termination protocol is kept; module Pipe has the rest.        *)
(* Operators on the record w are methods called synchronously: w holds     *)
(* the variables they change.                                              *)
(***************************************************************************)
EXTENDS Own, SequencesExt

CONSTANTS
  Sockets,        \* the sockets the applications may create, each once
  Slots,          \* the slots for sockets, max_sockets of them
  Binders,        \* bound: the sockets that bind by inproc and by tcp
  Connectors,     \* bound: the sockets that connect by inproc
  MixTransports,  \* bound: whether one socket binds by both
  MaxInterrupts   \* bound: how often zmq_term is interrupted

ASSUME CtxAssumption == /\ IsFiniteSet(Slots) /\ Slots # {}
                        /\ MaxInterrupts \in Nat
                        /\ MixTransports \in BOOLEAN
                        /\ Binders \cup Connectors \subseteq Sockets

None == "none"
Listener == "listener"
Session == "session"
Pipes == {"inproc", "attached"}      \* of connect, of the session
Objects == Sockets \cup {Listener, Session}

VARIABLES
  own,           \* the own_t part of each object
  life,          \* of each object: "unborn", "live", "destroyed", "gone"
  sock,          \* of each socket: phase, tid, ctx_terminated, target
  pipe,          \* the two ends of each pipe
  session,       \* session_base_t: pending, engine
  mail,          \* the mailboxes: of the slots, "io", "reaper" and "term"
  failed,        \* the assertions that failed and the commands that are lost
  ctx,           \* ctx_t: slots, empty_slots, sockets, starting, terminating
  endpoint,      \* the socket registered for the inproc address, or None
  term,          \* the thread of zmq_term: pc, interrupts
  reaper         \* reaper_t: sockets, terminating, state

treeVars == <<own, life, sock, pipe, session, mail, failed, endpoint>>
vars == <<treeVars, ctx, term, reaper>>

NoEnd == [object |-> None, state |-> "none", delay |-> FALSE,
          attached |-> FALSE, delimiter |-> FALSE]
NoSock == [phase |-> "none", tid |-> None, ctx_terminated |-> FALSE,
           target |-> None]

Init ==
  /\ own = [o \in Objects |-> NewOwn(NoOwner)]
  /\ life = [o \in Objects |-> "unborn"]
  /\ sock = [s \in Sockets |-> NoSock]
  /\ pipe = [p \in Pipes |-> [i \in {0, 1} |-> NoEnd]]
  /\ session = [pending |-> FALSE, engine |-> FALSE]
  /\ mail = [m \in Slots \cup {"io", "reaper", "term"} |-> <<>>]
  /\ failed = {}
  /\ ctx = [slots |-> [k \in Slots |-> None], sockets |-> {},
            empty_slots |-> SetToSeq(Slots), starting |-> TRUE,
            terminating |-> FALSE]
  /\ endpoint = None
  /\ term = [pc |-> "idle", interrupts |-> 0]
  /\ reaper = [sockets |-> 0, terminating |-> FALSE, state |-> "runs"]

-----------------------------------------------------------------------------
(* Commands *)

W == [own |-> own, life |-> life, sock |-> sock, pipe |-> pipe,
      session |-> session, mail |-> mail, failed |-> failed,
      endpoint |-> endpoint]

Becomes(world) ==
  \E w \in {world} :
    /\ own' = w.own /\ life' = w.life /\ sock' = w.sock /\ pipe' = w.pipe
    /\ session' = w.session /\ mail' = w.mail /\ failed' = w.failed
    /\ endpoint' = w.endpoint

zmq_assert(w, cond, what) ==
  IF cond THEN w ELSE [w EXCEPT !.failed = @ \cup {what}]

\* send_command: a command goes to the mailbox in the slot of the thread of
\* its destination.  It is lost when that slot is no longer the socket's.
send_command(w, type, to, arg) ==
  LET box == CASE to \in Sockets -> w.sock[to].tid
               [] to \in {Listener, Session} -> "io"
               [] OTHER -> to
      c   == [type |-> type, to |-> to, arg |-> arg]
  IN IF to \in Sockets => (box # None /\ ctx.slots[box] = to)
     THEN [w EXCEPT !.mail[box] = Append(@, c)]
     ELSE zmq_assert(w, FALSE, "command to a slot without the socket")

\* A command to one end of a pipe goes to the thread of that end's parent.
send_pipe_command(w, type, p, i) ==
  send_command(w, type, w.pipe[p][i].object, [pipe |-> p, end |-> i])

-----------------------------------------------------------------------------
(* own_t: the ownership tree *)

\* check_term_acks with the process_destroy of the object: a socket only
\* takes a note, other objects are deleted.
CheckTermAcks(w, o) ==
  IF ~check_term_acks(w.own[o]) THEN w
  ELSE LET a == IF w.own[o].owner = NoOwner THEN w
                ELSE send_command(w, "term_ack", w.own[o].owner, None)
       IN [a EXCEPT !.life[o] = IF o \in Sockets THEN "destroyed" ELSE "gone"]

UnregisterTermAck(w, o) ==
  LET a == zmq_assert(w, w.own[o].term_acks > 0, "term_acks > 0")
  IN IF w.own[o].term_acks = 0 THEN a
     ELSE CheckTermAcks([a EXCEPT !.own[o] = unregister_term_ack(@)], o)

SendTerms(w, children) ==
  FoldSet(LAMBDA c, acc : send_command(acc, "term", c, None), w, children)

ProcessTerm(w, o) ==
  LET a == zmq_assert(w, ~w.own[o].terminating, "no double termination")
      b == SendTerms(a, w.own[o].owned)
  IN CheckTermAcks(
       [b EXCEPT !.own[o] = process_term(@, Cardinality(@.owned))], o)

ProcessTermReq(w, o, child) ==
  [SendTerms(w, TermReqAsks(w.own[o], child))
     EXCEPT !.own[o] = process_term_req(@, child)]

\* Mutant of ProcessOwn: a child that comes too late is forgotten.
ForgetLateChild(w, o, child) ==
  IF w.own[o].terminating THEN w
  ELSE [w EXCEPT !.own[o] = process_own(@, child)]

ProcessOwn(w, o, child) ==
  [SendTerms(w, OwnAsks(w.own[o], child))
     EXCEPT !.own[o] = process_own(@, child)]

ProcessSeqnum(w, o) ==
  CheckTermAcks([w EXCEPT !.own[o] = process_seqnum(@)], o)

\* launch_child: both commands are announced to their destinations.
LaunchChild(w, parent, child) ==
  LET a == [w EXCEPT !.own[child] = inc_seqnum([@ EXCEPT !.owner = parent]),
                     !.own[parent] = inc_seqnum(@), !.life[child] = "live"]
  IN send_command(send_command(a, "plug", child, None), "own", parent, child)

-----------------------------------------------------------------------------
(* pipe_t: termination *)

\* pipepair: the ends belong to objects a and b; end 0 is plugged at once.
Pipepair(w, p, a, b) ==
  [w EXCEPT !.pipe[p] =
     [i \in {0, 1} |-> [object |-> IF i = 0 THEN a ELSE b,
                        state |-> "active", delay |-> TRUE,
                        attached |-> i = 0, delimiter |-> FALSE]]]

SendPipeTermAck(w, p, i, state) ==
  send_pipe_command([w EXCEPT !.pipe[p][i].state = state],
                    "pipe_term_ack", p, 1 - i)

\* terminate: the delimiter goes into the pipe when the end still has its
\* outpipe, which it gives up with its acknowledgement.
PipeTerminate(w, p, i, delay) ==
  LET e == w.pipe[p][i]
      d == [w EXCEPT !.pipe[p][i].delay = delay]
      Delimit(x) == [x EXCEPT !.pipe[p][1 - i].delimiter = TRUE]
  IN CASE e.state \in {"active", "delimited"} ->
            Delimit(send_pipe_command([d EXCEPT !.pipe[p][i].state =
                                         "terminated"],
                                      "pipe_term", p, 1 - i))
       [] e.state = "pending" /\ ~delay ->
            SendPipeTermAck(d, p, i, "terminating")
       [] e.state = "pending" /\ delay -> Delimit(d)
       [] OTHER -> d

\* delimit: the reader of the end has met the delimiter.
PipeDelimit(w, p, i) ==
  LET e == w.pipe[p][i]
      d == [w EXCEPT !.pipe[p][i].delimiter = FALSE]
  IN CASE e.state = "active" -> [d EXCEPT !.pipe[p][i].state = "delimited"]
       [] e.state = "pending" -> SendPipeTermAck(d, p, i, "terminating")
       [] OTHER -> zmq_assert(d, FALSE, "delimiter in another state")

\* check_read: only an active or a pending end reads.
CheckRead(w, p, i) ==
  IF w.pipe[p][i].delimiter /\ w.pipe[p][i].state \in {"active", "pending"}
  THEN PipeDelimit(w, p, i) ELSE w

ProcessPipeTerm(w, p, i) ==
  LET e == w.pipe[p][i]
  IN CASE e.state = "active" /\ e.delay ->
            [w EXCEPT !.pipe[p][i].state = "pending"]
       [] \/ e.state = "active" /\ ~e.delay
          \/ e.state = "delimited" -> SendPipeTermAck(w, p, i, "terminating")
       [] e.state = "terminated" ->
            SendPipeTermAck(w, p, i, "double_terminated")
       [] OTHER -> zmq_assert(w, FALSE, "pipe_term in another state")

-----------------------------------------------------------------------------
(* socket_base_t and session_base_t: what they do with pipes *)

EndsOf(w, o) ==
  {e \in Pipes \X {0, 1} : /\ w.pipe[e[1]][e[2]].object = o
                           /\ w.pipe[e[1]][e[2]].attached}

\* attach_pipe: a closing socket terminates the pipe at once.
AttachPipe(w, p, i, s) ==
  LET a == [w EXCEPT !.pipe[p][i].attached = TRUE]
  IN IF ~w.own[s].terminating THEN a
     ELSE PipeTerminate([a EXCEPT !.own[s] = register_term_acks(@, 1)],
                        p, i, FALSE)

\* terminated of a session: the end of its pipe ends its pending phase.
SessionTerminated(w) ==
  IF w.session.pending
  THEN ProcessTerm([w EXCEPT !.session.pending = FALSE], Session) ELSE w

\* terminated of a socket.
SocketTerminated(w, s) ==
  IF w.own[s].terminating THEN UnregisterTermAck(w, s) ELSE w

\* process_pipe_term_ack: the sink forgets the pipe, which is deleted.
ProcessPipeTermAck(w, p, i) ==
  LET e == w.pipe[p][i]
      a == zmq_assert(w, e.attached, "sink")
      b == [a EXCEPT !.pipe[p][i].attached = FALSE]
      c == IF e.object = Session THEN SessionTerminated(b)
           ELSE SocketTerminated(b, e.object)
  IN IF e.state = "terminated" THEN SendPipeTermAck(c, p, i, "gone")
     ELSE zmq_assert([c EXCEPT !.pipe[p][i].state = "gone"],
                 e.state \in {"terminating", "double_terminated"},
                 "pipe_term_ack in another state")

\* process_term of a socket: its address is withdrawn before its pipes end.
SocketProcessTerm(w, s) ==
  LET a == [w EXCEPT !.endpoint = IF @ = s THEN None ELSE @]
      b == FoldSet(LAMBDA e, acc : PipeTerminate(acc, e[1], e[2], FALSE),
                   a, EndsOf(w, s))
  IN ProcessTerm(
       [b EXCEPT !.own[s] = register_term_acks(@, Cardinality(EndsOf(w, s)))],
       s)

\* process_term of a session: it waits for its pipe (linger is not zero; linger
\* and its timer are in Session).
SessionProcessTerm(w) ==
  LET a == zmq_assert(w, ~w.session.pending, "session not pending")
  IN IF EndsOf(w, Session) = {} THEN ProcessTerm(a, Session)
     ELSE CheckRead(PipeTerminate([a EXCEPT !.session.pending = TRUE],
                                  "attached", 0, TRUE),
                    "attached", 0)

\* process_attach of a session, for the engine of an accepted connection.
SessionProcessAttach(w, s) ==
  LET a == IF EndsOf(w, Session) # {} \/ w.own[Session].terminating THEN w
           ELSE send_command(
                  [Pipepair(w, "attached", Session, s)
                     EXCEPT !.own[s] = inc_seqnum(@)],
                  "bind", s, [pipe |-> "attached", end |-> 1])
  IN [zmq_assert(a, ~w.session.engine, "no engine") EXCEPT !.session.engine = TRUE]

\* The socket whose address the listener listens on.
ListenerSocket(w) == w.own[Listener].owner

\* process_command of the object a command is addressed to.
ProcessCommand(w, c) ==
  LET o == c.to
  IN CASE c.type = "plug" -> ProcessSeqnum(w, o)
       [] c.type = "own" -> ProcessSeqnum(ProcessOwn(w, o, c.arg), o)
       [] c.type = "attach" ->
            ProcessSeqnum(SessionProcessAttach(w, ListenerSocket(w)), o)
       [] c.type = "bind" ->
            ProcessSeqnum(AttachPipe(w, c.arg.pipe, c.arg.end, o), o)
       [] c.type = "term_req" -> ProcessTermReq(w, o, c.arg)
       [] c.type = "term" /\ o = Session -> SessionProcessTerm(w)
       [] c.type = "term" /\ o # Session -> ProcessTerm(w, o)
       [] c.type = "term_ack" -> UnregisterTermAck(w, o)
       [] c.type = "pipe_term" -> ProcessPipeTerm(w, c.arg.pipe, c.arg.end)
       [] c.type = "pipe_term_ack" ->
            ProcessPipeTermAck(w, c.arg.pipe, c.arg.end)
       [] c.type = "stop" -> [w EXCEPT !.sock[o].ctx_terminated = TRUE]

\* The next command of a mailbox, which must be for an object that exists.
Take(box) ==
  zmq_assert([W EXCEPT !.mail[box] = Tail(@)],
         life[Head(mail[box]).to] \in {"live", "destroyed"},
         "command for a deleted object")

Running == failed = {} /\ term.pc # "deleted"

-----------------------------------------------------------------------------
(* The applications' calls *)

\* An API call first processes all commands of its socket.
CallPossible(s) ==
  /\ Running
  /\ sock[s].phase = "open" /\ ~sock[s].ctx_terminated
  /\ mail[sock[s].tid] = <<>>

\* create_socket: the last slot freed is the first to be used.
create_socket(s) ==
  /\ Running
  /\ life[s] = "unborn"
  /\ ~ctx.terminating
  /\ ctx.empty_slots # <<>>
  /\ LET k == Last(ctx.empty_slots)
     IN /\ ctx' = [ctx EXCEPT !.slots[k] = s, !.sockets = @ \cup {s},
                              !.empty_slots = Front(@), !.starting = FALSE]
        /\ sock' = [sock EXCEPT ![s].phase = "open", ![s].tid = k]
  /\ life' = [life EXCEPT ![s] = "live"]
  /\ UNCHANGED <<own, pipe, session, mail, failed, endpoint, term, reaper>>

bind_inproc(s) ==
  /\ CallPossible(s) /\ s \in Binders
  /\ endpoint = None
  /\ life[Listener] = "unborn" \/ MixTransports
  /\ endpoint' = s
  /\ UNCHANGED <<own, life, sock, pipe, session, mail, failed, ctx, term,
                 reaper>>

bind_tcp(s) ==
  /\ CallPossible(s) /\ s \in Binders
  /\ life[Listener] = "unborn"
  /\ endpoint = None \/ MixTransports
  /\ Becomes(LaunchChild(W, s, Listener))
  /\ UNCHANGED <<ctx, term, reaper>>

\* connect, up to find_endpoint: the peer must not go before the bind.
find_endpoint(s) ==
  /\ CallPossible(s) /\ s \in Connectors
  /\ endpoint \notin {None, s}
  /\ pipe["inproc"][0].state = "none"
  /\ \A t \in Sockets : sock[t].phase # "connecting"   \* one at a time
  /\ sock' = [sock EXCEPT ![s].phase = "connecting", ![s].target = endpoint]
  /\ own' = [own EXCEPT ![endpoint] = inc_seqnum(@)]
  /\ UNCHANGED <<life, pipe, session, mail, failed, endpoint, ctx, term,
                 reaper>>

\* connect, after find_endpoint.
connect_inproc(s) ==
  /\ Running
  /\ sock[s].phase = "connecting"
  /\ LET peer == sock[s].target
     IN Becomes([send_command(Pipepair(W, "inproc", s, peer), "bind", peer,
                              [pipe |-> "inproc", end |-> 1])
                   EXCEPT !.sock[s].phase = "open"])
  /\ UNCHANGED <<ctx, term, reaper>>

\* term_endpoint (zmq_disconnect) of an inproc address.
disconnect_inproc(s) ==
  /\ CallPossible(s)
  /\ <<"inproc", 0>> \in EndsOf(W, s)
  /\ pipe["inproc"][0].state \in {"active", "delimited", "pending"}
  /\ Becomes(PipeTerminate(W, "inproc", 0, TRUE))
  /\ UNCHANGED <<ctx, term, reaper>>

\* term_endpoint (zmq_unbind) of a tcp address.
unbind_tcp(s) ==
  /\ CallPossible(s)
  /\ Listener \in own[s].owned
  /\ Becomes(ProcessTermReq(W, s, Listener))
  /\ UNCHANGED <<ctx, term, reaper>>

\* A message is received: the application meets a delimiter.
ReadDelimiter(s) ==
  /\ CallPossible(s)
  /\ \E e \in EndsOf(W, s) :
       /\ pipe[e[1]][e[2]].delimiter
       /\ pipe[e[1]][e[2]].state \in {"active", "pending"}
       /\ Becomes(PipeDelimit(W, e[1], e[2]))
  /\ UNCHANGED <<ctx, term, reaper>>

close(s) ==
  /\ Running
  /\ sock[s].phase = "open"
  /\ Becomes([send_command(W, "reap", "reaper", s)
                EXCEPT !.sock[s].phase = "closed"])
  /\ UNCHANGED <<ctx, term, reaper>>

\* process_commands, one command: by the application or, once the socket is
\* closed, by the reaper.
SocketCommand(s) ==
  /\ Running
  /\ sock[s].phase \in {"open", "reaping"}
  /\ mail[sock[s].tid] # <<>>
  /\ Becomes(ProcessCommand(Take(sock[s].tid), Head(mail[sock[s].tid])))
  /\ UNCHANGED <<ctx, term, reaper>>

-----------------------------------------------------------------------------
(* The I/O thread *)

IoCommand ==
  /\ Running
  /\ mail["io"] # <<>>
  /\ Becomes(ProcessCommand(Take("io"), Head(mail["io"])))
  /\ UNCHANGED <<ctx, term, reaper>>

\* in_event of the listener: a connection is accepted.  The listener was
\* plugged by the command plug and is not terminating.
accept ==
  /\ Running
  /\ life[Listener] = "live" /\ own[Listener].processed_seqnum > 0
  /\ ~own[Listener].terminating
  /\ life[Session] = "unborn"
  /\ LET a == [W EXCEPT !.own[Session] = inc_seqnum(@)]
     IN Becomes(send_command(LaunchChild(a, Listener, Session),
                             "attach", Session, None))
  /\ UNCHANGED <<ctx, term, reaper>>

\* detach: the engine reports that the connection is lost; terminate of an
\* owned object is a request to the owner.
detach ==
  /\ Running
  /\ life[Session] = "live" /\ session.engine
  /\ LET a == [W EXCEPT !.session.engine = FALSE]
         b == IF own[Session].terminating THEN a
              ELSE send_command(a, "term_req", own[Session].owner, Session)
     IN Becomes(IF EndsOf(W, Session) = {} THEN b
                ELSE CheckRead(b, "attached", 0))
  /\ UNCHANGED <<ctx, term, reaper>>

\* The engine reads the delimiter when it pulls messages from the session.
EngineReadsDelimiter ==
  /\ Running
  /\ life[Session] = "live" /\ session.engine
  /\ EndsOf(W, Session) # {} /\ pipe["attached"][0].delimiter
  /\ pipe["attached"][0].state \in {"active", "pending"}
  /\ Becomes(PipeDelimit(W, "attached", 0))
  /\ UNCHANGED <<ctx, term, reaper>>

-----------------------------------------------------------------------------
(* The reaper thread *)

\* Once it is done the reaper leaves its loop when its mailbox is empty.
ReaperRuns == Running /\ reaper.state \in {"runs", "stopping"}

DoubleStop == "the mailbox of the reaper is removed twice"

\* send_done, rm_fd and stop of the poller.
Finish(w) ==
  zmq_assert(send_command(w, "done", "term", None), reaper.state = "runs",
         DoubleStop)

ReaperHead(type) ==
  /\ ReaperRuns
  /\ mail["reaper"] # <<>> /\ Head(mail["reaper"]).type = type

ReaperTail == [W EXCEPT !.mail["reaper"] = Tail(@)]

\* start_reaping: terminate and check_destroy at once, whatever is left in the
\* mailbox (destroy_socket is the next step).
process_reap ==
  /\ ReaperHead("reap")
  /\ LET s == Head(mail["reaper"]).arg
         w == SocketProcessTerm([ReaperTail EXCEPT !.sock[s].phase = "reaping"], s)
     IN Becomes(IF w.life[s] = "destroyed"
                THEN [w EXCEPT !.sock[s].phase = "drained"] ELSE w)
  /\ reaper' = [reaper EXCEPT !.sockets = @ + 1]
  /\ UNCHANGED <<ctx, term>>

process_reaped ==
  /\ ReaperHead("reaped")
  /\ IF reaper.sockets = 1 /\ reaper.terminating
     THEN Becomes(Finish(ReaperTail)) /\
          reaper' = [reaper EXCEPT !.sockets = @ - 1, !.state = "stopping"]
     ELSE Becomes(ReaperTail) /\ reaper' = [reaper EXCEPT !.sockets = @ - 1]
  /\ UNCHANGED <<ctx, term>>

process_stop ==
  /\ ReaperHead("stop")
  /\ IF reaper.sockets = 0
     THEN Becomes(Finish(ReaperTail)) /\
          reaper' = [reaper EXCEPT !.terminating = TRUE, !.state = "stopping"]
     ELSE Becomes(ReaperTail) /\ reaper' = [reaper EXCEPT !.terminating = TRUE]
  /\ UNCHANGED <<ctx, term>>

ReaperExits ==
  /\ Running
  /\ reaper.state = "stopping" /\ mail["reaper"] = <<>>
  /\ reaper' = [reaper EXCEPT !.state = "exited"]
  /\ UNCHANGED <<treeVars, ctx, term>>

\* check_destroy in in_event: process_commands has found the mailbox empty.
EndOfCommands(s) ==
  /\ Running
  /\ sock[s].phase = "reaping" /\ life[s] = "destroyed"
  /\ mail[sock[s].tid] = <<>>
  /\ sock' = [sock EXCEPT ![s].phase = "drained"]
  /\ UNCHANGED <<own, life, pipe, session, mail, failed, endpoint, ctx, term,
                 reaper>>

\* Mutant of destroy_socket: the last socket does not stop the reaper.
DestroyQuietly(s) ==
  /\ Running
  /\ sock[s].phase = "drained"
  /\ ctx' = [ctx EXCEPT !.slots[sock[s].tid] = None, !.sockets = @ \ {s},
                        !.empty_slots = Append(@, sock[s].tid)]
  /\ Becomes([send_command(W, "reaped", "reaper", None)
                EXCEPT !.sock[s].phase = "gone", !.life[s] = "gone",
                       !.mail[sock[s].tid] = <<>>])
  /\ UNCHANGED <<term, reaper>>

\* destroy_socket, then send_reaped and the deletion of the socket.
destroy_socket(s) ==
  /\ Running
  /\ sock[s].phase = "drained"
  /\ ctx' = [ctx EXCEPT !.slots[sock[s].tid] = None, !.sockets = @ \ {s},
                        !.empty_slots = Append(@, sock[s].tid)]
  /\ LET a == IF ctx.terminating /\ ctx.sockets = {s}
              THEN send_command(W, "stop", "reaper", None) ELSE W
         b == zmq_assert(a, \A i \in DOMAIN mail[sock[s].tid] :
                          mail[sock[s].tid][i].type = "stop",
                     "the mailbox of a deleted socket holds a command")
     IN Becomes([send_command(b, "reaped", "reaper", None)
                   EXCEPT !.sock[s].phase = "gone", !.life[s] = "gone",
                          !.mail[sock[s].tid] = <<>>])
  /\ UNCHANGED <<term, reaper>>

-----------------------------------------------------------------------------
(* The thread of zmq_term *)

\* terminate, its first critical section: a context without sockets so far
\* is deleted at once; only the first call stops the sockets.
terminate ==
  /\ Running
  /\ term.pc = "idle"
  /\ term' = [term EXCEPT !.pc = IF ctx.starting THEN "deleted"
                                 ELSE IF ctx.terminating THEN "waiting"
                                 ELSE "stopping"]
  /\ ctx' = [ctx EXCEPT !.terminating = ~ctx.starting]
  /\ UNCHANGED <<treeVars, reaper>>

\* The second critical section.
stop_sockets ==
  /\ Running
  /\ term.pc = "stopping"
  /\ term' = [term EXCEPT !.pc = "waiting"]
  /\ Becomes(IF ctx.sockets = {}
             THEN send_command(W, "stop", "reaper", None)
             ELSE FoldSet(LAMBDA s, acc : send_command(acc, "stop", s, None),
                          W, ctx.sockets))
  /\ UNCHANGED <<ctx, reaper>>

\* recv on term_mailbox is interrupted by a signal; zmq_term is called again.
Interrupted ==
  /\ Running
  /\ term.pc = "waiting" /\ term.interrupts < MaxInterrupts
  /\ term' = [pc |-> "idle", interrupts |-> term.interrupts + 1]
  /\ UNCHANGED <<treeVars, ctx, reaper>>

\* done arrives: the assertions of terminate and of ~ctx_t, which waits for
\* the reaper and for the I/O thread to end.
DeleteContext ==
  /\ Running
  /\ term.pc = "waiting" /\ mail["term"] # <<>>
  /\ reaper.state = "exited"
  /\ failed' = IF ctx.sockets = {} THEN failed
               ELSE failed \cup {"sockets.empty ()"}
  /\ term' = [term EXCEPT !.pc = "deleted"]
  /\ mail' = [mail EXCEPT !["term"] = Tail(@)]
  /\ UNCHANGED <<own, life, sock, pipe, session, endpoint, ctx, reaper>>

Next ==
  \/ \E s \in Sockets :
       \/ create_socket(s) \/ bind_inproc(s) \/ bind_tcp(s)
       \/ find_endpoint(s) \/ connect_inproc(s) \/ disconnect_inproc(s)
       \/ unbind_tcp(s) \/ ReadDelimiter(s) \/ close(s) \/ SocketCommand(s)
       \/ EndOfCommands(s) \/ destroy_socket(s)
  \/ IoCommand \/ accept \/ detach \/ EngineReadsDelimiter
  \/ process_reap \/ process_reaped \/ process_stop \/ ReaperExits
  \/ terminate \/ stop_sockets \/ Interrupted \/ DeleteContext

Application(s) == connect_inproc(s) \/ close(s)

IoThread == IoCommand \/ EngineReadsDelimiter

ReaperThread ==
  \/ process_reap \/ process_reaped \/ process_stop \/ ReaperExits
  \/ \E s \in Sockets :
       \/ SocketCommand(s) /\ sock[s].phase = "reaping"
       \/ EndOfCommands(s) \/ destroy_socket(s)

TermThread == terminate \/ stop_sockets \/ DeleteContext

Threads == \/ TermThread \/ ReaperThread \/ IoThread
           \/ \E s \in Sockets : Application(s)

\* The guards of Threads: equal to ENABLED Threads, and cheap to evaluate.
CanRun ==
  /\ Running
  /\ \/ term.pc \in {"idle", "stopping"}
     \/ term.pc = "waiting" /\ mail["term"] # <<>> /\ reaper.state = "exited"
     \/ reaper.state = "stopping"
     \/ reaper.state = "runs" /\ mail["reaper"] # <<>>
     \/ mail["io"] # <<>>
     \/ /\ life[Session] = "live" /\ session.engine
        /\ EndsOf(W, Session) # {} /\ pipe["attached"][0].delimiter
        /\ pipe["attached"][0].state \in {"active", "pending"}
     \/ \E s \in Sockets :
          \/ sock[s].phase \in {"open", "connecting", "drained"}
          \/ /\ sock[s].phase = "reaping"
             /\ mail[sock[s].tid] # <<>> \/ life[s] = "destroyed"

\* Weak fairness of Threads: some thread that can run does: a thread of the
\* library, an application that finishes the call it is in or closes its
\* socket, or zmq_term, which is called again after an interrupt.  Nothing
\* is assumed of the network (accept, detach).  No behaviour has a cycle, so
\* that this gives every thread its turn.
Fairness == []<>~CanRun \/ []<><<Threads>>_vars

Spec == Init /\ [][Next]_vars /\ Fairness

-----------------------------------------------------------------------------
(* Properties *)

ObjectType ==
  /\ own \in [Objects -> [terminating : BOOLEAN, sent_seqnum : Nat,
                          processed_seqnum : Nat, term_acks : Nat,
                          owner : Objects \cup {NoOwner},
                          owned : SUBSET Objects]]
  /\ life \in [Objects -> {"unborn", "live", "destroyed", "gone"}]
  /\ session \in [pending : BOOLEAN, engine : BOOLEAN]
  /\ \A s \in Sockets :
       /\ sock[s].phase \in {"none", "open", "connecting", "closed",
                             "reaping", "drained", "gone"}
       /\ sock[s].tid \in Slots \cup {None}

\* Every variable has its type, no object has processed more announced
\* commands than were announced to it (own_t::process_seqnum), and every
\* slot is free or the slot of one socket of the context (create_socket,
\* destroy_socket).
TypeOK ==
  /\ ObjectType
  /\ \A o \in Objects : own[o].processed_seqnum <= own[o].sent_seqnum
  /\ ctx.sockets = {s \in Sockets : life[s] \in {"live", "destroyed"}}
  /\ \A k \in Slots : /\ ctx.slots[k] = None <=> k \in ToSet(ctx.empty_slots)
                      /\ ctx.slots[k] # None => sock[ctx.slots[k]].tid = k

\* The assertions of own_t, pipe_t, session_base_t and ctx_t hold, every
\* command reaches its object before the object is deleted, and no command
\* but stop is left in the mailbox of a deleted socket or sent to a slot
\* that is empty or has a new owner, whatever is closed, connected, accepted
\* or terminated concurrently.  (DoubleStop, a second stop for the reaper, can
\* happen: README, known disagreements.)
AssertsHold == failed \subseteq {DoubleStop}

\* When zmq_term returns, every listener, session, socket and pipe has been
\* deleted, and the I/O thread has no command left (ctx_t::~ctx_t relies on it).
NothingLeft ==
  term.pc = "deleted" =>
    /\ \A o \in Objects : life[o] \in {"unborn", "gone"}
    /\ \A p \in Pipes, i \in {0, 1} : pipe[p][i].state \in {"none", "gone"}
    /\ mail["io"] = <<>>

\* Once every application closes its sockets, zmq_term returns, also when it
\* is interrupted and called again: every closed socket is destroyed, with
\* its listener, its session and its pipes, in whatever order the ends of a
\* pipe are closed (ctx_t::terminate, reaper_t, own_t, pipe_t).
TermReturns == <>(term.pc = "deleted" \/ failed # {})

\* The types hold, no assertion fails while sockets are created, connected and
\* closed beside zmq_term, and nothing is left when it returns.
CtxSound == TypeOK /\ AssertsHold /\ NothingLeft
=============================================================================
