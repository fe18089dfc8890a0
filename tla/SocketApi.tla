------------------------------ MODULE SocketApi ------------------------------
(***************************************************************************)
(* An application thread in zmq_send, zmq_recv, zmq_poll and zmq_proxy:    *)
(* how the calls take commands from the mailbox of a socket, wait for      *)
(* them, give up at a timeout, are interrupted and end with the context.   *)
(* Another program sets and reads the options of a socket and binds it.    *)
(* The sockets are of type PAIR, each with one pipe to a peer; a mailbox   *)
(* is the queue that the module Mailbox shows it to implement.             *)
(***************************************************************************)
EXTENDS Options, SequencesExt

CONSTANTS
  Socks,    \* the sockets: "f", "b" and "c", for the proxy's three
  Rate,     \* inbound_poll_rate
  Hwm,      \* messages that fit in a pipe
  MaxWmDelta, \* max_wm_delta
  Early,    \* how far the clock runs outside a wait
  MaxTime,  \* how far it runs in a call
  Addrs,    \* addresses of those that connect
  Trials,   \* the values that are tried for each option
  Plans     \* what the application does

ASSUME SocketApiAssumption ==
  /\ {"f", "b", "c"} \subseteq Socks /\ "raw" \notin Socks
  /\ Rate \in Nat /\ Hwm \in Nat \ {0} /\ MaxWmDelta \in Nat
  /\ Early \in Nat /\ MaxTime \in Nat /\ Early <= MaxTime
  /\ \A p \in Plans : /\ p.msgs \in [Socks -> Nat]
                      /\ p.timeouts \subseteq Int
                      /\ p.items \in Seq(Socks \cup {"raw"})

VARIABLES
  plan,   \* [app, impl, msgs, timeouts, signals, capture, items, term,
          \*  opts, sets, binds, keepalive]
  sk,     \* the sockets
  peer,   \* of each socket's peer: the messages it has sent and received,
          \*  and how many of these it last told of
  raw,    \* what the raw descriptor of zmq_poll is ready for
  call,   \* the call that the thread is in
  ret,    \* what the last call returned
  app,    \* where the application is, and what it knows
  listener, \* the listener of the bound socket
  clock   \* now, from the start of the call, and last_time of clock_t

vars == <<plan, sk, peer, raw, call, ret, app, listener, clock>>

Part(m, more) == [m |-> m, more |-> more]
\* Messages with an even number have two parts.
Parts(m) == IF m % 2 = 0 THEN <<Part(m, TRUE), Part(m, FALSE)>>
            ELSE <<Part(m, FALSE)>>
NoPart == Part(0, FALSE)
NoCall == [fn |-> "none", pc |-> "idle", s |-> "f", timeo |-> 0, left |-> 0,
           end |-> 0, until |-> 0, t0 |-> 0, block |-> FALSE,
           part |-> NoPart, was |-> FALSE, i |-> 1, seen |-> {}, rev |-> {}]
NoRet == [fn |-> "none", s |-> "f", rc |-> "ok", part |-> NoPart,
          rev |-> {}, was |-> FALSE, timeo |-> 0, t0 |-> 0,
          opt |-> "none", val |-> 0, len |-> 0, given |-> 0]

\* written and known are msgs_written and peers_msgs_read of the pipe,
\* asleep is the state of the ypipe in which the peer has to signal.
NewSocket == [in |-> <<>>, in_active |-> TRUE, asleep |-> FALSE,
              out |-> <<>>, written |-> 0, known |-> 0, cmds |-> <<>>,
              ticks |-> 0, rcvmore |-> FALSE, ctx_terminated |-> FALSE,
              options |-> NewOptions]

Init ==
  /\ plan \in Plans
  /\ sk = [s \in Socks |-> NewSocket]
  /\ peer = [s \in Socks |-> [sent |-> 0, read |-> 0, told |-> 0, got |-> <<>>]]
  /\ raw = {} /\ call = NoCall /\ ret = NoRet
  /\ app = [pc |-> "start", from |-> "f", rev |-> {}, part |-> NoPart,
            next |-> 1, set |-> NewOptions, bound |-> <<>>, came |-> {}]
  /\ listener = NewListener(NewOptions)
  /\ clock = [now |-> 0, last |-> 0]

\* What a call could have at this moment: a part that was sent, and space
\* that the peer has told of.
Readable(s) == sk[s].in # <<>>
Writable(s) == sk[s].written - peer[s].told < Hwm
-----------------------------------------------------------------------------
(* The pipe, the mailbox and the clock.                                    *)

\* Mutant of check_read: the writer does not learn that the reader sleeps.
CheckReadQuietly(x) ==
  IF x.in # <<>> THEN x ELSE [x EXCEPT !.in_active = FALSE]
\* pipe_t::check_read: an empty pipe makes the reader passive.
check_read(x) ==
  IF x.in_active /\ x.in # <<>> THEN x
  ELSE IF x.in_active THEN [x EXCEPT !.in_active = FALSE, !.asleep = TRUE]
  ELSE x
CanRead(x) == x.in_active /\ x.in # <<>>
CanWrite(x) == x.written - x.known < Hwm

xsend(x, p) == [x EXCEPT !.out = Append(@, p),
                         !.written = IF p.more THEN @ ELSE @ + 1]
\* With extract_flags.
xrecv(x) == [x EXCEPT !.in = Tail(@), !.rcvmore = Head(x.in).more]

process_command(x, c) ==
  CASE c.type = "activate_read"  -> [x EXCEPT !.in_active = TRUE]
    [] c.type = "activate_write" -> [x EXCEPT !.known = c.read]
    [] c.type = "stop"           -> [x EXCEPT !.ctx_terminated = TRUE]
Drain(x) ==
  LET after[n \in 0..Len(x.cmds)] ==
        IF n = 0 THEN [x EXCEPT !.cmds = <<>>]
        ELSE process_command(after[n - 1], x.cmds[n])
  IN after[Len(x.cmds)]

\* clock_t::now_ms: the time of day, or the cached value while the counter
\* has not gone far, which is a millisecond at the most.
now_ms == {clock.now} \cup {t \in {clock.last} : t >= clock.now - 1}

\* process_commands: what it makes of the socket, and its result.  A wait
\* ends with a command, at its timeout or with a signal; throttle lets it
\* return at once, depending on the CPU's counter.
Waiting(s, timeout) ==
  timeout # 0 /\ sk[s].cmds = <<>> /\ (timeout < 0 \/ clock.now < call.until)
process_commands(s, timeout, throttle) ==
  LET x == Drain(sk[s])
  IN (IF throttle THEN {[x |-> sk[s], rc |-> "ok"]} ELSE {})
     \cup (IF Waiting(s, timeout) THEN {}
           ELSE {[x |-> x, rc |-> IF x.ctx_terminated THEN "ETERM"
                                  ELSE "ok"]})
     \cup (IF plan.signals THEN {[x |-> x, rc |-> "EINTR"]} ELSE {})

Becomes(s, x) == sk' = [sk EXCEPT ![s] = x]
Goto(pc) == call' = [call EXCEPT !.pc = pc] /\ UNCHANGED ret
Return(rc, part) ==
  /\ call' = NoCall
  /\ ret' = [NoRet EXCEPT !.fn = call.fn, !.s = call.s, !.rc = rc,
               !.part = part, !.rev = call.rev, !.was = call.was,
               !.timeo = call.timeo, !.t0 = call.t0]
At(fn, pc) == call.fn = fn /\ call.pc = pc
Outside == UNCHANGED <<plan, peer, raw, app, listener>>
Kept == UNCHANGED <<plan, peer, raw, app, listener, clock>>

\* The timeout of a call that has to wait, and what is left of it after a
\* wait; zero or less is its end.
StartWait(pc, block) ==
  \E t \in now_ms :
    /\ clock' = [clock EXCEPT !.last = t]
    /\ call' = [call EXCEPT !.pc = pc, !.left = call.timeo, !.block = block,
                  !.end = t + call.timeo, !.t0 = clock.now,
                  !.until = clock.now + call.timeo]
    /\ UNCHANGED ret
WaitMore(pc) ==
  IF call.left < 0 THEN /\ call' = [call EXCEPT !.pc = pc, !.block = TRUE]
                        /\ UNCHANGED <<ret, clock>>
  ELSE \E t \in now_ms :
         /\ clock' = [clock EXCEPT !.last = t]
         /\ IF t >= call.end THEN Return("EAGAIN", NoPart)
            ELSE /\ call' = [call EXCEPT !.pc = pc, !.block = TRUE,
                               !.left = call.end - t,
                               !.until = clock.now + call.end - t]
                 /\ UNCHANGED ret
-----------------------------------------------------------------------------
(* zmq_recv.                                                               *)

\* A counter past Rate, where a signal at the very call can leave it, does
\* not meet it again; it is stopped there.
More(ticks) == IF ticks > Rate THEN ticks ELSE ticks + 1
recv ==
  /\ At("recv", "enter")
  /\ LET s == call.s
     IN IF sk[s].ctx_terminated
        THEN Return("ETERM", NoPart) /\ UNCHANGED sk
        ELSE /\ Becomes(s, [sk[s] EXCEPT !.ticks = More(@)])
             /\ Goto(IF sk[s].ticks + 1 = Rate THEN "rate" ELSE "try")
  /\ Kept

\* process_commands without waiting, once in Rate calls and before a call
\* that must not wait gives up.
RecvCommands ==
  /\ call.fn = "recv" /\ call.pc \in {"rate", "nowait"}
  /\ \E r \in process_commands(call.s, 0, FALSE) :
       IF r.rc # "ok" THEN Return(r.rc, NoPart) /\ Becomes(call.s, r.x)
       ELSE /\ Becomes(call.s, [r.x EXCEPT !.ticks = 0])
            /\ Goto(IF call.pc = "rate" THEN "try" ELSE "last")
  /\ Kept

\* Mutant of RecvTry: a call that must not block does not take the commands.
RecvGivesUp ==
  /\ At("recv", "try")
  /\ IF CanRead(sk[call.s])
     THEN /\ Return("ok", Head(sk[call.s].in))
          /\ Becomes(call.s, xrecv(sk[call.s]))
          /\ UNCHANGED clock
     ELSE /\ Becomes(call.s, check_read(sk[call.s]))
          /\ IF call.timeo = 0
             THEN Return("EAGAIN", NoPart) /\ UNCHANGED clock
             ELSE StartWait("wait", sk[call.s].ticks # 0)
  /\ Outside
RecvTry ==
  /\ At("recv", "try")
  /\ IF CanRead(sk[call.s])
     THEN /\ Return("ok", Head(sk[call.s].in))
          /\ Becomes(call.s, xrecv(sk[call.s]))
          /\ UNCHANGED clock
     ELSE /\ Becomes(call.s, check_read(sk[call.s]))
          /\ IF call.timeo = 0 THEN Goto("nowait") /\ UNCHANGED clock
             ELSE StartWait("wait", sk[call.s].ticks # 0)
  /\ Outside

RecvLast ==
  /\ At("recv", "last")
  /\ IF CanRead(sk[call.s])
     THEN /\ Return("ok", Head(sk[call.s].in))
          /\ Becomes(call.s, xrecv(sk[call.s]))
     ELSE /\ Return("EAGAIN", NoPart)
          /\ Becomes(call.s, check_read(sk[call.s]))
  /\ Kept

RecvWait ==
  /\ At("recv", "wait")
  /\ \E r \in process_commands(call.s, IF call.block THEN call.left ELSE 0,
                               FALSE) :
       /\ Becomes(call.s, r.x)
       /\ IF r.rc # "ok" THEN Return(r.rc, NoPart) ELSE Goto("retry")
  /\ Kept

RecvRetry ==
  /\ At("recv", "retry")
  /\ IF CanRead(sk[call.s])
     THEN /\ Return("ok", Head(sk[call.s].in))
          /\ Becomes(call.s, [xrecv(sk[call.s]) EXCEPT !.ticks = 0])
          /\ UNCHANGED clock
     ELSE /\ Becomes(call.s, check_read(sk[call.s]))
          /\ WaitMore("wait")
  /\ Outside
-----------------------------------------------------------------------------
(* zmq_send.                                                               *)

send ==
  /\ At("send", "enter")
  /\ IF sk[call.s].ctx_terminated
     THEN Return("ETERM", NoPart) /\ UNCHANGED sk
     ELSE \E r \in process_commands(call.s, 0, TRUE) :
            /\ Becomes(call.s, r.x)
            /\ IF r.rc # "ok" THEN Return(r.rc, NoPart) ELSE Goto("try")
  /\ Kept

SendTry ==
  /\ At("send", "try")
  /\ IF CanWrite(sk[call.s])
     THEN /\ Return("ok", call.part)
          /\ Becomes(call.s, xsend(sk[call.s], call.part))
          /\ UNCHANGED clock
     ELSE /\ UNCHANGED sk
          /\ IF call.timeo = 0
             THEN Return("EAGAIN", NoPart) /\ UNCHANGED clock
             ELSE StartWait("wait", TRUE)
  /\ Outside

SendWait ==
  /\ At("send", "wait")
  /\ \E r \in process_commands(call.s, call.left, FALSE) :
       /\ Becomes(call.s, r.x)
       /\ IF r.rc # "ok" THEN Return(r.rc, NoPart) ELSE Goto("retry")
  /\ Kept

SendRetry ==
  /\ At("send", "retry")
  /\ IF CanWrite(sk[call.s])
     THEN /\ Return("ok", call.part)
          /\ Becomes(call.s, xsend(sk[call.s], call.part))
          /\ UNCHANGED clock
     ELSE UNCHANGED sk /\ WaitMore("wait")
  /\ Outside
-----------------------------------------------------------------------------
(* zmq_poll.  The items are the sockets of the plan, polled for input, and *)
(* a raw descriptor; sockets are watched through their mailboxes.          *)

Items == plan.items
\* What poll and select report of the raw descriptor, asked for its input:
\* only poll also reports an error that does not make it readable.
RawEvents == IF plan.impl = "poll" THEN raw \cap {"in", "err"}
             ELSE raw \cap {"in"}
Hot == {i \in DOMAIN Items : IF Items[i] = "raw" THEN RawEvents # {}
                             ELSE sk[Items[i]].cmds # <<>>}

zmq_poll ==
  /\ At("poll", "enter")
  /\ IF \E i \in DOMAIN Items : Items[i] # "raw" /\
                                sk[Items[i]].ctx_terminated
     THEN Return("ETERM", NoPart) /\ UNCHANGED clock
     ELSE /\ call' = [call EXCEPT !.pc = "first"]
          /\ clock' = [clock EXCEPT !.last = clock.now]
          /\ UNCHANGED ret
  /\ UNCHANGED sk /\ Outside

\* The system call: at once in the first pass, then until a descriptor is
\* ready, the timeout or a signal.
PollReturns == \/ call.pc = "first" \/ Hot # {}
               \/ call.timeo >= 0 /\ clock.now >= call.until
PollWait ==
  /\ call.fn = "poll" /\ call.pc \in {"first", "wait"}
  /\ \/ /\ PollReturns
        /\ call' = [call EXCEPT !.block = (call.pc = "wait"), !.i = 1,
                      !.pc = "events", !.rev = {},
                      !.seen = IF \E i \in Hot : Items[i] = "raw"
                               THEN RawEvents ELSE {}]
        /\ UNCHANGED ret
     \/ plan.signals /\ Return("EINTR", NoPart)
  /\ UNCHANGED sk /\ Kept

\* The events of one item after the other: ZMQ_EVENTS takes the commands
\* of the socket first.
PollEvents ==
  /\ At("poll", "events") /\ call.i <= Len(Items)
  /\ LET s == Items[call.i]
         Found(p) == /\ call' = [call EXCEPT !.i = @ + 1,
                                   !.rev = IF p THEN @ \cup {s} ELSE @]
                     /\ UNCHANGED ret
     IN IF s = "raw" THEN Found(call.seen # {}) /\ UNCHANGED sk
        ELSE IF sk[s].ctx_terminated
        THEN Return("ETERM", NoPart) /\ UNCHANGED sk
        ELSE \E r \in process_commands(s, 0, FALSE) :
               IF r.rc # "ok" THEN Return(r.rc, NoPart) /\ Becomes(s, r.x)
               ELSE Becomes(s, check_read(r.x)) /\ Found(CanRead(r.x))
  /\ Kept

\* Return, or wait once more; block is TRUE after the first pass.
PollAgain(t, end) ==
  call' = [call EXCEPT !.pc = "wait", !.end = end,
                       !.until = clock.now + end - t,
                       !.t0 = IF call.block THEN @ ELSE clock.now]
PollDecide ==
  /\ At("poll", "events") /\ call.i > Len(Items)
  /\ IF call.timeo = 0 \/ call.rev # {}
     THEN Return("ok", NoPart) /\ UNCHANGED clock
     ELSE IF call.timeo < 0
     THEN call' = [call EXCEPT !.pc = "wait"] /\ UNCHANGED <<ret, clock>>
     ELSE \E t \in now_ms :
            LET end == IF call.block THEN call.end ELSE t + call.timeo
            IN /\ clock' = [clock EXCEPT !.last = t]
               /\ IF t >= end THEN Return("ok", NoPart)
                  ELSE PollAgain(t, end) /\ UNCHANGED ret
  /\ UNCHANGED sk /\ Outside
-----------------------------------------------------------------------------
(* The application.                                                        *)

\* It calls: the clock counts from here.
Start(fn, s, timeo, part) ==
  /\ call' = [NoCall EXCEPT !.fn = fn, !.pc = "enter", !.s = s,
                !.timeo = timeo, !.part = part,
                !.was = CASE fn = "recv" -> Readable(s)
                          [] fn = "send" -> timeo # 0 /\ Writable(s)
                          [] fn = "poll" -> \E i \in DOMAIN Items :
                               IF Items[i] = "raw" THEN RawEvents # {}
                               ELSE Readable(Items[i])]
  /\ ret' = NoRet
  /\ clock' = [now |-> 0, last |-> IF clock.last >= clock.now - 1
                                   THEN clock.last - clock.now ELSE -2]
  /\ UNCHANGED <<plan, sk, peer, raw, listener>>
Idle == call.fn = "none"
OtherSide(s) == IF s = "f" THEN "b" ELSE "f"

\* A program that receives, sends or polls, with any of the timeouts.
Receive ==
  /\ Idle /\ plan.app = "recv" /\ UNCHANGED app
  /\ \E t \in plan.timeouts : Start("recv", "f", t, NoPart)
Send ==
  /\ Idle /\ plan.app = "send"
  /\ LET all  == FlattenSeq([m \in 1..plan.msgs["f"] |-> Parts(m)])
         sent == ret.fn = "send" /\ ret.rc = "ok"
         next == IF sent THEN app.next + 1 ELSE app.next
     IN /\ next \in DOMAIN all
        /\ app' = [app EXCEPT !.next = next]
        /\ \E t \in plan.timeouts : Start("send", "f", t, all[next])
Poll ==
  /\ Idle /\ plan.app = "poll" /\ UNCHANGED app
  /\ IF ret.fn = "poll" /\ "f" \in ret.rev THEN Start("recv", "f", 0, NoPart)
     ELSE \E t \in plan.timeouts : Start("poll", "f", t, NoPart)

\* A program that sets options and then reads one, or binds the socket "f"
\* with the options of the moment.  It remembers what was accepted.
Setting(t) == plan.app = "options" /\ Idle /\ t
Lengths(o, v) == IF o = "IDENTITY" THEN {Len(v)}
                 ELSE IF o = "TCP_ACCEPT_FILTER"
                 THEN IF v.kind = "none" THEN {0} ELSE {0, 1}
                 ELSE {SizeOf(o) - 1, SizeOf(o)}
Remember(set, o, v) ==
  [set EXCEPT ![o] = IF o # "TCP_ACCEPT_FILTER" THEN v
                     ELSE IF v.kind = "none" THEN <<>>
                     ELSE Append(set[o], v.addrs)]
Returns(fn, rc) == [NoRet EXCEPT !.fn = fn, !.rc = rc]
zmq_setsockopt(o, v) ==
  /\ Setting(o \in plan.opts /\ app.next <= plan.sets)
  /\ ret.fn # "getsockopt"
  /\ \E len \in Lengths(o, v) :
       LET r == IF sk["f"].ctx_terminated
                THEN [rc |-> "ETERM", opts |-> sk["f"].options]
                ELSE setsockopt(sk["f"].options, o, v, len, plan.keepalive)
       IN /\ Becomes("f", [sk["f"] EXCEPT !.options = r.opts])
          /\ ret' = Returns("setsockopt", r.rc)
          /\ app' = [app EXCEPT !.next = @ + 1,
               !.set = IF r.rc = "ok" THEN Remember(@, o, v) ELSE @]
  /\ UNCHANGED <<plan, peer, raw, call, listener, clock>>
zmq_getsockopt(o) ==
  /\ Setting(o \in plan.opts /\ ~plan.binds)
  /\ ret.fn # "getsockopt"
  /\ \E len \in {0, 1, 2, 3, 4, 7, 8} :
       LET r == IF sk["f"].ctx_terminated
                THEN [rc |-> "ETERM", val |-> 0, len |-> len]
                ELSE getsockopt(sk["f"].options, o, len)
       IN ret' = [Returns("getsockopt", r.rc) EXCEPT
                    !.opt = o, !.val = r.val, !.len = r.len, !.given = len]
  /\ UNCHANGED <<plan, sk, peer, raw, call, app, listener, clock>>

bind ==
  /\ Setting(plan.binds /\ listener.s = "retired" /\ ~sk["f"].ctx_terminated)
  /\ \E r \in process_commands("f", 0, FALSE) :
       /\ Becomes("f", r.x)
       /\ IF r.rc # "ok"
          THEN ret' = Returns("bind", r.rc) /\ UNCHANGED <<app, listener>>
          ELSE \E rc \in {"resolve", "open", "bind", "listen", "ok"} :
                 /\ listener' = set_address(sk["f"].options, rc)
                 /\ ret' = Returns("bind", IF rc = "ok" THEN rc ELSE "error")
                 /\ app' = [app EXCEPT !.bound =
                              IF rc = "ok" THEN app.set["TCP_ACCEPT_FILTER"]
                              ELSE @]
  /\ UNCHANGED <<plan, peer, raw, call, clock>>
term_endpoint ==
  /\ Setting(listener.s = "open" /\ ~listener.term)
  /\ ~sk["f"].ctx_terminated
  /\ \E r \in process_commands("f", 0, FALSE) :
       /\ Becomes("f", r.x) /\ ret' = Returns("term_endpoint", r.rc)
       /\ listener' = [listener EXCEPT !.term = (r.rc = "ok")]
  /\ UNCHANGED <<plan, peer, raw, call, app, clock>>

\* The I/O thread: the listener is plugged, takes a connection, and is told
\* to end.
ListenerStep ==
  /\ listener.s = "open"
  /\ \/ ~listener.plugged /\ listener' = process_plug(listener)
     \/ /\ listener.plugged /\ listener.term
        /\ listener' = process_term(listener)
  /\ UNCHANGED <<plan, sk, peer, raw, call, ret, app, clock>>
Connection(addr) ==
  /\ listener.s = "open" /\ listener.plugged
  /\ app' = [app EXCEPT !.came = @ \cup
       {[addr |-> addr, filters |-> app.bound,
         kept |-> accept(listener, sk["f"].options, addr)]}]
  /\ UNCHANGED <<plan, sk, peer, raw, call, ret, listener, clock>>

\* zmq::proxy: the polls of both sides, then all the parts of a message from
\* each side that has one, to the capture socket and to the other side.  Any
\* call that fails ends it.
Failed == ret.rc # "ok"
At2(pc) == Idle /\ plan.app = "proxy" /\ app.pc = pc
ProxyPoll ==
  /\ At2("start")
  /\ app' = [app EXCEPT !.pc = "polled"]
  /\ Start("poll", "f", -1, NoPart)
ProxySide(side, rev) ==
  IF side \in rev
  THEN /\ app' = [app EXCEPT !.pc = "received", !.from = side, !.rev = rev]
       /\ Start("recv", side, -1, NoPart)
  ELSE /\ app' = [app EXCEPT !.pc = IF side = "f" THEN "second" ELSE "start",
                             !.rev = rev]
       /\ UNCHANGED <<plan, sk, peer, raw, call, ret, listener, clock>>
ProxyFirst == At2("polled") /\ ~Failed /\ ProxySide("f", ret.rev)
ProxySecond == At2("second") /\ ProxySide("b", app.rev)
Forward(part) ==
  /\ app' = [app EXCEPT !.pc = "sent", !.part = part]
  /\ Start("send", OtherSide(app.from), -1, part)
Received == [ret.part EXCEPT !.more = sk[app.from].rcvmore]
ProxyForward ==
  /\ At2("received") /\ ~Failed
  /\ IF plan.capture
     THEN /\ app' = [app EXCEPT !.pc = "captured", !.part = Received]
          /\ Start("send", "c", -1, Received)
     ELSE Forward(Received)
ProxyCaptured == At2("captured") /\ ~Failed /\ Forward(app.part)
\* Mutant of ProxySent: the other side comes before the message is complete.
ProxySwitch ==
  /\ At2("sent") /\ ~Failed
  /\ app' = [app EXCEPT !.pc = IF app.from = "f" THEN "second" ELSE "start"]
  /\ UNCHANGED <<plan, sk, peer, raw, call, ret, listener, clock>>
ProxySent ==
  /\ At2("sent") /\ ~Failed
  /\ IF app.part.more
     THEN /\ app' = [app EXCEPT !.pc = "received"]
          /\ Start("recv", app.from, -1, NoPart)
     ELSE /\ app' = [app EXCEPT !.pc = IF app.from = "f" THEN "second"
                                       ELSE "start"]
          /\ UNCHANGED <<plan, sk, peer, raw, call, ret, listener, clock>>
ProxyFails ==
  /\ Idle /\ plan.app = "proxy" /\ Failed
  /\ app.pc \in {"polled", "received", "captured", "sent"}
  /\ app' = [app EXCEPT !.pc = "over"]
  /\ UNCHANGED <<plan, sk, peer, raw, call, ret, listener, clock>>
-----------------------------------------------------------------------------
(* The other threads: the peers, zmq_term, the raw descriptor and time.    *)

\* The messages of a peer are numbered; those of "b" come after the others.
MsgOf(s, n) == IF s = "b" THEN plan.msgs["f"] + n ELSE n
PeerSends(s) ==
  /\ peer[s].sent < plan.msgs[s] /\ plan.app \notin {"send", "options"}
  /\ peer' = [peer EXCEPT ![s].sent = @ + 1]
  /\ Becomes(s, [sk[s] EXCEPT
       !.in = @ \o Parts(MsgOf(s, peer[s].sent + 1)), !.asleep = FALSE,
       !.cmds = IF sk[s].asleep
                THEN Append(@, [type |-> "activate_read", read |-> 0])
                ELSE @])
  /\ UNCHANGED <<plan, raw, call, ret, app, listener, clock>>

\* The watermark up to which the peer reads before it tells of the space.
compute_lwm == IF Hwm > 2 * MaxWmDelta THEN Hwm - MaxWmDelta
               ELSE (Hwm + 1) \div 2

\* Mutant of Tells: it tells when it has read more than fits in the pipe.
TellsLate(read) == read % (Hwm + 1) = 0
\* Has it read enough to tell of it?
Tells(read) == read % compute_lwm = 0

\* The peer reads the next part of a message that is there to the last.  At
\* a multiple of the watermark it tells of what it has read, after every part.
PeerReads(s) ==
  LET part  == Head(sk[s].out)
      read  == IF part.more THEN peer[s].read ELSE peer[s].read + 1
  IN /\ \E i \in DOMAIN sk[s].out : ~sk[s].out[i].more
     /\ peer' = [peer EXCEPT ![s].read = read, ![s].got = Append(@, part),
                             ![s].told = IF Tells(read) THEN read ELSE @]
     /\ Becomes(s, [sk[s] EXCEPT !.out = Tail(@),
          !.cmds = IF Tells(read)
                   THEN Append(@, [type |-> "activate_write", read |-> read])
                   ELSE @])
     /\ UNCHANGED <<plan, raw, call, ret, app, listener, clock>>

Stopping(s) == sk[s].ctx_terminated \/
               \E i \in DOMAIN sk[s].cmds : sk[s].cmds[i].type = "stop"
Terminate ==
  /\ plan.term /\ \A s \in Socks : ~Stopping(s)
  /\ sk' = [s \in Socks |-> [sk[s] EXCEPT
              !.cmds = Append(@, [type |-> "stop", read |-> 0])]]
  /\ UNCHANGED <<plan, peer, raw, call, ret, app, listener, clock>>

RawReady ==
  /\ plan.app = "poll" /\ raw = {}
  /\ \E e \in {"in", "err"} : raw' = {e}
  /\ UNCHANGED <<plan, sk, peer, call, ret, app, listener, clock>>

Tick ==
  /\ call.fn # "none" /\ call.timeo > 0
  /\ clock.now < IF call.pc = "wait" THEN MaxTime ELSE Early
  /\ clock' = [clock EXCEPT !.now = @ + 1]
  /\ UNCHANGED <<plan, sk, peer, raw, call, ret, app, listener>>

Call == recv \/ RecvCommands \/ RecvTry \/ RecvLast \/ RecvWait \/ RecvRetry
          \/ send \/ SendTry \/ SendWait \/ SendRetry
          \/ zmq_poll \/ PollWait \/ PollEvents \/ PollDecide
Proxy == ProxyPoll \/ ProxyFirst \/ ProxySecond \/ ProxyForward
           \/ ProxyCaptured \/ ProxySent \/ ProxyFails
Next ==
  \/ Call \/ Receive \/ Send \/ Poll \/ Proxy
  \/ \E o \in Settable : zmq_getsockopt(o)
  \/ \E o \in Settable : \E v \in Trials[o] : zmq_setsockopt(o, v)
  \/ bind \/ term_endpoint \/ ListenerStep
  \/ \E addr \in Addrs : Connection(addr)
  \/ \E s \in Socks : PeerSends(s) \/ PeerReads(s)
  \/ Terminate \/ RawReady \/ Tick

\* The thread runs and so does the clock; peers read what they are sent.
Fairness ==
  /\ WF_vars(Call) /\ WF_vars(Proxy) /\ WF_vars(Tick)
  /\ \A s \in Socks : WF_vars(PeerReads(s))
Spec == Init /\ [][Next]_vars /\ Fairness
-----------------------------------------------------------------------------
\* The types; a socket that sleeps in its pipe knows that it is empty.
TypeOK ==
  /\ plan \in Plans
  /\ \A s \in Socks : /\ sk[s].ticks \in 0..Rate + 1
                      /\ sk[s].written - peer[s].told \in 0..Hwm
                      /\ sk[s].asleep => ~sk[s].in_active
  /\ raw \subseteq {"in", "err"}
  /\ call.fn \in {"none", "recv", "send", "poll"}
  /\ ret.rc \in {"ok", "error", "EINVAL", "EAGAIN", "EINTR", "ETERM"}
  /\ listener.s \in {"retired", "open"}
  /\ clock.now \in 0..MaxTime

\* No call gives up on what was there when it began: zmq_recv and zmq_poll
\* do not overlook a message, zmq_send with a timeout does not overlook
\* the space that the peer has told of, however the commands were throttled.
NothingOverlooked ==
  ret.fn # "none" /\ ret.was =>
    IF ret.fn = "poll" THEN ret.rc = "ok" => ret.rev # {}
    ELSE ret.rc # "EAGAIN"

GaveUp == \/ ret.rc = "EAGAIN"
          \/ ret.fn = "poll" /\ ret.rc = "ok" /\ ret.rev = {}
\* A call with a timeout gives up when its time has passed and not before,
\* within the millisecond of the cached clock, whatever commands woke it.
Deadlines ==
  /\ GaveUp /\ ret.timeo > 0 =>
       clock.now >= ret.t0 + ret.timeo - 1
  /\ call.pc = "wait" /\ call.timeo > 0 =>
       call.until <= call.t0 + call.timeo + 1

FromPeer(s) == FlattenSeq([n \in 1..plan.msgs[OtherSide(s)] |->
                             Parts(MsgOf(OtherSide(s), n))])
\* Through zmq_proxy a peer receives the other peer's messages: all of them
\* up to some part, each once and in order.
ForwardedInOrder ==
  plan.app = "proxy" =>
    \A s \in {"f", "b"} : IsPrefix(peer[s].got, FromPeer(s))

Captured == peer["c"].got \o sk["c"].out
\* The elements of q that are in X, in their order.
Among(q, X) ==
  LET kept[i \in 0..Len(q)] ==
        IF i = 0 THEN <<>>
        ELSE IF q[i] \in X THEN Append(kept[i - 1], q[i]) ELSE kept[i - 1]
  IN kept[Len(q)]
\* The capture socket has been given every part that was forwarded, in the
\* order in which it was received, and whole messages one after the other
\* although they come from both sides.
CaptureIsFaithful ==
  plan.app = "proxy" /\ plan.capture =>
    /\ \A s \in {"f", "b"} :
         LET mine == Among(Captured, ToSet(FromPeer(s)))
             out  == peer[s].got \o sk[s].out
         IN IsPrefix(out, mine) /\ IsPrefix(mine, FromPeer(s))
    /\ \A i \in 1..Len(Captured) - 1 :
         Captured[i].more => Captured[i + 1].m = Captured[i].m

\* zmq_getsockopt answers with the value that was accepted last, whatever
\* was refused since, and writes no more than it was given room for.
\* (Keepalive options are accepted in vain where the platform has none.)
OptionsTold ==
  ret.fn = "getsockopt" /\ ret.rc = "ok" =>
    /\ ret.len <= ret.given
    /\ Stores(ret.opt, plan.keepalive) => ret.val = app.set[ret.opt]

\* The connections that a listener keeps are those that match one of the
\* filters the socket had when it was bound, and all if it had none.
FiltersHold ==
  \A x \in app.came :
    x.kept <=> x.filters = <<>> \/ x.addr \in UNION ToSet(x.filters)

\* A call returns if it has a timeout, if the message it waits for is there,
\* and when the context is terminated; zmq_send in any case, since the peer
\* goes on reading until it tells of space.
CallsReturn ==
  (/\ call.fn # "none"
   /\ \/ call.timeo >= 0
      \/ call.fn = "recv" /\ (Readable(call.s) \/ Stopping(call.s))
      \/ call.fn = "send"
      \/ call.fn = "poll" /\ \E i \in DOMAIN Items : Items[i] # "raw" /\
           (Readable(Items[i]) \/ Stopping(Items[i])))
  ~> call.fn = "none"

\* The proxy forwards every message, unless it ends.
ProxyDelivers ==
  \A s \in {"f", "b"} :
    plan.app = "proxy" /\ peer[s].sent = plan.msgs[s] ~>
      peer[OtherSide(s)].read = plan.msgs[s] \/ app.pc = "over"

\* The types hold, and a call gives up only when its time has passed and there
\* was nothing to do.
SocketApiSound == TypeOK /\ NothingOverlooked /\ Deadlines

\* zmq_proxy keeps the order and the parts of the messages, in both directions
\* and to the capture socket.
ProxyFaithful == ForwardedInOrder /\ CaptureIsFaithful

\* The options are what was set, and a listener keeps to those it was given.
OptionsKept == OptionsTold /\ FiltersHold

\* Calls return, and the proxy forwards everything.
Progress == CallsReturn /\ ProxyDelivers
=============================================================================
