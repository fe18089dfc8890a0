---------------------------- MODULE StreamEngine ----------------------------
(***************************************************************************)
(* Two stream_engine_t at the ends of a TCP connection, each between the   *)
(* connection, a pair of byte streams, and its session.  The second end    *)
(* may be an older implementation (external): kind "old" uses version 0    *)
(* without a greeting, kind "rev0" has a greeting with version 0.          *)
(*                                                                         *)
(* Operators on the record x of one end are methods of its engine, encoder,*)
(* decoder or session.                                                     *)
(***************************************************************************)
EXTENDS Codec, FiniteSets

CONSTANTS
  InBatch, OutBatch,   \* the buffers of decoder and encoder
  Buffer,              \* bytes the connection holds in each direction
  Room,                \* messages the pipe to the socket holds
  Plans                \* bounds: kind of the second end, and of each end: type,
                       \* identity, maxmsgsize, recv_identity, the messages
                       \* that will be sent; who may close, whether the
                       \* connection may break

Ends == {1, 2}
Other(e) == 3 - e

VARIABLES
  x,         \* of each end: engine, session and pipe
  wire,      \* to each end: the bytes on their way, and whether that is all
  plan,      \* what is planned
  sent,      \* of each end: the messages given to its encoder
  got,       \* of each end: the messages its session accepted
  fault      \* assertions and rules that were violated

vars == <<x, wire, plan, sent, got, fault>>

GreetingSize == Long + 4
Identity(p, e) == [more |-> FALSE, body |-> p.identity[e]]

\* The engine was plugged: it sends the header of a long identity message,
\* whose flags are odd.
Greeting(p, e) == <<FF>> \o put_uint64(Len(p.identity[e]) + 1) \o <<1>>

Plugged(p, e) ==
  LET old == p.kind[e] = "old"
  IN [state |-> "on", handshaking |-> ~old, greeting |-> <<>>,
      out |-> IF old THEN <<>> ELSE Greeting(p, e), greeted |-> FALSE,
      ins |-> <<>>, pollin |-> TRUE, pollout |-> TRUE, io_enabled |-> TRUE,
      terminating |-> FALSE, sink |-> "session",
      enc |-> IF old THEN NewEncoder(0) ELSE [version |-> -1],
      dec |-> IF old THEN NewDecoder(0) ELSE [version |-> -1],
      identity_sent |-> FALSE, identity_received |-> FALSE,
      \* The pipe: what the socket wrote, whether its reader sleeps, what the
      \* socket has not read, whether a write was refused.
      outbox |-> <<>>, asleep |-> FALSE, inbox |-> <<>>, refused |-> FALSE]

Init ==
  /\ plan \in Plans
  /\ x = [e \in Ends |-> Plugged(plan, e)]
  /\ wire = [e \in Ends |-> [bytes |-> <<>>, closed |-> FALSE]]
  /\ sent = [e \in Ends |-> <<>>] /\ got = [e \in Ends |-> <<>>]
  /\ fault = {}

-----------------------------------------------------------------------------
(* The session.  w is [x, got, sent, fault]. *)

\* pull_msg: the identity comes first.
pull_msg(w, e) ==
  IF ~w.x.identity_sent
  THEN [ok |-> TRUE, m |-> Identity(plan, e), w |-> [w EXCEPT !.x.identity_sent = TRUE]]
  ELSE IF w.x.outbox = <<>>
  THEN [ok |-> FALSE, m |-> NoMsg, w |-> [w EXCEPT !.x.asleep = TRUE]]
  ELSE [ok |-> TRUE, m |-> Head(w.x.outbox),
        w |-> [w EXCEPT !.x.outbox = Tail(@)]]

\* pipe_t::write: a message that has begun may go on.
PipeFull(y) ==
  LET n == Len(y.inbox)
      whole == Cardinality({i \in DOMAIN y.inbox : ~y.inbox[i].more})
  IN whole >= Room /\ (n = 0 \/ ~y.inbox[n].more)

\* push_msg: the identity comes first; it is dropped unless it was asked for.
push_msg(w, e, m) ==
  LET first == ~w.x.identity_received
      v == [w EXCEPT !.x.identity_received = TRUE]
  IN IF first /\ ~plan.recv_identity[e]
     THEN [ok |-> TRUE, w |-> [v EXCEPT !.got = Append(@, m)]]
     ELSE IF PipeFull(w.x)
     THEN [ok |-> FALSE, w |-> [v EXCEPT !.x.refused = TRUE]]
     ELSE [ok |-> TRUE, w |-> [v EXCEPT !.got = Append(@, m),
                                        !.x.inbox = Append(@, m)]]

\* stream_engine_t::push_msg: a subscription to everything is injected after
\* the identity of a peer that does not send its subscriptions.
Subscription == [more |-> FALSE, body |-> <<1>>]
engine_push_msg(w, e, m) ==
  LET r == push_msg(w, e, m)
      q == push_msg(r.w, e, Subscription)
      dec == [w.x.dec EXCEPT !.partial = Subscription.body, !.more = FALSE]
  IN [ok |-> q.ok,
      w |-> [q.w EXCEPT !.x.sink = "session",
                        !.x.dec = IF q.ok THEN @ ELSE dec,
                        !.fault = @ \cup IF r.ok THEN {} ELSE {"identity"}]]

-----------------------------------------------------------------------------
(* Encoder and decoder. *)

\* encoder_base_t::get_data into a buffer of the given size; own says that it is
\* the buffer of the encoder, which a long body need not be copied to.
RECURSIVE get_data(_, _, _, _, _)
get_data(w, e, buf, size, own) ==
  LET enc == w.x.enc
      n == min(Len(enc.to_write), size - Len(buf))
      r == pull_msg(w, e)
      setEnc(v, c) == [v EXCEPT !.x.enc = c]
  IN IF Len(buf) = size THEN [w |-> w, data |-> buf]
     ELSE IF has_data(enc)
     THEN IF buf = <<>> /\ own /\ Len(enc.to_write) >= size
          THEN [w |-> setEnc(w, [enc EXCEPT !.to_write = <<>>]), data |-> enc.to_write]
          ELSE get_data(setEnc(w, [enc EXCEPT !.to_write = Drop(@, n)]), e,
                        buf \o SubSeq(enc.to_write, 1, n), size, own)
     ELSE IF enc.next = "size_ready"
     THEN get_data(setEnc(w, EncodeBody(enc)), e, buf, size, own)
     ELSE IF w.x.state = "dead" \/ ~r.ok
     THEN [w |-> IF w.x.state = "dead" THEN [w EXCEPT !.fault = @ \cup {"session"}]
                 ELSE r.w,
           data |-> buf]
     ELSE get_data([setEnc(r.w, EncodeHeader(enc, r.m)) EXCEPT
                      !.sent = Append(@, r.m)], e, buf, size, own)

\* decoder_base_t::process_buffer: what is left of the data, and whether the
\* stream is damaged.
RECURSIVE process_buffer(_, _, _)
process_buffer(w, e, data) ==
  LET dec == w.x.dec
      r == IF w.x.sink = "engine" THEN engine_push_msg(w, e, Decoded(dec))
           ELSE push_msg(w, e, Decoded(dec))
      step == DecoderStep(dec, plan.maxmsgsize[e])
      setDec(v, d) == [v EXCEPT !.x.dec = d]
  IN IF IsDead(dec) THEN [w |-> w, rest |-> data, bad |-> TRUE]
     ELSE IF dec.to_read > 0
     THEN IF data = <<>> THEN [w |-> w, rest |-> data, bad |-> FALSE]
          ELSE process_buffer(setDec(w, Copy(dec, data)), e,
                              Drop(data, min(dec.to_read, Len(data))))
     ELSE IF dec.next = "message_ready"
     THEN IF r.ok THEN process_buffer(setDec(r.w, MessagePushed(dec)), e, data)
          ELSE [w |-> r.w, rest |-> data, bad |-> FALSE]
     ELSE IF IsDead(step) THEN [w |-> setDec(w, step), rest |-> data, bad |-> TRUE]
     ELSE process_buffer(setDec(w, step), e, data)

\* stalled: all data that the decoder needs is there and the message is refused.
stalled(w) == w.x.dec.to_read = 0 /\ ~IsDead(w.x.dec)

-----------------------------------------------------------------------------
(* The engine. *)

World(e) == [x |-> x[e], got |-> got[e], sent |-> sent[e], fault |-> fault]
Becomes(e, world) ==
  \E w \in {world} :
    /\ x' = [x EXCEPT ![e] = w.x]
    /\ got' = [got EXCEPT ![e] = w.got]
    /\ sent' = [sent EXCEPT ![e] = w.sent]
    /\ fault' = w.fault

\* error: the session is detached and the engine destroyed, which closes the
\* connection.
error(w) == [w EXCEPT !.x.state = "gone"]
Closes(e, w) == w.x.state = "gone" /\ x[e].state # "gone"

\* Mutant of Framing: the revision of the peer is ignored.
FramingOwn(e, greeting) == IF plan.kind[e] = "rev0" THEN 0 ELSE 1

\* The framing that follows a greeting; an engine of kind rev0 knows no other
\* than version 0.
Framing(e, greeting) ==
  IF greeting[Long + 3] = 0 \/ plan.kind[e] = "rev0" THEN 0 ELSE 1

Unversioned(g) == g[1] # FF \/ (Len(g) >= Long + 2 /\ ~Bit(g[Long + 2], 1))

\* The size of the header that the encoder makes of the identity.
IdentityHeader(e) == IF Len(plan.identity[e]) + 1 >= FF THEN Long + 2 ELSE 2

\* handshake, after the peer was found to use no greeting: the header of our
\* identity has been sent already.
HandshakeUnversioned(w, e) ==
  LET v == [w EXCEPT !.x.enc = NewEncoder(0), !.x.dec = NewDecoder(0)]
      size == IdentityHeader(e)
      r == get_data(v, e, <<>>, size, FALSE)
  IN [r.w EXCEPT !.x.ins = w.x.greeting, !.x.handshaking = FALSE,
                 !.x.pollout = @ \/ w.x.out = <<>>,
                 !.x.sink = IF plan.type[e] = "PUB" THEN "engine" ELSE "session",
                 !.fault = @ \cup IF Len(r.data) = size THEN {} ELSE {"header"}]

HandshakeVersioned(w, e) ==
  LET version == Framing(e, w.x.greeting)
  IN [w EXCEPT !.x.enc = NewEncoder(version), !.x.dec = NewDecoder(version),
               !.x.handshaking = FALSE, !.x.pollout = @ \/ w.x.out = <<>>]

\* The rest of the greeting is sent once the peer is known to be versioned.
Greet(w, e) ==
  IF w.x.greeted THEN w
  ELSE [w EXCEPT !.x.greeted = TRUE, !.x.pollout = @ \/ w.x.out = <<>>,
                 !.x.out = @ \o <<IF plan.kind[e] = "rev0" THEN 0 ELSE 1, 0>>]

\* One turn of the loop of handshake with the bytes that were read.
handshake(w, e, bytes) ==
  LET v == [w EXCEPT !.x.greeting = @ \o bytes]
      g == v.x.greeting
  IN IF Unversioned(g) THEN HandshakeUnversioned(v, e)
     ELSE IF Len(g) < Long + 2 THEN v
     ELSE IF Len(g) < GreetingSize THEN Greet(v, e)
     ELSE HandshakeVersioned(Greet(v, e), e)

\* The decoder left bytes that it cannot pass on yet.
StopReading(r) == ~r.bad /\ r.rest # <<>>

\* in_event from the decoder on: ins is what the decoder is given.
Process(w, e, ins, disconnection) ==
  LET r == process_buffer(w, e, ins)
      v == [r.w EXCEPT !.x.pollin = @ /\ ~StopReading(r),
                       !.x.ins = IF r.bad THEN @ ELSE r.rest,
                       !.fault = @ \cup IF w.x.state = "dead" THEN {"session"} ELSE {}]
  IN IF ~disconnection /\ ~r.bad THEN v
     ELSE IF stalled(v) THEN [v EXCEPT !.x.io_enabled = FALSE, !.x.pollin = FALSE,
                                       !.x.pollout = FALSE]
     ELSE error(v)

\* How many bytes read asks for: decoder_base_t::get_buffer, or what is missing
\* of the greeting.
Wants(y) ==
  IF y.handshaking THEN GreetingSize - Len(y.greeting)
  ELSE IF y.dec.to_read >= InBatch THEN y.dec.to_read ELSE InBatch

\* in_event, with the bytes that read returns.
ReadAndProcess(w, e, bytes, disconnection) ==
  IF w.x.handshaking
  THEN IF disconnection THEN error(w)
       ELSE IF bytes = <<>> THEN w
       ELSE LET v == handshake(w, e, bytes)
            IN IF v.x.ins = <<>> THEN v ELSE Process(v, e, v.x.ins, FALSE)
  ELSE IF w.x.ins # <<>> THEN Process(w, e, w.x.ins, FALSE)
  ELSE Process(w, e, bytes, disconnection)

\* out_event, of which the connection takes at most room bytes; -1 is an error.
OutData(w, e) ==
  IF w.x.out # <<>> \/ w.x.handshaking THEN w
  ELSE LET r == get_data(w, e, <<>>, OutBatch, TRUE)
       IN [r.w EXCEPT !.x.out = r.data, !.x.pollout = r.data # <<>>]

unplug(w) == [w EXCEPT !.x.state = "gone"]

Written(w, n) ==
  LET rest == Drop(w.x.out, n)
      v == [w EXCEPT !.x.out = rest,
                     !.x.pollout = @ /\ ~(w.x.handshaking /\ rest = <<>>)]
  IN IF w.x.terminating /\ rest = <<>> THEN unplug(v) ELSE v

WriteFailed(w) ==
  LET v == [w EXCEPT !.x.pollout = FALSE]
  IN IF w.x.terminating THEN unplug(v) ELSE v

\* The effect of an event of end e that wrote bytes and read n.
Does(e, w, bytes, n) ==
  /\ Becomes(e, w)
  /\ wire' = [wire EXCEPT
       ![Other(e)] = [bytes |-> @.bytes \o bytes, closed |-> @.closed \/ Closes(e, w)],
       ![e].bytes = Drop(@, n)]
  /\ UNCHANGED plan

\* The poller reports that e can read.
in_event(e) ==
  /\ x[e].state \in {"on", "dead"} /\ x[e].io_enabled /\ x[e].pollin
  /\ \/ \E n \in 1..min(Len(wire[e].bytes), Wants(x[e])) :
          \E w \in {ReadAndProcess(World(e), e, SubSeq(wire[e].bytes, 1, n), FALSE)} :
            Does(e, w, <<>>, n)
     \/ /\ wire[e].bytes = <<>> /\ wire[e].closed
        /\ \E w \in {ReadAndProcess(World(e), e, <<>>, TRUE)} : Does(e, w, <<>>, 0)

\* out_event writes as much as the connection takes, at least one byte when the
\* poller reports that e can write; the peer may have closed.
Out(e, w, least) ==
  \E v \in {OutData(w, e)} :
    IF v.x.out = <<>> THEN Does(e, v, <<>>, 0)
    ELSE IF x[Other(e)].state = "gone" \/ wire[Other(e)].closed
    THEN \/ Does(e, WriteFailed(v), <<>>, 0)
         \/ Does(e, Written(v, Len(v.x.out)), <<>>, 0)
    ELSE \E n \in least..min(Len(v.x.out), Buffer - Len(wire[Other(e)].bytes)) :
           Does(e, Written(v, n), SubSeq(v.x.out, 1, n), 0)

out_event(e) ==
  /\ x[e].state \in {"on", "dead"} /\ x[e].io_enabled /\ x[e].pollout
  /\ Out(e, World(e), 1)

-----------------------------------------------------------------------------
(* The socket, the session's end, and the network. *)

\* The socket writes a message: a session that sleeps wakes the engine up, also
\* one whose handle was removed from the poller.
activate_out(e) ==
  /\ plan.msgs[e] # <<>> /\ x[e].state = "on"
  /\ LET m == Head(plan.msgs[e])
         y == [x[e] EXCEPT !.outbox = Append(@, m), !.asleep = FALSE]
     IN /\ plan' = [plan EXCEPT !.msgs[e] = Tail(@)]
        /\ \/ /\ ~x[e].asleep
              /\ x' = [x EXCEPT ![e] = y] /\ UNCHANGED <<wire, got, sent,
                                                         fault>>
           \/ /\ x[e].asleep /\ ~x[e].io_enabled
              /\ fault' = fault \cup {"handle"}
              /\ x' = [x EXCEPT ![e] = y] /\ UNCHANGED <<wire, got, sent>>
           \/ /\ x[e].asleep /\ x[e].io_enabled
              /\ x' = [x EXCEPT ![e] = [y EXCEPT !.pollout = TRUE]]
              /\ UNCHANGED <<wire, got, sent, fault>>

\* Mutant of activate_in: the message that waits is dropped with the engine.
ActivateInDrops(w, e) ==
  IF ~w.x.io_enabled THEN error(w)
  ELSE ReadAndProcess([w EXCEPT !.x.pollin = TRUE], e, <<>>, FALSE)

\* activate_in, of a session whose pipe can be written to again.
activate_in(w, e) ==
  IF ~w.x.io_enabled
  THEN LET r == process_buffer(w, e, <<>>)
       IN error([r.w EXCEPT !.fault = @ \cup IF stalled(r.w) THEN {"stalled"} ELSE {}])
  ELSE ReadAndProcess([w EXCEPT !.x.pollin = TRUE], e, <<>>, FALSE)

\* The socket reads a message.
Receive(e) ==
  LET w == [World(e) EXCEPT !.x.inbox = Tail(@), !.x.refused = FALSE]
  IN /\ x[e].inbox # <<>>
     /\ \E v \in {IF x[e].refused /\ x[e].state = "on"
                     /\ ~PipeFull(w.x) THEN activate_in(w, e)
                  ELSE [w EXCEPT !.x.refused = x[e].refused]} :
          Does(e, v, <<>>, 0)

\* terminate: the session is being destroyed.
terminate(e) ==
  LET y == x[e]
  IN /\ y.state = "on" /\ e \in plan.closers
     /\ IF y.enc.version >= 0 /\ has_data(y.enc)
        THEN Does(e, [World(e) EXCEPT !.x.terminating = TRUE, !.x.state = "dead"], <<>>, 0)
        ELSE Does(e, unplug(World(e)), <<>>, 0)

\* The connection breaks: what was on its way is lost.
Break ==
  /\ plan.breaks
  /\ plan' = [plan EXCEPT !.breaks = FALSE, !.broken = TRUE]
  /\ \E n \in 0..Len(wire[1].bytes), k \in {0, Len(wire[2].bytes)} :
       wire' = [e \in Ends |->
                  [bytes |-> SubSeq(wire[e].bytes, 1, IF e = 1 THEN n ELSE k),
                   closed |-> TRUE]]
  /\ UNCHANGED <<x, got, sent, fault>>

Next ==
  /\ fault = {}
  /\ \/ \E e \in Ends : \/ in_event(e) \/ out_event(e) \/ activate_out(e)
                         \/ Receive(e) \/ terminate(e)
     \/ Break

Spec == Init /\ [][Next]_vars

-----------------------------------------------------------------------------
\* The type of every variable.
TypeOK ==
  /\ \A e \in Ends :
       /\ x[e].state \in {"on", "dead", "gone"}
       /\ x[e].handshaking <=> x[e].dec.version = -1
       /\ Len(x[e].greeting) <= GreetingSize
       /\ x[e].ins # <<>> => ~x[e].pollin \/ x[e].state # "on"
       /\ Len(wire[e].bytes) <= Buffer
       /\ \A i \in DOMAIN wire[e].bytes : wire[e].bytes[i] \in 0..FF
       /\ x[e].dec.version >= 0 => x[e].dec.to_read >= 0

\* The assertions of the engine hold: the identity is accepted, the header that
\* was sent as a greeting is the one the encoder makes, and a message that
\* waited for room is accepted when there is room.
AssertsHold == fault \cap {"identity", "header", "stalled"} = {}

\* The greeting is the beginning of the identity message.
SentBy(e) == IF sent[e] = <<>> THEN <<Identity(plan, e)>> ELSE sent[e]
Injected(e) == plan.type[e] = "PUB" /\ plan.kind[Other(e)] = "old"
\* What the session accepted that came from the peer.
Received(e) ==
  IF Injected(e) /\ Len(got[e]) >= 2 THEN <<got[e][1]>> \o Drop(got[e], 2)
  ELSE got[e]

\* Whatever the framing, the sizes of the messages and of the buffers, and
\* wherever the stream is cut into reads and writes, the messages accepted at
\* one end are those given to the encoder at the other, part by part, in
\* order; after the identity of an old peer a PUB socket gets a subscription.
Intact ==
  \A e \in Ends :
    LET r == Received(e)
        s == SentBy(Other(e))
    IN /\ Len(r) <= Len(s)
       /\ \A i \in DOMAIN r : r[i].body = s[i].body /\ (i > 1 => r[i] = s[i])
       /\ Injected(e) /\ Len(got[e]) >= 2 => got[e][2] = Subscription

\* No part that exceeds ZMQ_MAXMSGSIZE is passed on, in either form of length.
LimitHolds ==
  \A e \in Ends : plan.maxmsgsize[e] >= 0 =>
    \A i \in DOMAIN Received(e) : Len(Received(e)[i].body) <= plan.maxmsgsize[e]

\* Both ends come out of the handshake with the same framing.
VersionsAgree ==
  \A e \in Ends : ~x[e].handshaking /\ ~x[Other(e)].handshaking =>
                    x[e].enc.version = x[Other(e)].dec.version

CanRead(e) == /\ x[e].io_enabled /\ x[e].pollin
              /\ wire[e].bytes # <<>> \/ wire[e].closed
CanWrite(e) == /\ x[e].io_enabled /\ x[e].pollout /\ ~x[e].handshaking
               /\ Len(wire[Other(e)].bytes) < Buffer

\* As long as the connection lasts nobody waits for the other: when no engine
\* can read or write and the sockets have read everything, all that was written
\* has been received.
NothingStuck ==
  /\ \A e \in Ends : /\ x[e].state = "on" /\ ~wire[e].closed
                     /\ ~CanRead(e) /\ ~CanWrite(e) /\ x[e].inbox = <<>>
  /\ \A e \in Ends : x[e].handshaking => x[e].out = <<>>
  => \A e \in Ends : /\ x[e].outbox = <<>> /\ x[e].identity_sent
                     /\ Len(Received(e)) = Len(sent[Other(e)])

\* An engine that finds the connection closed has passed on everything that
\* was written to it, even a message that its pipe refused at first.
CloseLosesNothing ==
  \A e \in Ends :
    LET o == x[Other(e)]
    IN /\ x[e].state = "gone" /\ o.state = "gone" /\ e \notin plan.closers
       /\ plan.maxmsgsize[e] = -1 /\ ~o.handshaking
       /\ o.out = <<>> /\ ~has_data(o.enc) /\ o.enc.next = "message_ready"
       /\ ~plan.broken
       => Len(Received(e)) = Len(sent[Other(e)])

\* The types hold, no assertion of the engine fails, and both ends come out of
\* the handshake with the same framing.
StreamEngineSound == TypeOK /\ AssertsHold /\ VersionsAgree

\* Messages arrive as they were sent, and none that is too large.
IntactWithinLimit == Intact /\ LimitHolds

\* Nothing stays behind, while the connection lasts or when it is closed.
NothingLost == NothingStuck /\ CloseLosesNothing
=============================================================================
