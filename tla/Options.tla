------------------------------- MODULE Options -------------------------------
(***************************************************************************)
(* options_t, the options of a socket that zmq_setsockopt and              *)
(* zmq_getsockopt pass on, and the tcp_listener_t that takes a copy of     *)
(* them when the socket is bound.  Names are those of the API without      *)
(* ZMQ_; a filter of addresses is the set of the addresses it matches.     *)
(***************************************************************************)
EXTENDS Integers, FiniteSets, Sequences

CONSTANT MaxIdentity  \* bytes of an identity, 255 in the code

Keepalives == {"TCP_KEEPALIVE", "TCP_KEEPALIVE_CNT", "TCP_KEEPALIVE_IDLE",
               "TCP_KEEPALIVE_INTVL"}
Numbers ==
  {"SNDHWM", "RCVHWM", "AFFINITY", "RATE", "RECOVERY_IVL", "SNDBUF",
   "RCVBUF", "LINGER", "RECONNECT_IVL", "RECONNECT_IVL_MAX", "BACKLOG",
   "MAXMSGSIZE", "MULTICAST_HOPS", "RCVTIMEO", "SNDTIMEO", "IPV4ONLY",
   "DELAY_ATTACH_ON_CONNECT"} \cup Keepalives
Settable == Numbers \cup {"IDENTITY", "TCP_ACCEPT_FILTER"}

\* The constructor.  The filters are a sequence.
NewOptions ==
  [o \in Settable |->
     CASE o \in {"SNDHWM", "RCVHWM"} -> 1000
       [] o \in {"RATE", "RECONNECT_IVL", "BACKLOG"} -> 100
       [] o = "RECOVERY_IVL" -> 10000
       [] o \in {"MULTICAST_HOPS", "IPV4ONLY"} -> 1
       [] o \in {"LINGER", "MAXMSGSIZE", "RCVTIMEO", "SNDTIMEO"}
            \cup Keepalives -> -1
       [] o \in {"AFFINITY", "SNDBUF", "RCVBUF", "RECONNECT_IVL_MAX",
                 "DELAY_ATTACH_ON_CONNECT"} -> 0
       [] o \in {"IDENTITY", "TCP_ACCEPT_FILTER"} -> <<>>]

SizeOf(o) == IF o \in {"AFFINITY", "MAXMSGSIZE"} THEN 8 ELSE 4

\* The numbers that setsockopt takes.
Valid(o, v) ==
  CASE o \in {"SNDHWM", "RCVHWM", "RECOVERY_IVL", "SNDBUF", "RCVBUF",
              "RECONNECT_IVL_MAX"}              -> v >= 0
    [] o \in {"RATE", "MULTICAST_HOPS"}         -> v > 0
    [] o = "RECONNECT_IVL"                      -> v >= -1
    [] o \in {"IPV4ONLY", "DELAY_ATTACH_ON_CONNECT"} -> v \in {0, 1}
    [] o = "TCP_KEEPALIVE"                      -> v \in {-1, 0, 1}
    [] o \in Keepalives \ {"TCP_KEEPALIVE"}     -> v > 0 \/ v = -1
    [] OTHER                                    -> TRUE
ValidIdentity(v, len) == len >= 1 /\ len <= MaxIdentity /\ v[1] # 0

\* Where the platform cannot, keepalive options are taken and not kept.
Stores(o, keepalive) == keepalive \/ o \notin Keepalives

\* No filter and no length clear the list; a filter that does not resolve is
\* refused.
SetFilter(opts, v, len) ==
  IF v.kind = "none" /\ len = 0
  THEN [rc |-> "ok", opts |-> [opts EXCEPT !["TCP_ACCEPT_FILTER"] = <<>>]]
  ELSE IF v.kind # "mask" \/ len = 0
  THEN [rc |-> "EINVAL", opts |-> opts]
  ELSE [rc |-> "ok",
        opts |-> [opts EXCEPT !["TCP_ACCEPT_FILTER"] = Append(@, v.addrs)]]

setsockopt(opts, o, v, len, keepalive) ==
  CASE o = "TCP_ACCEPT_FILTER" -> SetFilter(opts, v, len)
    [] \/ o = "IDENTITY" /\ ValidIdentity(v, len)
       \/ o \in Numbers /\ len = SizeOf(o) /\ Valid(o, v) ->
         [rc |-> "ok",
          opts |-> IF Stores(o, keepalive) THEN [opts EXCEPT ![o] = v]
                   ELSE opts]
    [] OTHER -> [rc |-> "EINVAL", opts |-> opts]

\* The bytes of the answer; the filters cannot be asked for.
AnswerSize(opts, o) ==
  IF o = "IDENTITY" THEN Len(opts["IDENTITY"]) ELSE SizeOf(o)
getsockopt(opts, o, len) ==
  IF o # "TCP_ACCEPT_FILTER" /\ len >= AnswerSize(opts, o)
  THEN [rc |-> "ok", val |-> opts[o], len |-> AnswerSize(opts, o)]
  ELSE [rc |-> "EINVAL", val |-> 0, len |-> len]
-----------------------------------------------------------------------------
(* tcp_listener_t.                                                         *)

NewListener(opts) == [s |-> "retired", plugged |-> FALSE, term |-> FALSE,
                      options |-> opts]

\* close, with the assertion that there is something to close.
close(l) == [l EXCEPT !.s = IF @ = "open" THEN "retired" ELSE "fault"]

\* set_address: the address does not resolve, there is no descriptor, the
\* address cannot be bound or listened on, or all is well.
set_address(opts, rc) ==
  LET opened == [NewListener(opts) EXCEPT !.s = "open"]
  IN CASE rc \in {"resolve", "open"} -> NewListener(opts)
       [] rc \in {"bind", "listen"}  -> close(opened)
       [] rc = "ok"                  -> opened

process_plug(l) == [l EXCEPT !.plugged = TRUE]
process_term(l) == [close(l) EXCEPT !.plugged = FALSE, !.term = FALSE]

\* Mutant of accept: the options are those the socket has now.
AcceptByCurrent(l, opts, addr) ==
  LET filters == opts["TCP_ACCEPT_FILTER"]
  IN filters = <<>> \/ \E i \in DOMAIN filters : addr \in filters[i]
\* accept: whether a connection from this address is kept.
accept(l, opts, addr) ==
  LET filters == l.options["TCP_ACCEPT_FILTER"]
  IN filters = <<>> \/ \E i \in DOMAIN filters : addr \in filters[i]
=============================================================================
