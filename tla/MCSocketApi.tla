----------------------------- MODULE MCSocketApi -----------------------------
(* A program that receives, one that sends, one that polls a socket and a  *)
(* raw descriptor with poll and with select, a proxy that captures, and    *)
(* one that sets options and binds.                                        *)
EXTENDS SocketApi

Msgs(f, b) == [s \in Socks |-> CASE s = "f" -> f [] s = "b" -> b
                                 [] OTHER -> 0]
Base == [app |-> "recv", impl |-> "poll", msgs |-> Msgs(3, 0),
         timeouts |-> {-1, 0, 2}, signals |-> FALSE, capture |-> FALSE,
         items |-> <<>>, term |-> TRUE, opts |-> {}, sets |-> 0,
         binds |-> FALSE, keepalive |-> TRUE]
Filter(kind, addrs) == [kind |-> kind, addrs |-> addrs]
MCTrials ==
  [o \in Settable |->
     CASE o = "IDENTITY" -> {<<>>, <<0>>, <<1>>, <<1, 2>>, <<1, 2, 3>>}
       [] o = "TCP_ACCEPT_FILTER" ->
            {Filter("none", {}), Filter("bad", {}), Filter("mask", {1}),
             Filter("mask", {2})}
       [] OTHER -> {-2, -1, 0, 2}]
MCPlans ==
  {Base, [Base EXCEPT !.app = "send", !.msgs = Msgs(6, 0)],
   [Base EXCEPT !.app = "recv", !.signals = TRUE, !.msgs = Msgs(2, 0)],
   [Base EXCEPT !.app = "send", !.signals = TRUE, !.msgs = Msgs(5, 0)]}
    \cup
  {[Base EXCEPT !.app = "poll", !.items = <<"f", "raw">>, !.impl = i,
                !.signals = x, !.msgs = Msgs(2, 0)] :
     i \in {"poll", "select"}, x \in BOOLEAN}
    \cup
  {[Base EXCEPT !.app = "proxy", !.items = <<"f", "b">>, !.capture = c,
                !.msgs = Msgs(2, 1), !.term = t] :
     c \in BOOLEAN, t \in BOOLEAN}
    \cup
  {[Base EXCEPT !.app = "proxy", !.items = <<"f", "b">>, !.capture = TRUE,
                !.msgs = Msgs(4, 0), !.term = FALSE]}
    \cup
  {[Base EXCEPT !.app = "options", !.opts = o, !.keepalive = k,
                !.sets = IF o = Settable THEN 1 ELSE 2, !.term = FALSE] :
     o \in {Settable, {"RCVTIMEO", "SNDHWM", "MAXMSGSIZE", "IDENTITY"}},
     k \in BOOLEAN}
    \cup
  {[Base EXCEPT !.app = "options", !.opts = {"TCP_ACCEPT_FILTER"},
                !.sets = 2, !.binds = TRUE]}
=============================================================================
