------------------------------ MODULE Signaler ------------------------------
(***************************************************************************)
(* zmq::signaler_t: signals is the counter of the eventfd, or the number   *)
(* of bytes in the socket pair, depending on the build.                    *)
(***************************************************************************)
EXTENDS Naturals

VARIABLES build,     \* "eventfd" or "socketpair"
          signals

svars == <<build, signals>>

\* make_fdpair.
SignalerInit ==
  /\ build \in {"eventfd", "socketpair"}
  /\ signals = 0

\* send; an interrupted send is repeated, so that it is one step.
send ==
  /\ signals' = signals + 1
  /\ UNCHANGED build

\* wait returns 0, or -1 with EAGAIN or EINTR when no signal is there.
WaitSucceeds == signals > 0

\* recv: the eventfd returns the whole counter, the socket one byte.
recv ==
  /\ signals' = IF build = "eventfd" THEN 0 ELSE signals - 1
  /\ UNCHANGED build

\* What the assertions of recv require.
RecvAsserts ==
  IF build = "eventfd" THEN signals \in {1, 2} ELSE signals > 0

\* The next signal was grabbed too: it is written back.
GrabbedTwo == build = "eventfd" /\ signals = 2
=============================================================================
